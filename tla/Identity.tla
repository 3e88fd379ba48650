------------------------------- MODULE Identity -------------------------------
(***************************************************************************)
(* The token issuer's identities and the lanes that use them: tenants,     *)
(* principals and their secrets, one user's grants, the backends' API keys *)
(* (http/admin/identity.rs, http/admin.rs, store/repo.rs), machine tokens  *)
(* (http/token.rs), user tokens (http/user_token.rs), and the backend lane *)
(* (http/internal.rs, http/authz.rs).                                      *)
(*                                                                         *)
(* A row's id is the order it was inserted in.  An administrator's request *)
(* is one step: its validation reads no state, it waits for the writer's   *)
(* transaction, and only the clock it read before is older than that step. *)
(* A refused or failed request changes nothing.                            *)
(***************************************************************************)
EXTENDS Optional, Integers, FiniteSets

CONSTANTS
    Tenants,
    DefaultTenant,  \* default_user_tenant: NULL is none
    Roles,          \* the roles a grant may carry
    DefaultRoles,   \* default_user_roles
    Requests,       \* principals an administrator asks for
    Audiences,      \* issuer_audiences
    Lives,          \* expires_in_secs asked for; NULL is never
    OldLives,       \* expire_old_in_secs asked for; NULL leaves the others alone
    MaxTtl, MachineTtl, UserTtl,
    Asked,          \* ttl asked for; NULL is the default
    IdleTtl,        \* of the user's session
    TouchInterval,  \* TOUCH_INTERVAL_SECS, TOUCH_INTERVAL
    Lag,            \* bound: from reading the clock to the write or the answer
    MaxPrincipals, MaxSecrets, MaxKeys,  \* bounds: rows
    MaxWrites,      \* bound: administrators' changes
    MaxRequests,    \* bound: requests served
    MaxInputs,      \* bound: changes and requests together
    MaxClock         \* bound: the clock stops here

PrincipalRequest ==
    [tenant : Tenants, name : STRING, audience : STRING, max_ttl : Nat]

\* build_issuer: the default lifetimes lie within the maximum.
ASSUME IdentityAssumption ==
    /\ {MaxTtl, MachineTtl, UserTtl, IdleTtl, TouchInterval, Lag, MaxPrincipals, MaxSecrets,
        MaxKeys, MaxWrites, MaxRequests, MaxInputs, MaxClock} \subseteq Nat
    /\ MachineTtl \in 1..MaxTtl /\ UserTtl \in 1..MaxTtl
    /\ Lives \subseteq Option(Nat \ {0}) /\ OldLives \subseteq Option(Nat)
    /\ Asked \subseteq Option(Nat \ {0})
    /\ NULL \notin Nat \cup Tenants
    /\ DefaultTenant \in Option(Tenants)
    /\ DefaultRoles \notin Roles
    /\ Requests \subseteq PrincipalRequest /\ \A r \in Requests : r.max_ttl > 0

\* A row of user_grant is not the absence of one.
UserGrant == [roles : Roles, revoked : BOOLEAN]

ASSUME UserGrantAssumption == NULL \notin UserGrant

VARIABLES
    clock,
    tenants,     \* "none", "on" or "off" (disabled_at is set)
    principals,  \* by id
    secrets,     \* by id
    grants,      \* the user's, by tenant; NULL is no row
    keys,        \* api_key, by id
    userSession,     \* the user's idle_exp; NULL is no session
    touched,     \* when each credential's use was last sent to the writer
    touches,     \* uses on their way to the store
    req,         \* the request being served
    token,       \* the token this step handed out
    history      \* what happened so far, for the properties

identityVars == <<clock, tenants, principals, secrets, grants, keys, userSession, touched, touches,
          req, token, history>>

rows == <<tenants, principals, secrets, grants, keys>>

Principals == DOMAIN principals
Secrets == DOMAIN secrets
Keys == DOMAIN keys

\* Whose use is recorded: principals and API keys.
Users == ({"sp"} \X (1..MaxPrincipals)) \cup ({"bk"} \X (1..MaxKeys))

\* The tables are created with the default tenant in place.
IdentityInit ==
    /\ clock = 0
    /\ tenants = [t \in Tenants |-> IF t = DefaultTenant THEN "on" ELSE "none"]
    /\ principals = << >> /\ secrets = << >> /\ keys = << >>
    /\ grants = [t \in Tenants |-> NULL]
    /\ userSession = NULL
    /\ touched = [u \in Users |-> NULL]
    /\ touches = {}
    /\ req = NULL /\ token = NULL
    /\ history = [used |-> [u \in Users |-> NULL], lost |-> {}, writes |-> 0, requests |-> 0]

ClockTick ==
    /\ clock < MaxClock
    /\ \A u \in touches : clock - u.at < Lag
    /\ req # NULL => clock - req.at < Lag
    /\ clock' = clock + 1
    /\ token' = NULL
    /\ UNCHANGED <<rows, userSession, touched, touches, req, history>>

----------------------------------------------------------------------------
(***************************************************************************)
(* What the rows say.                                                      *)
(***************************************************************************)
\* SecretRow::live_at, and the principal's term of the join.
SecretLive(s, t) ==
    /\ ~secrets[s].revoked
    /\ secrets[s].expires_at # NULL => secrets[s].expires_at > t
    /\ ~principals[secrets[s].principal].revoked

\* Mutant: the secret's date is not looked at.
ResolvesUndated(s, t) ==
    /\ ~secrets[s].revoked
    /\ ~principals[secrets[s].principal].revoked
    /\ tenants[principals[secrets[s].principal].tenant] = "on"

\* find_live_principal_by_secret: all four terms.
Resolves(s, t) ==
    SecretLive(s, t) /\ tenants[principals[secrets[s].principal].tenant] = "on"

\* find_live_user_grants.
LiveGrants == {t \in Tenants : grants[t] # NULL /\ ~grants[t].revoked /\ tenants[t] = "on"}

\* Mutant: only the grants that can be used count as an answer.
AnyLiveGrant == LiveGrants # {}

\* list_user_grants of one person, revoked or not.
AnyGrant == \E t \in Tenants : grants[t] # NULL

----------------------------------------------------------------------------
(***************************************************************************)
(* Administrators.                                                         *)
(***************************************************************************)
\* The clock an administrator's handler read before its write was applied.
Stamps == {t \in 0..clock : clock - t <= Lag}

\* Any change: one more write, and no lane moves.
Write ==
    /\ history.writes < MaxWrites /\ history.writes + history.requests < MaxInputs
    /\ token' = NULL
    /\ UNCHANGED <<clock, userSession, touched, touches>>

Written == [history EXCEPT !.writes = @ + 1]

\* ensure_tenant: naming a tenant creates it, and re-enables nothing.
Ensured(t) == [tenants EXCEPT ![t] = IF @ = "none" THEN "on" ELSE @]

CreateTenant(t) ==
    /\ Write
    /\ tenants[t] = "none"
    /\ tenants' = [tenants EXCEPT ![t] = "on"]
    /\ history' = Written
    /\ UNCHANGED <<req, principals, secrets, grants, keys>>

DisableTenant(t) ==
    /\ Write
    /\ tenants[t] = "on"
    /\ tenants' = [tenants EXCEPT ![t] = "off"]
    /\ history' = Written
    /\ UNCHANGED <<req, principals, secrets, grants, keys>>

EnableTenant(t) ==
    /\ Write
    /\ tenants[t] = "off"
    /\ tenants' = [tenants EXCEPT ![t] = "on"]
    /\ req' = IF req = NULL THEN NULL ELSE [req EXCEPT !.closed = @ \ {t}]
    /\ history' = Written
    /\ UNCHANGED <<principals, secrets, grants, keys>>

\* mint_secret: a date, if one was asked for.
Secret(p, at, life) ==
    LET date == IF life = NULL THEN NULL ELSE at + life
    IN  [principal |-> p, expires_at |-> date, revoked |-> FALSE, asked |-> date]

\* UNIQUE (tenant_id, name): a revoked principal keeps its name.
NameFree(r) ==
    \A p \in Principals : <<principals[p].tenant, principals[p].name>> # <<r.tenant, r.name>>

\* insert_principal, with its first secret.
CreatePrincipal(r, at, life) ==
    /\ Write
    /\ Cardinality(Principals) < MaxPrincipals /\ Cardinality(Secrets) < MaxSecrets
    /\ tenants[r.tenant] # "off"
    /\ NameFree(r)
    /\ tenants' = Ensured(r.tenant)
    /\ LET p == Cardinality(Principals) + 1
           s == Cardinality(Secrets) + 1
       IN  /\ principals' = [q \in Principals \cup {p} |->
                               IF q = p THEN [tenant |-> r.tenant, name |-> r.name,
                                              audience |-> r.audience,
                                              max_ttl |-> r.max_ttl, revoked |-> FALSE,
                                              last_used_at |-> NULL]
                               ELSE principals[q]]
           /\ secrets' = [q \in Secrets \cup {s} |->
                            IF q = s THEN Secret(p, at, life) ELSE secrets[q]]
    /\ history' = Written
    /\ UNCHANGED <<req, grants, keys>>

RevokePrincipal(p) ==
    /\ Write
    /\ ~principals[p].revoked
    /\ principals' = [principals EXCEPT ![p].revoked = TRUE]
    /\ history' = Written
    /\ UNCHANGED <<req, tenants, secrets, grants, keys>>

\* The UPDATE of add_principal_secret: a date is only ever brought forward.
Dated(row, date) ==
    IF ~row.revoked /\ (row.expires_at = NULL \/ row.expires_at > date)
    THEN [row EXCEPT !.expires_at = date]
    ELSE row

\* Mutant: the new secret is inserted first and dated with the others.
SecretsAddedFirst(p, at, life, old) ==
    LET s == Cardinality(Secrets) + 1
        new == Secret(p, at, life)
        date == IF old = NULL THEN NULL ELSE at + old
    IN  [q \in Secrets \cup {s} |->
           LET row == IF q = s THEN new ELSE secrets[q]
           IN  IF old # NULL /\ row.principal = p THEN Dated(row, date) ELSE row]

\* add_principal_secret: the others are dated before the new one is there.
SecretsAdded(p, at, life, old) ==
    LET s == Cardinality(Secrets) + 1
    IN  [q \in Secrets \cup {s} |->
           IF q = s THEN Secret(p, at, life)
           ELSE IF old # NULL /\ secrets[q].principal = p THEN Dated(secrets[q], at + old)
           ELSE secrets[q]]

AddSecret(p, at, life, old) ==
    /\ Write
    /\ Cardinality(Secrets) < MaxSecrets
    /\ ~principals[p].revoked
    /\ secrets' = SecretsAdded(p, at, life, old)
    /\ history' = Written
    /\ UNCHANGED <<req, tenants, principals, grants, keys>>

RevokeSecret(s) ==
    /\ Write
    /\ ~secrets[s].revoked
    /\ secrets' = [secrets EXCEPT ![s].revoked = TRUE]
    /\ history' = Written
    /\ UNCHANGED <<req, tenants, principals, grants, keys>>

\* insert_user_grant: a revoked grant comes back with the new roles.
CreateUserGrant(t, roles) ==
    /\ Write
    /\ tenants[t] # "off"
    /\ grants[t] # NULL => grants[t].revoked
    /\ tenants' = Ensured(t)
    /\ grants' = [grants EXCEPT ![t] = [roles |-> roles, revoked |-> FALSE]]
    /\ history' = Written
    /\ UNCHANGED <<req, principals, secrets, keys>>

RevokeUserGrant(t) ==
    /\ Write
    /\ grants[t] # NULL /\ ~grants[t].revoked
    /\ grants' = [grants EXCEPT ![t].revoked = TRUE]
    /\ history' = Written
    /\ UNCHANGED <<req, tenants, principals, secrets, keys>>

CreateKey ==
    /\ Write
    /\ Cardinality(Keys) < MaxKeys
    /\ LET k == Cardinality(Keys) + 1
       IN  keys' = [j \in Keys \cup {k} |-> IF j = k THEN [revoked |-> FALSE, last_used_at |-> NULL]
                                            ELSE keys[j]]
    /\ history' = Written
    /\ UNCHANGED <<req, tenants, principals, secrets, grants>>

RevokeKey(k) ==
    /\ Write
    /\ ~keys[k].revoked
    /\ keys' = [keys EXCEPT ![k].revoked = TRUE]
    /\ history' = Written
    /\ UNCHANGED <<req, tenants, principals, secrets, grants>>

----------------------------------------------------------------------------
(***************************************************************************)
(* record_use: at most one write an interval for each credential.          *)
(***************************************************************************)
TouchDue(u) == touched[u] = NULL \/ clock - touched[u] >= TouchInterval

RecordUse(u) ==
    IF TouchDue(u)
    THEN /\ touched' = [touched EXCEPT ![u] = clock]
         /\ touches' = touches \cup {[user |-> u, at |-> clock]}
    ELSE UNCHANGED <<touched, touches>>

\* touch_principal, touch_api_key.
ApplyTouch(use) ==
    /\ use \in touches
    /\ touches' = touches \ {use}
    /\ IF use.user[1] = "sp"
       THEN principals' = [principals EXCEPT ![use.user[2]].last_used_at = use.at] /\ UNCHANGED keys
       ELSE keys' = [keys EXCEPT ![use.user[2]].last_used_at = use.at] /\ UNCHANGED principals
    /\ history' = [history EXCEPT !.lost = @ \ {use.user}]
    /\ token' = NULL
    /\ UNCHANGED <<clock, tenants, secrets, grants, userSession, touched, req>>

\* The batch that carried it failed; nobody waits for the answer.
LoseTouch(use) ==
    /\ use \in touches
    /\ touches' = touches \ {use}
    /\ history' = [history EXCEPT !.lost = @ \cup {use.user}]
    /\ token' = NULL
    /\ UNCHANGED <<clock, rows, userSession, touched, req>>

----------------------------------------------------------------------------
(***************************************************************************)
(* POST /oauth/token: a principal with its secret.                         *)
(***************************************************************************)
Least(a, b) == IF a <= b THEN a ELSE b
Most(a, b) == IF a >= b THEN a ELSE b

\* The principal's own maximum, held to the issuer-wide one.
Ceiling(p) == Least(p.max_ttl, MaxTtl)

\* One request is served at a time: two of them share nothing but the lock
\* of record_use.
Arrives ==
    /\ req = NULL
    /\ history.requests < MaxRequests /\ history.writes + history.requests < MaxInputs

\* For the properties: the tenants disabled when a request comes, as long as they
\* stay so.
Closed == {t \in Tenants : tenants[t] = "off"}

\* authenticate, and what the row it found allows: the client_id is the secret's
\* principal, the audience is configured, the ttl lies within the ceiling.
MachineRequest(s, client, ttl) ==
    /\ Arrives
    /\ Resolves(s, clock)
    /\ client = secrets[s].principal
    /\ LET p == principals[client]
       IN  /\ p.audience \in Audiences
           /\ ttl # NULL => ttl <= Ceiling(p)
           /\ req' = [lane |-> "machine", stage |-> "sign", at |-> clock, secret |-> s,
                      client |-> client, tenant |-> p.tenant, closed |-> Closed,
                      ttl |-> IF ttl = NULL THEN Least(MachineTtl, Ceiling(p)) ELSE ttl]
    /\ token' = NULL
    /\ history' = [history EXCEPT !.requests = @ + 1]
    /\ UNCHANGED <<clock, rows, userSession, touched, touches>>

MachineSign ==
    /\ req # NULL /\ req.lane = "machine"
    /\ token' = [lane |-> "machine", tenant |-> req.tenant, at |-> clock, exp |-> clock + req.ttl,
                 closed |-> req.closed]
    /\ RecordUse(<<"sp", req.client>>)
    /\ history' = [history EXCEPT !.used[<<"sp", req.client>>] = clock]
    /\ req' = NULL
    /\ UNCHANGED <<clock, rows, userSession>>

----------------------------------------------------------------------------
(***************************************************************************)
(* POST /session/token: the signed-in user.  mint reads the clock, then    *)
(* the grants, the rows of any kind and the default tenant, by three       *)
(* statements.                                                             *)
(***************************************************************************)
\* A login or a refresh moves the idle expiry; a kill removes the session.
SessionMoves(until) ==
    /\ until \in {NULL, clock + IdleTtl} \ {userSession}
    /\ userSession' = until
    /\ token' = NULL
    /\ UNCHANGED <<clock, rows, touched, touches, req, history>>

SessionActive == userSession # NULL /\ clock < userSession

UserRequest(asked) ==
    /\ Arrives
    /\ SessionActive
    /\ req' = [lane |-> "user", stage |-> "live", at |-> clock, asked |-> asked,
               until |-> userSession, minted |-> NULL, live |-> << >>, tenant |-> NULL, roles |-> NULL,
               closed |-> Closed, granted |-> \E t \in Tenants : grants[t] # NULL]
    /\ token' = NULL
    /\ history' = [history EXCEPT !.requests = @ + 1]
    /\ UNCHANGED <<clock, rows, userSession, touched, touches>>

AtStage(stage) == req # NULL /\ req.lane = "user" /\ req.stage = stage

ReadLiveGrants ==
    /\ AtStage("live")
    /\ req' = [req EXCEPT !.stage = "any", !.minted = clock,
                          !.live = [t \in LiveGrants |-> grants[t].roles]]
    /\ token' = NULL
    /\ UNCHANGED <<clock, rows, userSession, touched, touches, history>>

\* The grant asked for, or the only one.
Chosen ==
    {t \in DOMAIN req.live : IF req.asked = NULL THEN DOMAIN req.live = {t} ELSE req.asked = t}

\* Every refusal ends the request.
ReadAnyGrant ==
    /\ AtStage("any")
    /\ req' =
         IF DOMAIN req.live = {} /\ ~AnyGrant
         THEN IF DefaultTenant # NULL /\ req.asked \in {NULL, DefaultTenant}
              THEN [req EXCEPT !.stage = "default"] ELSE NULL
         ELSE IF Chosen = {} THEN NULL
         ELSE LET t == CHOOSE t \in Chosen : TRUE
              IN  [req EXCEPT !.stage = "sign", !.tenant = t, !.roles = req.live[t]]
    /\ token' = NULL
    /\ UNCHANGED <<clock, rows, userSession, touched, touches, history>>

ReadDefaultTenant ==
    /\ AtStage("default")
    /\ req' = IF tenants[DefaultTenant] = "off" THEN NULL
              ELSE [req EXCEPT !.stage = "sign", !.tenant = DefaultTenant,
                               !.roles = DefaultRoles]
    /\ token' = NULL
    /\ UNCHANGED <<clock, rows, userSession, touched, touches, history>>

\* Cut short at the session's idle expiry, and never less than a second.
UserLifetime(until) == Least(UserTtl, Most(until - req.minted, 1))

UserSign ==
    /\ AtStage("sign")
    /\ token' = [lane |-> "user", tenant |-> req.tenant, at |-> req.minted,
                 exp |-> req.minted + UserLifetime(req.until), roles |-> req.roles,
                 until |-> req.until, closed |-> req.closed, granted |-> req.granted]
    /\ req' = NULL
    /\ UNCHANGED <<clock, rows, userSession, touched, touches, history>>

----------------------------------------------------------------------------
(***************************************************************************)
(* POST /internal/token and /authz: a backend with an issued key.  Its use *)
(* is recorded; the sessions and the custody it then asks about are read   *)
(* only.                                                                   *)
(***************************************************************************)
BackendRequest(k) ==
    /\ Arrives
    /\ ~keys[k].revoked
    /\ RecordUse(<<"bk", k>>)
    /\ history' = [history EXCEPT !.used[<<"bk", k>>] = clock, !.requests = @ + 1]
    /\ token' = NULL
    /\ UNCHANGED <<clock, rows, userSession, req>>

\* What is in memory is lost, uses on their way too.
Restart ==
    /\ touched' = [u \in Users |-> NULL]
    /\ touches' = {}
    /\ history' = [history EXCEPT !.lost = @ \cup {use.user : use \in touches}]
    /\ req' = NULL /\ token' = NULL
    /\ UNCHANGED <<clock, rows, userSession>>

----------------------------------------------------------------------------
Administer ==
    \/ \E t \in Tenants :
         \/ CreateTenant(t) \/ DisableTenant(t) \/ EnableTenant(t) \/ RevokeUserGrant(t)
         \/ \E roles \in Roles : CreateUserGrant(t, roles)
    \/ \E at \in Stamps, life \in Lives :
         \/ \E r \in Requests : CreatePrincipal(r, at, life)
         \/ \E p \in Principals, old \in OldLives : AddSecret(p, at, life, old)
    \/ \E p \in Principals : RevokePrincipal(p)
    \/ \E s \in Secrets : RevokeSecret(s)
    \/ CreateKey
    \/ \E k \in Keys : RevokeKey(k)

Serve ==
    \/ \E s \in Secrets, client \in Principals, ttl \in Asked : MachineRequest(s, client, ttl)
    \/ MachineSign
    \/ \E asked \in Option(Tenants) : UserRequest(asked)
    \/ ReadLiveGrants \/ ReadAnyGrant \/ ReadDefaultTenant \/ UserSign
    \/ \E k \in Keys : BackendRequest(k)

IdentityNext ==
    \/ ClockTick \/ Restart \/ Administer \/ Serve
    \/ \E until \in {NULL, clock + IdleTtl} : SessionMoves(until)
    \/ \E use \in touches : ApplyTouch(use) \/ LoseTouch(use)

IdentitySpec == IdentityInit /\ [][IdentityNext]_identityVars

----------------------------------------------------------------------------
\* Every variable has its type; a secret has its principal, a principal its
\* tenant, and a tenant never two principals of one name, revoked or not.
IdentityTypeOK ==
    /\ clock \in 0..MaxClock
    /\ tenants \in [Tenants -> {"none", "on", "off"}]
    /\ \E n \in 0..MaxPrincipals : Principals = 1..n
    /\ \E n \in 0..MaxSecrets : Secrets = 1..n
    /\ \E n \in 0..MaxKeys : Keys = 1..n
    /\ \A p \in Principals :
         /\ principals[p].tenant \in Tenants /\ tenants[principals[p].tenant] # "none"
         /\ \A q \in Principals : p # q =>
              principals[p].tenant # principals[q].tenant \/ principals[p].name # principals[q].name
    /\ \A s \in Secrets :
         /\ secrets[s].principal \in Principals
         /\ secrets[s].expires_at \in Option(Nat) /\ secrets[s].asked \in Option(Nat)
    /\ \A t \in Tenants : grants[t] # NULL => tenants[t] # "none"
    /\ userSession \in Option(Nat)
    /\ touched \in [Users -> Option(0..clock)]
    /\ \A use \in touches : use.user \in Users /\ use.at \in 0..clock

\* "Adding a secret leaves the older ones valid", and a rotation that dates them
\* never touches the secret it hands out: whatever rotations raced, the newest
\* secret of a principal lasts as long as it was asked to, and no older one longer.
SecretsKeepTheirWord ==
    \A s \in Secrets :
        \/ secrets[s].expires_at = secrets[s].asked
        \/ /\ \E later \in Secrets : later > s /\ secrets[later].principal = secrets[s].principal
           /\ secrets[s].asked = NULL \/ secrets[s].expires_at < secrets[s].asked

\* "A revoked grant is still an answer, and must not fall through to the install's
\* default tenant" (issuer/mod.rs): a user who had any grant when the request came
\* is not given the default, whatever is granted or revoked between the reads.
DefaultOnlyIfNeverGranted ==
    (token # NULL /\ token.lane = "user" /\ token.roles = DefaultRoles) => ~token.granted

\* A tenant that was disabled before a request came and stayed so gets no token,
\* through a principal, a grant or the default, and naming it opens nothing.
DisabledTenantIsClosed ==
    (token # NULL) => token.tenant \notin token.closed

\* What the signing keys are kept published for: no token outlives the issuer's
\* maximum, and a user's token ends with the session, but for the time the
\* request took.
TokensEnd ==
    token # NULL =>
        /\ token.exp - token.at \in 1..MaxTtl
        /\ token.lane = "user" => token.exp <= token.until + Lag

\* Whatever administrators change between the reads of a request, the token it
\* ends with is one that was due: not the default tenant's in place of a grant, not
\* a closed tenant's, not longer than the issuer and the session allow.
TokensAreDue == DefaultOnlyIfNeverGranted /\ DisabledTenantIsClosed /\ TokensEnd

LastUsedAt(u) == IF u[1] = "sp" THEN principals[u[2]].last_used_at ELSE keys[u[2]].last_used_at

\* What an operator reads before revoking a credential: the last use shown is
\* less than an interval older than the last one, unless the record of it is on
\* its way or was lost.
LastUseShown ==
    \A u \in Users :
        (/\ history.used[u] # NULL
         /\ u \notin history.lost
         /\ \A use \in touches : use.user # u)
        => /\ LastUsedAt(u) # NULL
           /\ history.used[u] - LastUsedAt(u) < TouchInterval

\* What an administrator was told of a credential stays true through racing
\* rotations, lost writes and restarts: the life it was given when it was handed
\* out, and the last use shown before it is revoked.
CredentialsAsShown == IdentityTypeOK /\ SecretsKeepTheirWord /\ LastUseShown

\* The abstract credential: a secret is valid while its own dates and its principal
\* let it be, and the request being served was opened by one.
SecretPhase(s) ==
    IF s \notin Secrets THEN "unissued"
    ELSE IF SecretLive(s, clock) THEN "valid" ELSE "ended"

Book == INSTANCE Credential
    WITH Ids <- 1..MaxSecrets, NoId <- NULL,
         phase <- [s \in 1..MaxSecrets |-> SecretPhase(s)],
         accepted <- IF req = NULL THEN NULL
                     ELSE IF req.lane = "machine" THEN req.secret ELSE NULL

\* Principals, secrets, dates and the clock together implement the credential: no
\* sequence of changes brings a secret that stopped working back, and a request
\* is opened only by one that works.
SecretsAreCredentials == Book!Spec
=============================================================================
