------------------------------- MODULE Providers -------------------------------
(***************************************************************************)
(* The identity providers: their rows (store/repo.rs), the registry the    *)
(* process serves from (providers.rs), the OIDC clients it has connected   *)
(* (oauth.rs), and the administrators who change them                      *)
(* (http/admin/providers.rs).                                              *)
(*                                                                         *)
(* An administrator's request reads the settings, checks who answers to    *)
(* the id, connects to the provider, writes the row and installs the       *)
(* entry, in steps that logins and other requests interleave with.  A      *)
(* secret, a client id and the scopes are one number, cred; a person is    *)
(* the provider id that prefixes the subject and the issuer who vouched.   *)
(***************************************************************************)
EXTENDS Optional, Integers, Sequences, FiniteSets

CONSTANTS
    Default,        \* the config-file provider, which has no row
    Ids,            \* ids an administrator may use
    Issuers,        \* issuers behind them
    DefaultIssuer,  \* the issuer of the config file
    Admins,         \* administrators at work
    MaxKeys,        \* bound: signing keys of an issuer
    MaxInputs       \* bound: requests, ticks, restarts and the rest of the world

ASSUME ProvidersAssumption ==
    /\ Default \notin Ids /\ DefaultIssuer \in Issuers
    /\ IsFiniteSet(Ids) /\ IsFiniteSet(Issuers)
    /\ {MaxKeys, MaxInputs} \subseteq Nat
    /\ NULL \notin Issuers \cup Ids \cup {Default}

VARIABLES
    rows,      \* identity_provider
    people,    \* custody and user_grant, as far as they name a provider
    keys,      \* the key each issuer signs with now
    registry,  \* ProviderRegistry::entries: the Entry serving each id, 0 for none
    entries,   \* every Entry ever installed
    clients,   \* every OidcClient ever built
    admin,     \* what each administrator's request does next
    history    \* what happened so far, for the bounds and the properties

AllIds == Ids \cup {Default}

NoRequest == [step |-> "idle"]

\* ProviderSettings, and the columns of its row.
Configured(issuer, enabled) ==
    [issuer |-> issuer, enabled |-> enabled, deleted |-> FALSE, cred |-> 1]

Known(s) == s # NULL /\ s.deleted = FALSE

\* ProviderRegistry::settings: tombstones included.
Settings(id) == IF registry[id] = 0 THEN NULL ELSE entries[registry[id]].settings

\* ProviderRegistry::enabled.
Enabled(id) == Known(Settings(id)) /\ Settings(id).enabled

\* ProviderRegistry::connected_client: 0 for none.
ConnectedClient(id) == IF registry[id] = 0 THEN 0 ELSE entries[registry[id]].client

\* OidcClient::build, once discovery has answered.
Built(id, s) ==
    [id |-> id, issuer |-> s.issuer, cred |-> s.cred, key |-> keys[s.issuer],
     last |-> NULL, busy |-> FALSE]

Entry(id, s, c) == [id |-> id, settings |-> s, client |-> c]

\* Does a person's row carry this id?  The prefix of the subject, or the provider column.
InNamespace(p, id) == p.ns = id \/ p.id = id

InUse(id) == \E p \in people : InNamespace(p, id)

\* A registry read from the rows: nothing connected but the config provider.
BootEntries(stored) ==
    LET found == {Entry(id, stored[id], 0) : id \in {j \in Ids : stored[j] # NULL}}
        listed == CHOOSE q \in [1 .. Cardinality(found) -> found] :
                      {q[i] : i \in DOMAIN q} = found
    IN  Append(listed, Entry(Default, Configured(DefaultIssuer, TRUE), 1))

BootRegistry(es) ==
    [id \in AllIds |-> IF \E i \in DOMAIN es : es[i].id = id
                       THEN CHOOSE i \in DOMAIN es : es[i].id = id ELSE 0]

\* The config provider's client, discovered before the process serves.
BootClients(held) ==
    << [id |-> Default, issuer |-> DefaultIssuer, cred |-> 1, key |-> held[DefaultIssuer],
        last |-> NULL, busy |-> FALSE] >>

ProvidersInit ==
    /\ keys \in {[i \in Issuers |-> n] : n \in 1 .. MaxKeys}    \* rotated since the boot, or not
    /\ rows \in [Ids -> {NULL} \cup {Configured(i, TRUE) : i \in Issuers \ {DefaultIssuer}}]
    /\ people = {[kind |-> "custody", id |-> Default, ns |-> NULL, issuer |-> DefaultIssuer, seq |-> 1]}
    /\ entries = BootEntries(rows)
    /\ registry = BootRegistry(BootEntries(rows))
    /\ clients = BootClients([i \in Issuers |-> 1])
    /\ admin = [a \in Admins |-> NoRequest]
    /\ history = [inputs |-> 0, taken |-> 1,
                  checked |-> [id \in Ids |-> 0],    \* people when its issuer was last settled
                  off |-> [id \in Ids |-> NULL],     \* logins past the door when it was closed
                  crossed |-> {}]                    \* ids two requests were changing at once

\* One more input from outside.
Input(h) ==
    /\ history.inputs < MaxInputs
    /\ history' = [h EXCEPT !.inputs = @ + 1]

----------------------------------------------------------------------------
(***************************************************************************)
(* The administrator's requests.                                           *)
(***************************************************************************)
\* The ids that two requests are changing at once, when this one is taken.
Crossed(a, id) ==
    IF \E b \in Admins \ {a} : admin[b].step # "idle" /\ admin[b].id = id
    THEN history.crossed \cup {id} ELSE history.crossed

Ask(a, request) ==
    /\ admin[a].step = "idle"
    /\ Input([history EXCEPT !.crossed = Crossed(a, request.id)])
    /\ admin' = [admin EXCEPT ![a] = request]
    /\ UNCHANGED <<rows, people, keys, registry, entries, clients>>

\* A request, with the settings it read first.
Request(step, op, id, next, fresh) ==
    [step |-> step, op |-> op, id |-> id, was |-> Settings(id), next |-> next,
     client |-> 0, fresh |-> fresh, seen |-> history.taken]

\* A deleted id comes back on the issuer it had.
MayCreate(id, issuer) ==
    Settings(id) # NULL => Settings(id).deleted /\ Settings(id).issuer = issuer

\* create_inner reads the settings.
AskCreate(a, id, issuer, enabled) ==
    /\ MayCreate(id, issuer)
    /\ Ask(a, Request("prepare", "insert", id, Configured(issuer, enabled), TRUE))

\* What an update may ask for: one field of the settings at a time.
Changed(s) ==
    {[s EXCEPT !.issuer = i] : i \in Issuers \ {DefaultIssuer}}
        \cup {[s EXCEPT !.enabled = e] : e \in BOOLEAN}
        \cup {[s EXCEPT !.cred = 3 - @]}

\* Mutant: a new secret keeps the client that has the old one.
ReusableBySecret(s, next) == s.enabled /\ next.issuer = s.issuer

\* The connected client still fits, and its keys are not long out of date.
Reusable(s, next) == s.enabled /\ next.issuer = s.issuer /\ next.cred = s.cred

\* update_inner reads the settings.
AskUpdate(a, id, next) ==
    Ask(a, Request("prepare", "update", id, next, next.cred # Settings(id).cred))

\* remove reads the settings.
AskDelete(a, id) ==
    Ask(a, Request("apply", "delete", id,
                   [Settings(id) EXCEPT !.deleted = TRUE, !.enabled = FALSE, !.cred = 0], TRUE))

\* Mutant: an issuer changes whoever is there.
MaySettleAlways(r) == TRUE

\* An id is a set of people: it gets its first issuer, or another one, only while
\* nobody answers to it.
MaySettle(r) ==
    (IF r.op = "insert" THEN r.was = NULL ELSE r.was.issuer # r.next.issuer) => ~InUse(r.id)

\* The rest of the request up to its first await: namespace_in_use, or, when the
\* connection is unchanged, connected_client, which reads the registry again.
AdminPrepare(a) ==
    LET r == admin[a]
        reusable == r.op = "update" /\ Reusable(r.was, r.next)
    IN  /\ r.step = "prepare"
        /\ \/ /\ MaySettle(r)
              /\ admin' = [admin EXCEPT
                     ![a].step = IF r.next.enabled /\ ~reusable THEN "connect" ELSE "apply",
                     ![a].client = IF reusable THEN ConnectedClient(r.id) ELSE 0,
                     ![a].seen = history.taken]
           \/ /\ ~MaySettle(r)
              /\ admin' = [admin EXCEPT ![a] = NoRequest]
        /\ UNCHANGED <<rows, people, keys, registry, entries, clients, history>>

\* connect: discovery answers, or refuses the request.
AdminConnect(a) ==
    LET r == admin[a]
    IN  /\ r.step = "connect"
        /\ \/ /\ clients' = Append(clients, Built(r.id, r.next))
              /\ admin' = [admin EXCEPT ![a].step = "apply", ![a].client = Len(clients) + 1]
           \/ /\ admin' = [admin EXCEPT ![a] = NoRequest]
              /\ UNCHANGED clients
        /\ UNCHANGED <<rows, people, keys, registry, entries, history>>

\* insert_provider, update_provider, delete_provider: does the statement find its row?
Writes(r) ==
    IF r.op = "insert"
    THEN rows[r.id] # NULL => rows[r.id].deleted /\ rows[r.id].issuer = r.next.issuer
    ELSE Known(rows[r.id])

\* The row afterwards; a secret that was not sent stays as it is stored.
Written(r) == [r.next EXCEPT !.cred = IF r.fresh THEN @ ELSE rows[r.id].cred]

\* apply: one transaction, or nothing.
AdminApply(a) ==
    LET r == admin[a]
        settled == rows[r.id] # NULL => rows[r.id].issuer # r.next.issuer
    IN  /\ r.step = "apply"
        /\ \/ /\ Writes(r)
              /\ rows' = [rows EXCEPT ![r.id] = Written(r)]
              /\ admin' = [admin EXCEPT ![a].step = "install"]
              /\ history' = [history EXCEPT !.checked[r.id] = IF settled THEN r.seen ELSE @,
                                            !.off[r.id] = IF r.next.enabled THEN NULL ELSE @]
           \/ /\ admin' = [admin EXCEPT ![a] = NoRequest]
              /\ UNCHANGED <<rows, history>>
        /\ UNCHANGED <<people, keys, registry, entries, clients>>

\* install: the registry's map is replaced with one that has this entry.  The
\* administrator is answered; inside are the logins that had their client by then.
AdminInstall(a, inside) ==
    LET r == admin[a]
    IN  /\ r.step = "install"
        /\ entries' = Append(entries, Entry(r.id, r.next, r.client))
        /\ registry' = [registry EXCEPT ![r.id] = Len(entries) + 1]
        /\ admin' = [admin EXCEPT ![a] = NoRequest]
        /\ history' = [history EXCEPT !.off[r.id] =
                           IF r.next.enabled THEN NULL ELSE IF @ = NULL THEN inside ELSE @]
        /\ UNCHANGED <<rows, people, keys, clients>>

----------------------------------------------------------------------------
(***************************************************************************)
(* The rest of the world.                                                  *)
(***************************************************************************)
\* A role granted to a subject under this id, for whoever its issuer calls so.
GrantRole(id) ==
    /\ Input([history EXCEPT !.taken = @ + 1])
    /\ people' = people \cup {[kind |-> "grant", id |-> NULL, ns |-> id, seq |-> history.taken + 1,
                               issuer |-> IF rows[id] = NULL THEN NULL ELSE rows[id].issuer]}
    /\ UNCHANGED <<rows, keys, registry, entries, clients, admin>>

\* An issuer rotates its signing key.
RotateKey(i) ==
    /\ keys[i] < MaxKeys
    /\ Input(history)
    /\ keys' = [keys EXCEPT ![i] = @ + 1]
    /\ UNCHANGED <<rows, people, registry, entries, clients, admin>>

AdminNext(inside) ==
    \E a \in Admins :
        \/ \E id \in Ids, i \in Issuers \ {DefaultIssuer}, e \in BOOLEAN : AskCreate(a, id, i, e)
        \/ \E id \in Ids : Known(Settings(id)) /\ \E next \in Changed(Settings(id)) : AskUpdate(a, id, next)
        \/ \E id \in Ids : Known(Settings(id)) /\ AskDelete(a, id)
        \/ AdminPrepare(a)
        \/ AdminConnect(a)
        \/ AdminApply(a)
        \/ AdminInstall(a, inside[admin[a].id])
=============================================================================
