---------------------------- MODULE IdentityProofs ----------------------------
(***************************************************************************)
(* The rows and the lanes of Identity implement the abstract credential,   *)
(* for any tenants, requests, lives and bounds.                            *)
(***************************************************************************)
EXTENDS Identity, FiniteSetTheorems, TLAPS

SecretRow ==
    [principal : Nat, expires_at : Option(Nat), revoked : BOOLEAN, asked : Option(Nat)]

\* Rows are numbered as they are inserted.
Numbered(ids) == \E n \in Nat : ids = 1..n

PrincipalsOK ==
    Numbered(Principals) /\ \A p \in Principals : "revoked" \in DOMAIN principals[p]

SecretsOK ==
    /\ Numbered(Secrets) /\ Secrets \subseteq 1..MaxSecrets
    /\ \A s \in Secrets : secrets[s] \in SecretRow /\ secrets[s].principal \in Principals

RequestOK ==
    req # NULL => /\ "lane" \in DOMAIN req
                  /\ req.lane = "machine" => "secret" \in DOMAIN req

\* The inductive invariant: what the rows must be for the refinement mapping to
\* read them.
Inv == clock \in Nat /\ PrincipalsOK /\ SecretsOK /\ RequestOK

\* What no step undoes: the clock's advance, a revocation, a date.
Aging ==
    /\ clock' \in Nat /\ clock <= clock'
    /\ \A p \in Principals : p \in Principals' /\ (principals[p].revoked => principals'[p].revoked)
    /\ \A s \in Secrets :
         /\ s \in Secrets'
         /\ secrets'[s].principal = secrets[s].principal
         /\ secrets[s].revoked => secrets'[s].revoked
         /\ secrets[s].expires_at # NULL =>
              secrets'[s].expires_at # NULL /\ secrets'[s].expires_at <= secrets[s].expires_at

\* The credential behind the request being served, as the mapping has it.
Accepted ==
    IF req = NULL THEN NULL ELSE IF req.lane = "machine" THEN req.secret ELSE NULL

\* A request ends, goes on, or is opened by a secret that works.
Opens == Accepted' \in {Accepted, NULL} \/ \E s \in Secrets : Accepted' = s /\ SecretLive(s, clock)

----------------------------------------------------------------------------
\* A row inserted has the number after the last.
LEMMA NextNumber ==
  ASSUME NEW S, Numbered(S)
  PROVE  /\ Cardinality(S) + 1 \notin S
         /\ Cardinality(S) + 1 \in Nat
         /\ Numbered(S \cup {Cardinality(S) + 1})
         /\ \A k \in Nat : Cardinality(S) < k => Cardinality(S) + 1 \in 1..k
  <1>1. PICK n \in Nat : S = 1..n
    BY DEF Numbered
  <1>2. Cardinality(S) = n
    BY <1>1, FS_Interval
  <1>3. S \cup {n + 1} = 1..(n + 1)
    BY <1>1
  <1> QED BY <1>1, <1>2, <1>3 DEF Numbered

\* The dates of a secret handed out by mint_secret.
LEMMA SecretTyped ==
  ASSUME clock \in Nat,
         NEW p \in Nat, NEW at \in Stamps, NEW life \in Lives
  PROVE  Secret(p, at, life) \in SecretRow /\ Secret(p, at, life).principal = p
  BY IdentityAssumption DEF Stamps, Secret, SecretRow, Option

\* The UPDATE of add_principal_secret only brings a date forward.
LEMMA DatedEarlier ==
  ASSUME NEW row \in SecretRow, NEW date \in Nat
  PROVE  /\ Dated(row, date) \in SecretRow
         /\ Dated(row, date).principal = row.principal
         /\ Dated(row, date).revoked = row.revoked
         /\ row.expires_at # NULL =>
              Dated(row, date).expires_at # NULL /\ Dated(row, date).expires_at <= row.expires_at
  BY IdentityAssumption DEF Dated, SecretRow, Option

----------------------------------------------------------------------------
LEMMA InitInv == ASSUME IdentityInit PROVE Inv
  <1>1. Numbered({})
    BY DEF Numbered
  <1>2. Principals = {} /\ Secrets = {}
    BY DEF IdentityInit, Principals, Secrets
  <1> QED BY <1>1, <1>2 DEF IdentityInit, Inv, PrincipalsOK, SecretsOK, RequestOK

\* A step that leaves clock, principals and secrets as they are.
LEMMA RowsKept ==
  ASSUME Inv, RequestOK', UNCHANGED <<clock, principals, secrets>>
  PROVE  Inv' /\ Aging
  BY DEF Inv, PrincipalsOK, SecretsOK, Aging, Principals, Secrets, SecretRow, Option, Numbered

LEMMA CreateKeeps ==
  ASSUME Inv,
         NEW r \in Requests, NEW at \in Stamps, NEW life \in Lives, CreatePrincipal(r, at, life)
  PROVE  Inv' /\ Aging
  <1> DEFINE p == Cardinality(Principals) + 1
             s == Cardinality(Secrets) + 1
  <1>1. p \notin Principals /\ p \in Nat /\ Numbered(Principals \cup {p})
    BY NextNumber DEF Inv, PrincipalsOK
  <1>2. s \notin Secrets /\ s \in 1..MaxSecrets /\ Numbered(Secrets \cup {s})
    BY NextNumber, IdentityAssumption DEF Inv, SecretsOK, CreatePrincipal
  <1>3. Secret(p, at, life) \in SecretRow /\ Secret(p, at, life).principal = p
    BY <1>1, SecretTyped DEF Inv
  <1>4. /\ Principals' = Principals \cup {p}
        /\ \A q \in Principals : principals'[q] = principals[q]
        /\ "revoked" \in DOMAIN principals'[p]
    BY <1>1 DEF CreatePrincipal, Principals
  <1>5. /\ Secrets' = Secrets \cup {s}
        /\ \A q \in Secrets : secrets'[q] = secrets[q]
        /\ secrets'[s] = Secret(p, at, life)
    BY <1>2 DEF CreatePrincipal, Secrets
  <1>6. clock' = clock /\ req' = req
    BY DEF CreatePrincipal, Write
  <1> HIDE DEF p, s
  <1>7. PrincipalsOK'
    BY <1>1, <1>4 DEF Inv, PrincipalsOK, Numbered, Principals
  <1>8. SecretsOK'
    BY <1>2, <1>3, <1>4, <1>5 DEF Inv, SecretsOK, Numbered, Secrets, Principals, SecretRow, Option
  <1>9. Aging
    BY <1>4, <1>5, <1>6 DEF Inv, SecretsOK, Aging, SecretRow, Option
  <1> QED BY <1>6, <1>7, <1>8, <1>9 DEF Inv, RequestOK

LEMMA AddSecretKeeps ==
  ASSUME Inv,
         NEW at \in Stamps, NEW life \in Lives, NEW p \in Principals, NEW old \in OldLives,
         AddSecret(p, at, life, old)
  PROVE  Inv' /\ Aging
  <1> DEFINE s == Cardinality(Secrets) + 1
  <1>1. s \notin Secrets /\ s \in 1..MaxSecrets /\ Numbered(Secrets \cup {s})
    BY NextNumber, IdentityAssumption DEF Inv, SecretsOK, AddSecret
  <1>2. p \in Nat
    BY DEF Inv, PrincipalsOK, Numbered
  <1>3. Secret(p, at, life) \in SecretRow /\ Secret(p, at, life).principal = p
    BY <1>2, SecretTyped DEF Inv
  <1>4. old # NULL => at + old \in Nat
    BY IdentityAssumption DEF Inv, Stamps, Option
  <1>5. Secrets' = Secrets \cup {s} /\ secrets'[s] = Secret(p, at, life)
    BY <1>1 DEF AddSecret, SecretsAdded, Secrets
  <1>6. \A q \in Secrets :
          secrets'[q] = IF old # NULL /\ secrets[q].principal = p
                        THEN Dated(secrets[q], at + old) ELSE secrets[q]
    BY <1>1 DEF AddSecret, SecretsAdded, Secrets
  <1>7. principals' = principals /\ clock' = clock /\ req' = req
    BY DEF AddSecret, Write
  <1> HIDE DEF s
  <1>8. \A q \in Secrets :
          /\ secrets'[q] \in SecretRow
          /\ secrets'[q].principal = secrets[q].principal
          /\ secrets'[q].revoked = secrets[q].revoked
          /\ secrets[q].expires_at # NULL =>
               secrets'[q].expires_at # NULL /\ secrets'[q].expires_at <= secrets[q].expires_at
    <2> SUFFICES ASSUME NEW q \in Secrets
                 PROVE  /\ secrets'[q] \in SecretRow
                        /\ secrets'[q].principal = secrets[q].principal
                        /\ secrets'[q].revoked = secrets[q].revoked
                        /\ secrets[q].expires_at # NULL =>
                             /\ secrets'[q].expires_at # NULL
                             /\ secrets'[q].expires_at <= secrets[q].expires_at
      OBVIOUS
    <2>1. secrets[q] \in SecretRow
      BY DEF Inv, SecretsOK
    <2>2. CASE old # NULL /\ secrets[q].principal = p
      BY <2>1, <2>2, <1>4, <1>6, DatedEarlier
    <2>3. CASE ~(old # NULL /\ secrets[q].principal = p)
      BY <2>1, <2>3, <1>6, IdentityAssumption DEF SecretRow, Option
    <2> QED BY <2>2, <2>3
  <1>9. SecretsOK'
    BY <1>1, <1>3, <1>5, <1>7, <1>8 DEF Inv, SecretsOK, Numbered, Secrets, Principals
  <1>10. Aging
    BY <1>5, <1>7, <1>8 DEF Inv, Aging, Principals
  <1> QED BY <1>7, <1>9, <1>10 DEF Inv, PrincipalsOK, Principals, RequestOK

LEMMA RevokePrincipalKeeps ==
  ASSUME Inv, NEW p \in Principals, RevokePrincipal(p)
  PROVE  Inv' /\ Aging
  <1>1. clock' = clock /\ req' = req /\ secrets' = secrets
    BY DEF RevokePrincipal, Write
  <1>2. /\ Principals' = Principals
        /\ \A q \in Principals : /\ "revoked" \in DOMAIN principals'[q]
                                 /\ principals[q].revoked => principals'[q].revoked
    BY DEF RevokePrincipal, Principals, Inv, PrincipalsOK
  <1>3. PrincipalsOK' /\ SecretsOK' /\ RequestOK'
    BY <1>1, <1>2 DEF Inv, PrincipalsOK, SecretsOK, RequestOK, Numbered, Secrets, Principals
  <1>4. \A s \in Secrets : secrets[s].expires_at # NULL =>
            secrets[s].expires_at \in Nat /\ secrets[s].expires_at <= secrets[s].expires_at
    BY DEF Inv, SecretsOK, SecretRow, Option
  <1>5. Aging
    BY <1>1, <1>2, <1>4 DEF Inv, Aging, Secrets
  <1> QED BY <1>1, <1>3, <1>5 DEF Inv

LEMMA RevokeSecretKeeps ==
  ASSUME Inv, NEW s \in Secrets, RevokeSecret(s)
  PROVE  Inv' /\ Aging
  <1>1. clock' = clock /\ req' = req /\ principals' = principals
    BY DEF RevokeSecret, Write
  <1>2. secrets[s] \in SecretRow
    BY DEF Inv, SecretsOK
  <1>3. /\ Secrets' = Secrets
        /\ secrets'[s] = [secrets[s] EXCEPT !.revoked = TRUE]
        /\ \A q \in Secrets : q # s => secrets'[q] = secrets[q]
    BY DEF RevokeSecret, Secrets
  <1>4. /\ secrets'[s] \in SecretRow /\ secrets'[s].revoked
        /\ secrets'[s].principal = secrets[s].principal
        /\ secrets'[s].expires_at = secrets[s].expires_at
    BY <1>2, <1>3 DEF SecretRow
  <1>5. SecretsOK'
    BY <1>1, <1>3, <1>4 DEF Inv, SecretsOK, Numbered, Secrets, Principals
  <1>6. Aging
    BY <1>1, <1>3, <1>4, IdentityAssumption DEF Inv, SecretsOK, Aging, Principals, SecretRow, Option
  <1> QED BY <1>1, <1>5, <1>6 DEF Inv, PrincipalsOK, Principals, RequestOK

LEMMA ApplyTouchKeeps ==
  ASSUME Inv, NEW use \in touches, ApplyTouch(use)
  PROVE  Inv' /\ Aging
  <1>1. clock' = clock /\ req' = req /\ secrets' = secrets
    BY DEF ApplyTouch
  <1>2. /\ Principals' = Principals
        /\ \A q \in Principals : /\ "revoked" \in DOMAIN principals'[q]
                                 /\ principals'[q].revoked = principals[q].revoked
    <2>1. CASE use.user[1] = "sp"
      <3>1. principals' = [principals EXCEPT ![use.user[2]].last_used_at = use.at]
        BY <2>1 DEF ApplyTouch
      <3> QED BY <3>1 DEF Principals, Inv, PrincipalsOK
    <2>2. CASE use.user[1] # "sp"
      BY <2>2 DEF ApplyTouch, Principals, Inv, PrincipalsOK
    <2> QED BY <2>1, <2>2
  <1>3. PrincipalsOK' /\ SecretsOK' /\ RequestOK'
    BY <1>1, <1>2 DEF Inv, PrincipalsOK, SecretsOK, RequestOK, Numbered, Secrets, Principals
  <1>4. \A s \in Secrets : secrets[s].expires_at # NULL =>
            secrets[s].expires_at \in Nat /\ secrets[s].expires_at <= secrets[s].expires_at
    BY DEF Inv, SecretsOK, SecretRow, Option
  <1>5. Aging
    BY <1>1, <1>2, <1>4 DEF Inv, Aging, Secrets
  <1> QED BY <1>1, <1>3, <1>5 DEF Inv

LEMMA TickKeeps ==
  ASSUME Inv, ClockTick
  PROVE  Inv' /\ Aging
  <1>1. clock' = clock + 1 /\ UNCHANGED <<principals, secrets, req>>
    BY DEF ClockTick, rows
  <1>2. PrincipalsOK' /\ SecretsOK' /\ RequestOK'
    BY <1>1 DEF Inv, PrincipalsOK, SecretsOK, RequestOK, Secrets, Principals
  <1>3. \A s \in Secrets : secrets[s].expires_at # NULL =>
            secrets[s].expires_at \in Nat /\ secrets[s].expires_at <= secrets[s].expires_at
    BY DEF Inv, SecretsOK, SecretRow, Option
  <1>4. Aging
    BY <1>1, <1>3 DEF Inv, Aging, Secrets, Principals
  <1> QED BY <1>1, <1>2, <1>4 DEF Inv

----------------------------------------------------------------------------
\* Steps that serve a request, and those of the session, leave the rows alone.
LEMMA LanesKeep ==
  ASSUME Inv,
         \/ Restart \/ Serve
         \/ \E until \in {NULL, clock + IdleTtl} : SessionMoves(until)
         \/ \E use \in touches : LoseTouch(use)
  PROVE  UNCHANGED <<clock, principals, secrets>> /\ RequestOK' /\ Opens
  <1>1. CASE Restart
    BY <1>1 DEF Restart, rows, RequestOK, Opens, Accepted
  <1>2. ASSUME NEW s \in Secrets, NEW client \in Principals, NEW ttl \in Asked,
               MachineRequest(s, client, ttl)
        PROVE  UNCHANGED <<clock, principals, secrets>> /\ RequestOK' /\ Opens
    BY <1>2 DEF MachineRequest, Resolves, rows, RequestOK, Opens, Accepted
  <1>3. CASE MachineSign
    BY <1>3 DEF MachineSign, rows, RequestOK, Opens, Accepted
  <1>4. ASSUME NEW asked \in Option(Tenants), UserRequest(asked)
        PROVE  UNCHANGED <<clock, principals, secrets>> /\ RequestOK' /\ Opens
    BY <1>4 DEF UserRequest, Arrives, rows, RequestOK, Opens, Accepted
  <1>5. CASE ReadLiveGrants
    BY <1>5 DEF ReadLiveGrants, AtStage, rows, RequestOK, Opens, Accepted, Inv
  <1>6. CASE ReadAnyGrant
    BY <1>6 DEF ReadAnyGrant, AtStage, rows, RequestOK, Opens, Accepted, Inv
  <1>7. CASE ReadDefaultTenant
    BY <1>7 DEF ReadDefaultTenant, AtStage, rows, RequestOK, Opens, Accepted, Inv
  <1>8. CASE UserSign
    BY <1>8 DEF UserSign, rows, RequestOK, Opens, Accepted
  <1>9. ASSUME NEW k \in Keys, BackendRequest(k)
        PROVE  UNCHANGED <<clock, principals, secrets>> /\ RequestOK' /\ Opens
    BY <1>9 DEF BackendRequest, rows, RequestOK, Opens, Accepted, Inv
  <1>10. ASSUME NEW until \in {NULL, clock + IdleTtl}, SessionMoves(until)
         PROVE  UNCHANGED <<clock, principals, secrets>> /\ RequestOK' /\ Opens
    BY <1>10 DEF SessionMoves, rows, RequestOK, Opens, Accepted, Inv
  <1>11. ASSUME NEW use \in touches, LoseTouch(use)
         PROVE  UNCHANGED <<clock, principals, secrets>> /\ RequestOK' /\ Opens
    BY <1>11 DEF LoseTouch, rows, RequestOK, Opens, Accepted, Inv
  <1> QED
    BY <1>1, <1>2, <1>3, <1>4, <1>5, <1>6, <1>7, <1>8, <1>9, <1>10, <1>11 DEF Serve

\* The administrators' changes to the other tables leave them alone too.
LEMMA OtherWritesKeep ==
  ASSUME Inv,
         \/ \E t \in Tenants :
              \/ CreateTenant(t) \/ DisableTenant(t) \/ EnableTenant(t) \/ RevokeUserGrant(t)
              \/ \E roles \in Roles : CreateUserGrant(t, roles)
         \/ CreateKey
         \/ \E k \in Keys : RevokeKey(k)
  PROVE  UNCHANGED <<clock, principals, secrets>> /\ RequestOK' /\ Accepted' \in {Accepted, NULL}
  <1>1. ASSUME NEW t \in Tenants, EnableTenant(t)
        PROVE  UNCHANGED <<clock, principals, secrets>> /\ RequestOK' /\ Accepted' \in {Accepted, NULL}
    <2>1. req' = IF req = NULL THEN NULL ELSE [req EXCEPT !.closed = @ \ {t}]
      BY <1>1 DEF EnableTenant
    <2>2. CASE req = NULL \/ req' = NULL
      BY <2>1, <2>2, <1>1 DEF EnableTenant, Write, RequestOK, Accepted
    <2>3. CASE req # NULL /\ req' # NULL
      <3>1. /\ "lane" \in DOMAIN req'
            /\ req'.lane = req.lane
            /\ req.lane = "machine" => "secret" \in DOMAIN req' /\ req'.secret = req.secret
        BY <2>1, <2>3 DEF Inv, RequestOK
      <3> QED BY <3>1, <2>3, <1>1 DEF EnableTenant, Write, RequestOK, Accepted
    <2> QED BY <2>2, <2>3
  <1>2. ASSUME NEW t \in Tenants, CreateTenant(t) \/ DisableTenant(t) \/ RevokeUserGrant(t)
        PROVE  UNCHANGED <<clock, principals, secrets>> /\ req' = req
    BY <1>2 DEF CreateTenant, DisableTenant, RevokeUserGrant, Write
  <1>3. ASSUME NEW t \in Tenants, NEW roles \in Roles, CreateUserGrant(t, roles)
        PROVE  UNCHANGED <<clock, principals, secrets>> /\ req' = req
    BY <1>3 DEF CreateUserGrant, Write
  <1>4. ASSUME CreateKey \/ \E k \in Keys : RevokeKey(k)
        PROVE  UNCHANGED <<clock, principals, secrets>> /\ req' = req
    BY <1>4 DEF CreateKey, RevokeKey, Write
  <1>5. ASSUME req' = req PROVE RequestOK' /\ Accepted' \in {Accepted, NULL}
    BY <1>5 DEF Inv, RequestOK, Accepted
  <1> QED BY <1>1, <1>2, <1>3, <1>4, <1>5

----------------------------------------------------------------------------
LEMMA StepKeeps ==
  ASSUME Inv, [IdentityNext]_identityVars
  PROVE  /\ Inv' /\ Aging
         /\ Accepted' = Accepted \/ (UNCHANGED <<clock, principals, secrets>> /\ Opens)
  <1>1. CASE UNCHANGED identityVars
    BY <1>1, RowsKept DEF identityVars, Inv, RequestOK, Accepted
  <1>2. CASE ClockTick
    BY <1>2, TickKeeps DEF ClockTick, Accepted
  <1>3. ASSUME NEW r \in Requests, NEW at \in Stamps, NEW life \in Lives, CreatePrincipal(r, at, life)
        PROVE  Inv' /\ Aging /\ Accepted' = Accepted
    BY <1>3, CreateKeeps DEF CreatePrincipal, Accepted
  <1>4. ASSUME NEW at \in Stamps, NEW life \in Lives, NEW p \in Principals, NEW old \in OldLives,
               AddSecret(p, at, life, old)
        PROVE  Inv' /\ Aging /\ Accepted' = Accepted
    BY <1>4, AddSecretKeeps DEF AddSecret, Accepted
  <1>5. ASSUME NEW p \in Principals, RevokePrincipal(p)
        PROVE  Inv' /\ Aging /\ Accepted' = Accepted
    BY <1>5, RevokePrincipalKeeps DEF RevokePrincipal, Accepted
  <1>6. ASSUME NEW s \in Secrets, RevokeSecret(s)
        PROVE  Inv' /\ Aging /\ Accepted' = Accepted
    BY <1>6, RevokeSecretKeeps DEF RevokeSecret, Accepted
  <1>7. ASSUME NEW use \in touches, ApplyTouch(use)
        PROVE  Inv' /\ Aging /\ Accepted' = Accepted
    BY <1>7, ApplyTouchKeeps DEF ApplyTouch, Accepted
  <1>8. CASE \/ Restart \/ Serve
             \/ \E until \in {NULL, clock + IdleTtl} : SessionMoves(until)
             \/ \E use \in touches : LoseTouch(use)
    BY <1>8, LanesKeep, RowsKept
  <1>9. CASE \/ \E t \in Tenants :
                  \/ CreateTenant(t) \/ DisableTenant(t) \/ EnableTenant(t) \/ RevokeUserGrant(t)
                  \/ \E roles \in Roles : CreateUserGrant(t, roles)
             \/ CreateKey
             \/ \E k \in Keys : RevokeKey(k)
    BY <1>9, OtherWritesKeep, RowsKept DEF Opens
  <1> QED
    BY <1>1, <1>2, <1>3, <1>4, <1>5, <1>6, <1>7, <1>8, <1>9 DEF IdentityNext, Administer

\* What ages only moves forward in the abstract credential.
LEMMA AgingIsForward ==
  ASSUME Inv, Inv', Aging, NEW s \in 1..MaxSecrets
  PROVE  Book!Forward(SecretPhase(s), SecretPhase(s)')
  <1>1. CASE s \notin Secrets
    BY <1>1 DEF Book!Forward, SecretPhase
  <1>2. CASE s \in Secrets /\ SecretLive(s, clock)
    BY <1>2 DEF Book!Forward, SecretPhase, Aging
  <1>3. CASE s \in Secrets /\ ~SecretLive(s, clock)
    <2>1. s \in Secrets' /\ secrets[s] \in SecretRow /\ secrets'[s] \in SecretRow
      BY <1>3 DEF Inv, SecretsOK, Aging
    <2>2. secrets[s].principal \in Principals
      BY <1>3 DEF Inv, SecretsOK
    <2>3. ~SecretLive(s, clock)'
      BY <1>3, <2>1, <2>2, IdentityAssumption DEF Inv, Aging, SecretLive, SecretRow, Option
    <2> QED BY <1>3, <2>1, <2>3 DEF Book!Forward, SecretPhase
  <1> QED BY <1>1, <1>2, <1>3

----------------------------------------------------------------------------
LEMMA InitRefines == ASSUME IdentityInit PROVE Book!Init
  BY DEF IdentityInit, Book!Init, SecretPhase, Secrets

\* Every step moves credentials forward, opens or ends a request, or stutters.
LEMMA StepRefines ==
  ASSUME Inv, [IdentityNext]_identityVars
  PROVE  [Book!Next]_Book!vars
  <1>1. /\ Inv' /\ Aging
        /\ Accepted' = Accepted \/ (UNCHANGED <<clock, principals, secrets>> /\ Opens)
    BY StepKeeps
  <1>2. CASE Accepted' = Accepted
    <2>1. \A s \in 1..MaxSecrets : Book!Forward(SecretPhase(s), SecretPhase(s)')
      BY <1>1, AgingIsForward
    <2>2. \A s \in 1..MaxSecrets : SecretPhase(s)' \in Book!Phase
      BY DEF SecretPhase, Book!Phase
    <2>3. Book!Move
      BY <1>2, <2>1, <2>2 DEF Book!Move, Accepted
    <2> QED BY <2>3 DEF Book!Next
  <1>3. CASE UNCHANGED <<clock, principals, secrets>> /\ Opens
    <2>1. \A s \in 1..MaxSecrets : SecretPhase(s)' = SecretPhase(s)
      BY <1>3 DEF SecretPhase, SecretLive, Secrets
    <2>2. CASE Accepted' = Accepted
      BY <2>1, <2>2 DEF Book!vars, Accepted
    <2>3. CASE Accepted' = NULL
      BY <2>1, <2>3 DEF Book!Next, Book!Done, Accepted
    <2>4. ASSUME NEW s \in Secrets, Accepted' = s, SecretLive(s, clock)
          PROVE  Book!Next
      <3>1. s \in 1..MaxSecrets /\ SecretPhase(s) = "valid"
        BY <2>4 DEF Inv, SecretsOK, SecretPhase
      <3>2. Book!Accept(s)
        BY <2>1, <2>4, <3>1 DEF Book!Accept, Accepted
      <3> QED BY <3>1, <3>2 DEF Book!Next
    <2> QED BY <1>3, <2>2, <2>3, <2>4 DEF Opens
  <1> QED BY <1>1, <1>2, <1>3

\* SecretsAreCredentials, for any tenants, principals, lives and bounds: neither a
\* rotation, a late clock, a re-enabled tenant nor a restart brings a secret back.
THEOREM SecretsImplementCredentials == IdentitySpec => SecretsAreCredentials
  <1>1. IdentityInit => Inv /\ Book!Init
    BY InitInv, InitRefines
  <1>2. Inv /\ [IdentityNext]_identityVars => Inv'
    BY StepKeeps
  <1>3. Inv /\ [IdentityNext]_identityVars => [Book!Next]_Book!vars
    BY StepRefines
  <1> QED BY <1>1, <1>2, <1>3, PTL DEF IdentitySpec, SecretsAreCredentials, Book!Spec

----------------------------------------------------------------------------
(***************************************************************************)
(* The tables, for the tokens.                                             *)
(***************************************************************************)
PrincipalRow ==
    [tenant : Tenants, name : STRING, audience : STRING, max_ttl : Nat \ {0},
     revoked : BOOLEAN, last_used_at : Option(Nat)]

KeyRow == [revoked : BOOLEAN, last_used_at : Option(Nat)]

\* A principal, a grant, and so a token, is of a tenant there is; no two principals
\* of a tenant have one name.
RowsOK ==
    /\ clock \in 0..MaxClock
    /\ tenants \in [Tenants -> {"none", "on", "off"}]
    /\ Principals \subseteq 1..MaxPrincipals
    /\ \A p \in Principals :
         /\ principals[p] \in PrincipalRow
         /\ tenants[principals[p].tenant] # "none"
         /\ \A q \in Principals : p # q =>
              principals[p].tenant # principals[q].tenant \/ principals[p].name # principals[q].name
    /\ Numbered(Keys) /\ Keys \subseteq 1..MaxKeys
    /\ \A k \in Keys : keys[k] \in KeyRow
    /\ grants \in [Tenants -> Option(UserGrant)]
    /\ \A t \in Tenants : grants[t] # NULL => tenants[t] # "none"
    /\ userSession \in Option(Nat)

\* What no step undoes: a tenant is disabled until it is enabled, and what was
\* granted or used stays in the tables.
Moving ==
    /\ \A t \in Tenants : tenants[t] = "off" => tenants'[t] = "off" \/ EnableTenant(t)
    /\ AnyGrant => AnyGrant'
    /\ Principals \subseteq Principals' /\ Keys \subseteq Keys'

\* Uses on their way were of rows there are.
UsesTyped ==
    /\ touched \in [Users -> Option(0..clock)]
    /\ \A use \in touches :
         /\ use.user \in Users /\ use.at \in 0..clock
         /\ use.user[1] = "sp" => use.user[2] \in Principals
         /\ use.user[1] # "sp" => use.user[2] \in Keys

\* The last uses shown are those shown before.
UsesKept ==
    /\ Principals \subseteq Principals' /\ Keys \subseteq Keys'
    /\ \A p \in Principals : principals'[p].last_used_at = principals[p].last_used_at
    /\ \A k \in Keys : keys'[k].last_used_at = keys[k].last_used_at

\* The tables stay.
LEMMA RowsStay ==
  ASSUME Inv, RowsOK, UNCHANGED <<tenants, principals, grants, keys>>,
         clock' \in 0..MaxClock, userSession' \in Option(Nat)
  PROVE  RowsOK' /\ Moving /\ UsesKept
  BY DEF RowsOK, Moving, UsesKept, Principals, Keys, Numbered, AnyGrant

\* Tenants are named, disabled and enabled.
LEMMA TenantSteps ==
  ASSUME Inv, RowsOK, NEW t \in Tenants, CreateTenant(t) \/ DisableTenant(t) \/ EnableTenant(t)
  PROVE  RowsOK' /\ Moving /\ UsesKept
  <1>1. /\ UNCHANGED <<clock, principals, keys, grants, userSession>>
        /\ \/ tenants[t] # "on" /\ tenants' = [tenants EXCEPT ![t] = "on"]
           \/ tenants[t] = "on" /\ tenants' = [tenants EXCEPT ![t] = "off"]
        /\ tenants[t] = "off" => EnableTenant(t)
    BY DEF CreateTenant, DisableTenant, EnableTenant, Write
  <1>2. /\ tenants' \in [Tenants -> {"none", "on", "off"}]
        /\ \A u \in Tenants : tenants[u] # "none" => tenants'[u] # "none"
        /\ \A u \in Tenants : tenants[u] = "off" => tenants'[u] = "off" \/ EnableTenant(u)
    BY <1>1 DEF RowsOK
  <1>3. \A p \in Principals : principals[p].tenant \in Tenants
    BY DEF RowsOK, PrincipalRow
  <1> QED
    BY <1>1, <1>2, <1>3 DEF RowsOK, Moving, UsesKept, Principals, Keys, Numbered, AnyGrant

\* Naming a tenant creates it, and re-enables nothing.
LEMMA EnsuredTenant ==
  ASSUME RowsOK, NEW t \in Tenants, tenants' = Ensured(t)
  PROVE  /\ tenants' \in [Tenants -> {"none", "on", "off"}]
         /\ tenants'[t] # "none"
         /\ \A u \in Tenants : tenants[u] # "none" => tenants'[u] = tenants[u]
  BY DEF RowsOK, Ensured

LEMMA CreatePrincipalRows ==
  ASSUME Inv, RowsOK,
         NEW r \in Requests, NEW at \in Stamps, NEW life \in Lives, CreatePrincipal(r, at, life)
  PROVE  RowsOK' /\ Moving /\ UsesKept
  <1>1. PICK p : p = Cardinality(Principals) + 1
    OBVIOUS
  <1>2. p \notin Principals /\ p \in 1..MaxPrincipals
    BY <1>1, NextNumber, IdentityAssumption DEF Inv, PrincipalsOK, CreatePrincipal
  <1>3. /\ r.tenant \in Tenants /\ r.name \in STRING /\ r.audience \in STRING
        /\ r.max_ttl \in Nat \ {0}
    BY IdentityAssumption DEF PrincipalRequest
  <1>4. PICK row : row = [tenant |-> r.tenant, name |-> r.name, audience |-> r.audience,
                          max_ttl |-> r.max_ttl, revoked |-> FALSE, last_used_at |-> NULL]
    OBVIOUS
  <1>5. principals' = [q \in Principals \cup {p} |-> IF q = p THEN row ELSE principals[q]]
    BY <1>1, <1>4 DEF CreatePrincipal
  <1>6. /\ UNCHANGED <<clock, keys, grants, userSession>> /\ tenants' = Ensured(r.tenant)
        /\ NameFree(r)
    BY DEF CreatePrincipal, Write
  <1>7. row \in PrincipalRow /\ row.tenant = r.tenant /\ row.name = r.name
    BY <1>3, <1>4 DEF PrincipalRow, Option
  <1>8. Principals' = Principals \cup {p} /\ principals'[p] = row
    BY <1>5 DEF Principals
  <1>9. \A q \in Principals : principals'[q] = principals[q] /\ q # p
    BY <1>2, <1>5
  <1>10. \A q \in Principals : principals[q].tenant # r.tenant \/ principals[q].name # r.name
    BY <1>6 DEF NameFree
  <1>11. \A q \in Principals : principals[q].tenant \in Tenants
    BY DEF RowsOK, PrincipalRow
  <1>12. /\ tenants' \in [Tenants -> {"none", "on", "off"}]
         /\ tenants'[r.tenant] # "none"
         /\ \A u \in Tenants : tenants[u] # "none" => tenants'[u] = tenants[u]
    BY <1>3, <1>6, EnsuredTenant
  <1>13. ASSUME NEW q \in Principals'
         PROVE  /\ principals'[q] \in PrincipalRow
                /\ tenants'[principals'[q].tenant] # "none"
                /\ \A o \in Principals' : q # o =>
                     \/ principals'[q].tenant # principals'[o].tenant
                     \/ principals'[q].name # principals'[o].name
    <2>1. CASE q = p
      BY <1>7, <1>8, <1>9, <1>10, <1>12, <2>1
    <2>2. CASE q \in Principals
      <3>1. principals'[q] = principals[q] /\ principals[q] \in PrincipalRow
            /\ tenants[principals[q].tenant] # "none"
        BY <1>9, <2>2 DEF RowsOK
      <3>2. tenants'[principals[q].tenant] # "none"
        BY <1>11, <1>12, <2>2, <3>1
      <3>3. ASSUME NEW o \in Principals', q # o
            PROVE  \/ principals'[q].tenant # principals'[o].tenant
                   \/ principals'[q].name # principals'[o].name
        <4>1. CASE o = p
          BY <1>7, <1>8, <1>10, <2>2, <3>1, <4>1
        <4>2. CASE o \in Principals
          BY <1>9, <2>2, <3>3, <4>2 DEF RowsOK
        <4> QED
          BY <1>8, <4>1, <4>2
      <3> QED
        BY <3>1, <3>2, <3>3
    <2> QED
      BY <1>8, <2>1, <2>2
  <1>14. Principals' \subseteq 1..MaxPrincipals
    BY <1>2, <1>8 DEF RowsOK
  <1>15. /\ Keys' = Keys
         /\ \A u \in Tenants : grants'[u] # NULL => tenants'[u] # "none"
    BY <1>6, <1>12 DEF RowsOK, Keys
  <1>16. RowsOK'
    BY <1>6, <1>12, <1>13, <1>14, <1>15 DEF RowsOK
  <1>17. Moving
    BY <1>6, <1>8, <1>12, <1>15 DEF Moving, AnyGrant
  <1>18. UsesKept
    BY <1>6, <1>8, <1>9, <1>15 DEF UsesKept
  <1> QED
    BY <1>16, <1>17, <1>18

LEMMA GrantSteps ==
  ASSUME Inv, RowsOK, NEW t \in Tenants,
         RevokeUserGrant(t) \/ \E roles \in Roles : CreateUserGrant(t, roles)
  PROVE  RowsOK' /\ Moving /\ UsesKept
  <1>1. UNCHANGED <<clock, principals, keys, userSession>>
    BY DEF RevokeUserGrant, CreateUserGrant, Write
  <1>2. PICK g : /\ g \in UserGrant /\ grants' = [grants EXCEPT ![t] = g]
                 /\ \/ tenants' = tenants /\ tenants[t] # "none"
                    \/ tenants' = Ensured(t)
    <2>1. CASE RevokeUserGrant(t)
      <3>1. grants[t] \in UserGrant
        BY <2>1 DEF RevokeUserGrant, RowsOK, Option
      <3>2. [grants[t] EXCEPT !.revoked = TRUE] \in UserGrant
        BY <3>1 DEF UserGrant
      <3>3. grants' = [grants EXCEPT ![t] = [grants[t] EXCEPT !.revoked = TRUE]]
        BY <2>1 DEF RevokeUserGrant
      <3>4. tenants' = tenants /\ tenants[t] # "none"
        BY <2>1 DEF RevokeUserGrant, RowsOK
      <3> QED
        BY <3>2, <3>3, <3>4
    <2>2. ASSUME NEW roles \in Roles, CreateUserGrant(t, roles)
          PROVE  \E g : /\ g \in UserGrant /\ grants' = [grants EXCEPT ![t] = g]
                        /\ \/ tenants' = tenants /\ tenants[t] # "none"
                           \/ tenants' = Ensured(t)
      <3>1. [roles |-> roles, revoked |-> FALSE] \in UserGrant
        BY DEF UserGrant
      <3> QED
        BY <2>2, <3>1 DEF CreateUserGrant
    <2> QED
      BY <2>1, <2>2
  <1>3. /\ tenants' \in [Tenants -> {"none", "on", "off"}]
        /\ tenants'[t] # "none"
        /\ \A u \in Tenants : tenants[u] # "none" => tenants'[u] = tenants[u]
    BY <1>2, EnsuredTenant DEF RowsOK
  <1>4. /\ grants' \in [Tenants -> Option(UserGrant)]
        /\ \A u \in Tenants : grants'[u] # NULL => tenants'[u] # "none"
        /\ AnyGrant => AnyGrant'
    <2>1. grants'[t] = g /\ g # NULL
      BY <1>2, UserGrantAssumption DEF RowsOK
    <2>2. \A u \in Tenants : u # t => grants'[u] = grants[u]
      BY <1>2 DEF RowsOK
    <2>3. grants' \in [Tenants -> Option(UserGrant)]
      BY <1>2 DEF RowsOK, Option
    <2> QED
      BY <1>3, <2>1, <2>2, <2>3 DEF RowsOK, AnyGrant
  <1>5. \A p \in Principals : principals[p].tenant \in Tenants
    BY DEF RowsOK, PrincipalRow
  <1>6. Principals' = Principals /\ Keys' = Keys
    BY <1>1 DEF Principals, Keys
  <1>7. RowsOK'
    BY <1>1, <1>3, <1>4, <1>5, <1>6 DEF RowsOK
  <1>8. Moving /\ UsesKept
    BY <1>1, <1>3, <1>4, <1>6 DEF Moving, UsesKept
  <1> QED
    BY <1>7, <1>8

LEMMA RevokePrincipalRows ==
  ASSUME Inv, RowsOK, NEW p \in Principals, RevokePrincipal(p)
  PROVE  RowsOK' /\ Moving /\ UsesKept
  <1>1. /\ UNCHANGED <<clock, tenants, keys, grants, userSession>>
        /\ principals' = [principals EXCEPT ![p].revoked = TRUE]
    BY DEF RevokePrincipal, Write
  <1>2. principals[p] \in PrincipalRow
    BY DEF RowsOK
  <1>3. /\ Principals' = Principals
        /\ principals'[p] = [principals[p] EXCEPT !.revoked = TRUE]
        /\ \A q \in Principals : q # p => principals'[q] = principals[q]
    BY <1>1 DEF Principals
  <1>4. /\ principals'[p] \in PrincipalRow
        /\ principals'[p].tenant = principals[p].tenant
        /\ principals'[p].name = principals[p].name
        /\ principals'[p].last_used_at = principals[p].last_used_at
    BY <1>2, <1>3 DEF PrincipalRow
  <1>5. \A q \in Principals : /\ principals'[q] \in PrincipalRow
                              /\ principals'[q].tenant = principals[q].tenant
                              /\ principals'[q].name = principals[q].name
                              /\ principals'[q].last_used_at = principals[q].last_used_at
    BY <1>3, <1>4 DEF RowsOK
  <1>6. Keys' = Keys
    BY <1>1 DEF Keys
  <1>7. RowsOK'
    <2>1. \A q \in Principals' :
            /\ principals'[q] \in PrincipalRow
            /\ tenants'[principals'[q].tenant] # "none"
            /\ \A o \in Principals' : q # o =>
                 \/ principals'[q].tenant # principals'[o].tenant
                 \/ principals'[q].name # principals'[o].name
      <3>1. tenants' = tenants /\ Principals' = Principals
        BY <1>1, <1>3
      <3>2. \A q \in Principals :
              /\ tenants[principals[q].tenant] # "none"
              /\ \A o \in Principals : q # o =>
                   \/ principals[q].tenant # principals[o].tenant
                   \/ principals[q].name # principals[o].name
        BY DEF RowsOK
      <3> QED
        BY <1>5, <3>1, <3>2
    <2>2. Principals' \subseteq 1..MaxPrincipals
      BY <1>3 DEF RowsOK
    <2>3. /\ Numbered(Keys') /\ Keys' \subseteq 1..MaxKeys
          /\ \A k \in Keys' : keys'[k] \in KeyRow
      BY <1>1, <1>6 DEF RowsOK
    <2> QED
      BY <1>1, <2>1, <2>2, <2>3 DEF RowsOK
  <1> QED
    BY <1>1, <1>3, <1>5, <1>6, <1>7 DEF Moving, UsesKept, AnyGrant

LEMMA KeyRevoked ==
  ASSUME NEW row \in KeyRow
  PROVE  /\ [row EXCEPT !.revoked = TRUE] \in KeyRow
         /\ [row EXCEPT !.revoked = TRUE].last_used_at = row.last_used_at
  BY DEF KeyRow, Option

LEMMA KeySteps ==
  ASSUME Inv, RowsOK, CreateKey \/ \E k \in Keys : RevokeKey(k)
  PROVE  RowsOK' /\ Moving /\ UsesKept
  <1>1. UNCHANGED <<clock, tenants, principals, grants, userSession>> /\ Principals' = Principals
    BY DEF CreateKey, RevokeKey, Write, Principals
  <1>2. /\ Numbered(Keys') /\ Keys' \subseteq 1..MaxKeys /\ Keys \subseteq Keys'
        /\ \A k \in Keys' : keys'[k] \in KeyRow
        /\ \A k \in Keys : keys'[k].last_used_at = keys[k].last_used_at
    <2>1. CASE CreateKey
      <3>1. PICK n : n = Cardinality(Keys) + 1
        OBVIOUS
      <3>2. n \notin Keys /\ n \in 1..MaxKeys /\ Numbered(Keys \cup {n})
        BY <2>1, <3>1, NextNumber, IdentityAssumption DEF RowsOK, CreateKey
      <3>3. PICK row : row = [revoked |-> FALSE, last_used_at |-> NULL]
        OBVIOUS
      <3>4. row \in KeyRow
        BY <3>3 DEF KeyRow, Option
      <3>5. keys' = [j \in Keys \cup {n} |-> IF j = n THEN row ELSE keys[j]]
        BY <2>1, <3>1, <3>3 DEF CreateKey
      <3>6. Keys' = Keys \cup {n}
        BY <3>5 DEF Keys
      <3> QED
        BY <3>2, <3>4, <3>5, <3>6 DEF RowsOK
    <2>2. ASSUME NEW k \in Keys, RevokeKey(k)
          PROVE  /\ Numbered(Keys') /\ Keys' \subseteq 1..MaxKeys /\ Keys \subseteq Keys'
                 /\ \A j \in Keys' : keys'[j] \in KeyRow
                 /\ \A j \in Keys : keys'[j].last_used_at = keys[j].last_used_at
      <3>1. keys' = [keys EXCEPT ![k].revoked = TRUE] /\ keys[k] \in KeyRow
        BY <2>2 DEF RevokeKey, RowsOK
      <3>2. /\ Keys' = Keys
            /\ keys'[k] = [keys[k] EXCEPT !.revoked = TRUE]
            /\ \A j \in Keys : j # k => keys'[j] = keys[j]
        BY <3>1 DEF Keys
      <3>3. keys'[k] \in KeyRow /\ keys'[k].last_used_at = keys[k].last_used_at
        BY <3>1, <3>2, KeyRevoked
      <3> QED
        BY <3>2, <3>3 DEF RowsOK
    <2> QED
      BY <2>1, <2>2
  <1>3. RowsOK'
    BY <1>1, <1>2 DEF RowsOK
  <1> QED
    BY <1>1, <1>2, <1>3 DEF Moving, UsesKept, AnyGrant

\* A use is recorded in its row, and in no other.
LEMMA ApplyTouchRows ==
  ASSUME Inv, RowsOK, UsesTyped, NEW use \in touches, ApplyTouch(use)
  PROVE  /\ RowsOK' /\ Moving
         /\ \A u \in Users : u # use.user =>
              /\ u[1] = "sp" /\ u[2] \in Principals => LastUsedAt(u)' = LastUsedAt(u)
              /\ u[1] # "sp" /\ u[2] \in Keys => LastUsedAt(u)' = LastUsedAt(u)
         /\ LastUsedAt(use.user)' = use.at
  <1>1. PICK who \in {"sp", "bk"}, n \in Nat, t \in Nat : use.user = <<who, n>> /\ use.at = t
    <2>1. use.user \in Users /\ use.at \in Nat
      BY DEF UsesTyped, Inv
    <2> QED
      BY <2>1 DEF Users
  <1>2. /\ UNCHANGED <<clock, tenants, grants, userSession>>
        /\ IF who = "sp"
           THEN principals' = [principals EXCEPT ![n].last_used_at = t] /\ UNCHANGED keys
           ELSE keys' = [keys EXCEPT ![n].last_used_at = t] /\ UNCHANGED principals
    BY <1>1 DEF ApplyTouch
  <1>3. IF who = "sp" THEN n \in Principals ELSE n \in Keys
    BY <1>1 DEF UsesTyped
  <1>4. /\ Principals' = Principals
        /\ \A q \in Principals : /\ principals'[q] \in PrincipalRow
                                 /\ principals'[q].tenant = principals[q].tenant
                                 /\ principals'[q].name = principals[q].name
                                 /\ principals'[q].last_used_at =
                                      IF who = "sp" /\ q = n THEN t
                                      ELSE principals[q].last_used_at
    <2>1. CASE who = "sp"
      <3>1. principals[n] \in PrincipalRow
        BY <1>3, <2>1 DEF RowsOK
      <3>2. /\ Principals' = Principals
            /\ principals'[n] = [principals[n] EXCEPT !.last_used_at = t]
            /\ \A q \in Principals : q # n => principals'[q] = principals[q]
        BY <1>2, <1>3, <2>1 DEF Principals
      <3>3. /\ principals'[n] \in PrincipalRow
            /\ principals'[n].tenant = principals[n].tenant
            /\ principals'[n].name = principals[n].name
            /\ principals'[n].last_used_at = t
        BY <1>1, <3>1, <3>2 DEF PrincipalRow, Option
      <3> QED
        BY <2>1, <3>2, <3>3 DEF RowsOK
    <2>2. CASE who # "sp"
      BY <1>2, <2>2 DEF RowsOK, Principals
    <2> QED
      BY <2>1, <2>2
  <1>5. /\ Keys' = Keys
        /\ \A q \in Keys : /\ keys'[q] \in KeyRow
                           /\ keys'[q].last_used_at =
                                IF who # "sp" /\ q = n THEN t ELSE keys[q].last_used_at
    <2>1. CASE who # "sp"
      <3>1. keys[n] \in KeyRow
        BY <1>3, <2>1 DEF RowsOK
      <3>2. /\ Keys' = Keys
            /\ keys'[n] = [keys[n] EXCEPT !.last_used_at = t]
            /\ \A q \in Keys : q # n => keys'[q] = keys[q]
        BY <1>2, <1>3, <2>1 DEF Keys
      <3>3. keys'[n] \in KeyRow /\ keys'[n].last_used_at = t
        BY <1>1, <3>1, <3>2 DEF KeyRow, Option
      <3> QED
        BY <2>1, <3>2, <3>3 DEF RowsOK
    <2>2. CASE who = "sp"
      BY <1>2, <2>2 DEF RowsOK, Keys
    <2> QED
      BY <2>1, <2>2
  <1>6. RowsOK'
    BY <1>2, <1>4, <1>5 DEF RowsOK
  <1>7. Moving
    BY <1>2, <1>4, <1>5 DEF Moving, AnyGrant
  <1>8. LastUsedAt(use.user)' = use.at
    BY <1>1, <1>3, <1>4, <1>5 DEF LastUsedAt
  <1>9. ASSUME NEW u \in Users, u # use.user
        PROVE  /\ u[1] = "sp" /\ u[2] \in Principals => LastUsedAt(u)' = LastUsedAt(u)
               /\ u[1] # "sp" /\ u[2] \in Keys => LastUsedAt(u)' = LastUsedAt(u)
    <2>1. PICK kind, m : u = <<kind, m>> /\ kind \in {"sp", "bk"}
      BY DEF Users
    <2>2. kind = who => m # n
      BY <1>1, <1>9, <2>1
    <2> QED
      BY <1>1, <1>4, <1>5, <2>1, <2>2 DEF LastUsedAt
  <1> QED
    BY <1>6, <1>7, <1>8, <1>9

----------------------------------------------------------------------------
(***************************************************************************)
(* The request being served, and the token it ends with.                   *)
(***************************************************************************)
MachineReq ==
    [lane : {"machine"}, stage : {"sign"}, at : Nat, secret : Nat, client : Nat,
     tenant : Tenants, closed : SUBSET Tenants, ttl : 1..MaxTtl]

UserReq ==
    [lane : {"user"}, stage : {"live", "any", "default", "sign"}, at : Nat,
     asked : Option(Tenants), until : Nat, minted : Option(Nat),
     live : UNION {[T -> Roles] : T \in SUBSET Tenants}, tenant : Option(Tenants),
     roles : Roles \cup {NULL, DefaultRoles}, closed : SUBSET Tenants, granted : BOOLEAN]

\* A tenant that stays disabled is in no answer read; a user who had a grant still
\* has a row, so that the default is never reached.
Served(r) ==
    /\ r.lane \in {"machine", "user"}
    /\ r.at <= clock /\ clock <= r.at + Lag
    /\ \A t \in r.closed : tenants[t] = "off"
    /\ r.lane = "machine" =>
         r \in MachineReq /\ r.client \in Principals /\ r.tenant \notin r.closed
    /\ r.lane = "user" =>
         /\ r \in UserReq /\ r.at < r.until
         /\ r.granted => AnyGrant
         /\ r.stage # "live" => /\ r.minted \in Nat /\ r.at <= r.minted /\ r.minted <= clock
                                /\ \A t \in DOMAIN r.live : t \notin r.closed
         /\ r.stage = "default" => ~r.granted /\ DefaultTenant \in Tenants
         /\ r.stage = "sign" => /\ r.tenant \in Tenants \ r.closed
                                /\ r.roles = DefaultRoles => ~r.granted

ServedOK == req # NULL => Served(req)

\* The sorts of the constants.
LEMMA IdentityConstants ==
  /\ MaxTtl \in Nat /\ MachineTtl \in Nat /\ UserTtl \in Nat /\ IdleTtl \in Nat
  /\ TouchInterval \in Nat /\ Lag \in Nat
  /\ MachineTtl >= 1 /\ MachineTtl <= MaxTtl /\ UserTtl >= 1 /\ UserTtl <= MaxTtl
  /\ NULL \notin Nat /\ NULL \notin Tenants /\ DefaultTenant \in Tenants \cup {NULL}
  /\ DefaultRoles \notin Roles
  /\ \A ttl \in Asked : ttl = NULL \/ (ttl \in Nat /\ ttl > 0)
  <1>1. /\ MaxTtl \in Nat /\ MachineTtl \in Nat /\ UserTtl \in Nat /\ IdleTtl \in Nat
        /\ TouchInterval \in Nat /\ Lag \in Nat
    BY IdentityAssumption
  <1>2. /\ MachineTtl >= 1 /\ MachineTtl <= MaxTtl /\ UserTtl >= 1 /\ UserTtl <= MaxTtl
    BY <1>1, IdentityAssumption
  <1>3. /\ NULL \notin Nat /\ NULL \notin Tenants /\ DefaultTenant \in Tenants \cup {NULL}
        /\ DefaultRoles \notin Roles
    BY IdentityAssumption, Zenon DEF Option
  <1>4. \A ttl \in Asked : ttl = NULL \/ (ttl \in Nat /\ ttl > 0)
    BY IdentityAssumption DEF Option
  <1> QED
    BY <1>1, <1>2, <1>3, <1>4

LEMMA ServedStays ==
  ASSUME Inv, ServedOK, Moving, req' = req, clock' = clock,
         \A t \in Tenants : ~EnableTenant(t)
  PROVE  ServedOK'
  <1>1. PICK r : r = req
    OBVIOUS
  <1>2. ASSUME r # NULL PROVE Served(r)'
    <2>1. Served(r)
      BY <1>1, <1>2 DEF ServedOK
    <2>2. \A t \in r.closed : tenants'[t] = "off"
      <3>1. r.closed \subseteq Tenants
        BY <2>1 DEF Served, MachineReq, UserReq
      <3> QED
        BY <2>1, <3>1 DEF Served, Moving
    <2>3. r.client \in Principals => r.client \in Principals'
      BY DEF Moving
    <2>4. AnyGrant => AnyGrant'
      BY DEF Moving
    <2> QED
      BY <2>1, <2>2, <2>3, <2>4 DEF Served
  <1> QED
    BY <1>1, <1>2 DEF ServedOK

LEMMA ServedTick ==
  ASSUME Inv, ServedOK, ClockTick
  PROVE  ServedOK'
  <1>1. PICK r : r = req
    OBVIOUS
  <1>2. /\ UNCHANGED <<tenants, principals, grants, req>> /\ clock' = clock + 1
        /\ r # NULL => clock - r.at < Lag
    BY <1>1 DEF ClockTick, rows
  <1>3. ASSUME r # NULL PROVE Served(r)'
    <2>1. Served(r)
      BY <1>1, <1>3 DEF ServedOK
    <2>2. r.at \in Nat /\ clock \in Nat
      BY <2>1 DEF Served, MachineReq, UserReq, Inv
    <2>3. r.at <= clock' /\ clock' <= r.at + Lag
      BY <1>2, <1>3, <2>1, <2>2, IdentityConstants DEF Served
    <2>4. /\ r.lane = "user" /\ r.stage # "live" =>
               r.minted \in Nat /\ r.minted <= clock /\ r.minted <= clock'
      BY <1>2, <2>1, <2>2 DEF Served
    <2> QED
      BY <1>2, <2>1, <2>3, <2>4 DEF Served, AnyGrant, Principals
  <1> QED
    BY <1>1, <1>2, <1>3 DEF ServedOK

\* Enabling a tenant ends what is claimed of it.
LEMMA ServedEnable ==
  ASSUME Inv, ServedOK, Moving, NEW e \in Tenants, EnableTenant(e)
  PROVE  ServedOK'
  <1>1. PICK r : r = req
    OBVIOUS
  <1>2. PICK n : n = [r EXCEPT !.closed = @ \ {e}]
    OBVIOUS
  <1>3. /\ UNCHANGED <<clock, principals, grants>> /\ tenants' = [tenants EXCEPT ![e] = "on"]
        /\ req' = IF r = NULL THEN NULL ELSE n
    BY <1>1, <1>2 DEF EnableTenant, Write
  <1>4. ASSUME r # NULL PROVE Served(n)'
    <2>1. Served(r)
      BY <1>1, <1>4 DEF ServedOK
    <2>2. r.closed \subseteq Tenants
      BY <2>1 DEF Served, MachineReq, UserReq
    <2>3. PICK c \in SUBSET Tenants : c = r.closed \ {e}
      BY <2>2
    <2>4. n = [r EXCEPT !.closed = c]
      BY <1>2, <2>3
    <2>5. \A t \in c : tenants'[t] = "off"
      <3>1. \A t \in c : t # e /\ tenants[t] = "off"
        BY <2>1, <2>3 DEF Served
      <3> QED
        BY <1>3, <3>1
    <2>6. AnyGrant => AnyGrant'
      BY DEF Moving
    <2>7. CASE r.lane = "machine"
      <3>1. r \in MachineReq /\ r.client \in Principals /\ r.tenant \notin r.closed
        BY <2>1, <2>7 DEF Served
      <3>2. n \in MachineReq /\ n.closed = c /\ n.client = r.client /\ n.tenant = r.tenant
            /\ n.at = r.at /\ n.lane = "machine"
        BY <2>4, <3>1 DEF MachineReq
      <3> QED
        BY <1>3, <2>1, <2>3, <2>5, <3>1, <3>2 DEF Served, Principals
    <2>8. CASE r.lane = "user"
      <3>1. /\ r \in UserReq /\ r.at < r.until
            /\ r.granted => AnyGrant
            /\ r.stage # "live" => /\ r.minted \in Nat /\ r.at <= r.minted /\ r.minted <= clock
                                   /\ \A t \in DOMAIN r.live : t \notin r.closed
            /\ r.stage = "default" => ~r.granted /\ DefaultTenant \in Tenants
            /\ r.stage = "sign" => /\ r.tenant \in Tenants \ r.closed
                                   /\ r.roles = DefaultRoles => ~r.granted
        BY <2>1, <2>8 DEF Served
      <3>2. /\ n \in UserReq /\ n.closed = c /\ n.lane = "user" /\ n.stage = r.stage
            /\ n.at = r.at /\ n.until = r.until /\ n.minted = r.minted /\ n.live = r.live
            /\ n.tenant = r.tenant /\ n.roles = r.roles /\ n.granted = r.granted
        BY <2>4, <3>1 DEF UserReq
      <3> QED
        BY <1>3, <2>1, <2>3, <2>5, <2>6, <3>1, <3>2 DEF Served
    <2> QED
      BY <2>1, <2>7, <2>8 DEF Served
  <1> QED
    BY <1>3, <1>4 DEF ServedOK

LEMMA MachineRequestServed ==
  ASSUME Inv, RowsOK, NEW s \in Secrets, NEW client \in Principals, NEW ttl \in Asked,
         MachineRequest(s, client, ttl)
  PROVE  ServedOK'
  <1>1. PICK p : p = principals[client]
    OBVIOUS
  <1>2. p \in PrincipalRow /\ client \in Nat /\ s \in Nat /\ clock \in Nat
    BY <1>1, IdentityAssumption DEF RowsOK, Inv, SecretsOK, PrincipalsOK, Numbered
  <1>3. p.max_ttl \in Nat /\ p.max_ttl > 0 /\ p.tenant \in Tenants
    BY <1>2 DEF PrincipalRow
  <1>4. PICK life : life = IF ttl = NULL THEN Least(MachineTtl, Ceiling(p)) ELSE ttl
    OBVIOUS
  <1>5. life \in 1..MaxTtl
    <2>1. Ceiling(p) \in Nat /\ Ceiling(p) >= 1 /\ Ceiling(p) <= MaxTtl
      BY <1>3, IdentityConstants DEF Ceiling, Least
    <2>2. ttl # NULL => ttl <= Ceiling(p)
      BY <1>1 DEF MachineRequest
    <2>3. CASE ttl = NULL
      BY <1>4, <2>1, <2>3, IdentityConstants DEF Least
    <2>4. CASE ttl # NULL
      BY <1>4, <2>1, <2>2, <2>4, IdentityConstants
    <2> QED
      BY <2>3, <2>4
  <1>6. PICK c \in SUBSET Tenants : c = Closed
    BY DEF Closed
  <1>7. PICK r : r = [lane |-> "machine", stage |-> "sign", at |-> clock, secret |-> s,
                      client |-> client, tenant |-> p.tenant, closed |-> c, ttl |-> life]
    OBVIOUS
  <1>8. UNCHANGED <<clock, tenants, principals, grants>> /\ req' = r
    BY <1>1, <1>4, <1>6, <1>7 DEF MachineRequest, rows
  <1>9. r \in MachineReq /\ r.lane = "machine" /\ r.at = clock /\ r.client = client
        /\ r.tenant = p.tenant /\ r.closed = c
    BY <1>2, <1>3, <1>5, <1>7 DEF MachineReq
  <1>10. tenants[p.tenant] = "on"
    BY <1>1 DEF MachineRequest, Resolves
  <1>11. p.tenant \notin c /\ \A t \in c : tenants[t] = "off"
    BY <1>6, <1>10 DEF Closed
  <1>12. clock <= clock + Lag
    BY <1>2, IdentityConstants
  <1>13. Served(r)'
    BY <1>2, <1>8, <1>9, <1>11, <1>12 DEF Served, Principals
  <1> QED
    BY <1>8, <1>13 DEF ServedOK

LEMMA MachineSignDue ==
  ASSUME Inv, ServedOK, MachineSign
  PROVE  TokensAreDue' /\ ServedOK' /\ req.client \in Principals
  <1>1. PICK r : r = req
    OBVIOUS
  <1>2. r # NULL /\ r.lane = "machine"
    BY <1>1 DEF MachineSign
  <1>3. r \in MachineReq /\ r.client \in Principals /\ r.tenant \notin r.closed
    BY <1>1, <1>2 DEF ServedOK, Served
  <1>4. r.ttl \in 1..MaxTtl
    BY <1>3 DEF MachineReq
  <1>5. PICK t : t = [lane |-> "machine", tenant |-> r.tenant, at |-> clock,
                      exp |-> clock + r.ttl, closed |-> r.closed]
    OBVIOUS
  <1>6. token' = t /\ req' = NULL
    BY <1>1, <1>5 DEF MachineSign
  <1>7. t.lane = "machine" /\ t.tenant \notin t.closed
    BY <1>3, <1>5
  <1>8. t.exp - t.at \in 1..MaxTtl
    <2>1. t.exp - t.at = r.ttl
      BY <1>4, <1>5, IdentityConstants DEF Inv
    <2> QED
      BY <1>4, <2>1
  <1>9. TokensAreDue'
    BY <1>6, <1>7, <1>8
       DEF TokensAreDue, DefaultOnlyIfNeverGranted, DisabledTenantIsClosed, TokensEnd
  <1> QED
    BY <1>1, <1>3, <1>6, <1>9 DEF ServedOK

LEMMA UserRequestServed ==
  ASSUME Inv, RowsOK, NEW asked \in Option(Tenants), UserRequest(asked)
  PROVE  ServedOK'
  <1>1. PICK u \in Nat : u = userSession /\ clock < u
    BY DEF UserRequest, SessionActive, RowsOK, Option
  <1>2. PICK g \in BOOLEAN : g = (\E t \in Tenants : grants[t] # NULL)
    BY Zenon
  <1>3. PICK c \in SUBSET Tenants : c = Closed
    BY DEF Closed
  <1>4. PICK none : none = << >>
    OBVIOUS
  <1>5. none \in UNION {[T -> Roles] : T \in SUBSET Tenants}
    <2>1. << >> \in [{} -> Roles]
      OBVIOUS
    <2>2. {} \in SUBSET Tenants
      OBVIOUS
    <2> QED
      BY <1>4, <2>1, <2>2
  <1>6. PICK r : r = [lane |-> "user", stage |-> "live", at |-> clock, asked |-> asked,
                      until |-> u, minted |-> NULL, live |-> none, tenant |-> NULL,
                      roles |-> NULL, closed |-> c, granted |-> g]
    OBVIOUS
  <1>7. UNCHANGED <<clock, tenants, principals, grants>> /\ req' = r
    BY <1>1, <1>2, <1>3, <1>4, <1>6, Zenon DEF UserRequest, rows
  <1>8. r \in UserReq /\ r.lane = "user" /\ r.stage = "live" /\ r.at = clock /\ r.until = u
        /\ r.closed = c
    BY <1>5, <1>6 DEF UserReq, Option, Inv
  <1>9. r.granted => AnyGrant
    BY <1>2, <1>6, Zenon DEF AnyGrant
  <1>10. \A t \in c : tenants[t] = "off"
    BY <1>3 DEF Closed
  <1>11. clock <= clock + Lag
    BY IdentityConstants DEF Inv
  <1>12. AnyGrant' <=> AnyGrant
    BY <1>7 DEF AnyGrant
  <1>13. Served(r)'
    BY <1>1, <1>7, <1>8, <1>9, <1>10, <1>11, <1>12 DEF Served, Inv
  <1> QED
    BY <1>7, <1>13 DEF ServedOK

\* What is known of a user's request.
LEMMA UserServed ==
  ASSUME Inv, ServedOK, NEW stage, AtStage(stage)
  PROVE  /\ req \in UserReq /\ req.lane = "user" /\ req.stage = stage /\ req # NULL
         /\ req.at <= clock /\ clock <= req.at + Lag /\ req.at < req.until
         /\ \A t \in req.closed : tenants[t] = "off"
         /\ req.granted => AnyGrant
         /\ stage # "live" => /\ req.minted \in Nat /\ req.at <= req.minted /\ req.minted <= clock
                              /\ \A t \in DOMAIN req.live : t \notin req.closed
         /\ stage = "default" => ~req.granted /\ DefaultTenant \in Tenants
         /\ stage = "sign" => /\ req.tenant \in Tenants \ req.closed
                              /\ req.roles = DefaultRoles => ~req.granted
  <1>1. req # NULL /\ req.lane = "user" /\ req.stage = stage /\ Served(req)
    BY DEF AtStage, ServedOK
  <1> QED
    BY <1>1 DEF Served

LEMMA ReadLiveGrantsServed ==
  ASSUME Inv, RowsOK, ServedOK, ReadLiveGrants
  PROVE  ServedOK'
  <1>1. PICK r : r = req
    OBVIOUS
  <1>2. /\ r \in UserReq /\ r.lane = "user" /\ r # NULL
        /\ r.at <= clock /\ clock <= r.at + Lag /\ r.at < r.until
        /\ \A t \in r.closed : tenants[t] = "off"
        /\ r.granted => AnyGrant
    BY <1>1, UserServed DEF ReadLiveGrants
  <1>3. PICK live : live = [t \in LiveGrants |-> grants[t].roles]
    OBVIOUS
  <1>4. live \in [LiveGrants -> Roles] /\ DOMAIN live = LiveGrants
    <2>1. ASSUME NEW t \in LiveGrants PROVE grants[t].roles \in Roles
      <3>1. grants[t] \in UserGrant
        BY DEF LiveGrants, RowsOK, Option
      <3> QED
        BY <3>1 DEF UserGrant
    <2> QED
      BY <1>3, <2>1
  <1>5. live \in UNION {[T -> Roles] : T \in SUBSET Tenants}
    BY <1>4 DEF LiveGrants
  <1>6. PICK n : n = [r EXCEPT !.stage = "any", !.minted = clock, !.live = live]
    OBVIOUS
  <1>7. UNCHANGED <<clock, tenants, principals, grants>> /\ req' = n
    BY <1>1, <1>3, <1>6 DEF ReadLiveGrants, rows
  <1>8. /\ n \in UserReq /\ n.lane = "user" /\ n.stage = "any" /\ n.at = r.at
        /\ n.until = r.until /\ n.minted = clock /\ n.live = live /\ n.closed = r.closed
        /\ n.granted = r.granted
    BY <1>2, <1>5, <1>6 DEF UserReq, Option, Inv
  <1>9. \A t \in LiveGrants : t \notin r.closed
    BY <1>2 DEF LiveGrants
  <1>10. AnyGrant' <=> AnyGrant
    BY <1>7 DEF AnyGrant
  <1>11. Served(n)'
    BY <1>2, <1>4, <1>7, <1>8, <1>9, <1>10 DEF Served, Inv
  <1> QED
    BY <1>7, <1>11 DEF ServedOK

LEMMA ReadAnyGrantServed ==
  ASSUME Inv, RowsOK, ServedOK, ReadAnyGrant
  PROVE  ServedOK'
  <1>1. PICK r : r = req
    OBVIOUS
  <1>2. /\ r \in UserReq /\ r.lane = "user" /\ r # NULL
        /\ r.at <= clock /\ clock <= r.at + Lag /\ r.at < r.until
        /\ \A t \in r.closed : tenants[t] = "off"
        /\ r.granted => AnyGrant
        /\ r.minted \in Nat /\ r.at <= r.minted /\ r.minted <= clock
        /\ \A t \in DOMAIN r.live : t \notin r.closed
    BY <1>1, UserServed DEF ReadAnyGrant
  <1>3. UNCHANGED <<clock, tenants, principals, grants>>
    BY DEF ReadAnyGrant, rows
  <1>4. AnyGrant' <=> AnyGrant
    BY <1>3 DEF AnyGrant
  <1>5. CASE req' = NULL
    BY <1>5 DEF ServedOK
  <1>6. CASE ~AnyGrant /\ DefaultTenant # NULL /\ req' = [r EXCEPT !.stage = "default"]
    <2>1. PICK n : n = [r EXCEPT !.stage = "default"]
      OBVIOUS
    <2>2. /\ n \in UserReq /\ n.lane = "user" /\ n.stage = "default" /\ n.at = r.at
          /\ n.until = r.until /\ n.minted = r.minted /\ n.live = r.live
          /\ n.closed = r.closed /\ n.granted = r.granted
      BY <1>2, <2>1 DEF UserReq
    <2>3. DefaultTenant \in Tenants
      BY <1>6, IdentityConstants
    <2>4. Served(n)'
      BY <1>2, <1>3, <1>4, <1>6, <2>2, <2>3 DEF Served
    <2> QED
      BY <1>6, <2>1, <2>4 DEF ServedOK
  <1>7. ASSUME NEW t \in Chosen,
               req' = [r EXCEPT !.stage = "sign", !.tenant = t, !.roles = r.live[t]]
        PROVE  ServedOK'
    <2>1. PICK n : n = [r EXCEPT !.stage = "sign", !.tenant = t, !.roles = r.live[t]]
      OBVIOUS
    <2>2. t \in DOMAIN r.live
      BY <1>1 DEF Chosen
    <2>3. t \in Tenants /\ r.live[t] \in Roles
      <3>1. r.live \in UNION {[T -> Roles] : T \in SUBSET Tenants}
        BY <1>2 DEF UserReq
      <3> QED
        BY <2>2, <3>1
    <2>4. /\ n \in UserReq /\ n.lane = "user" /\ n.stage = "sign" /\ n.at = r.at
          /\ n.until = r.until /\ n.minted = r.minted /\ n.live = r.live
          /\ n.tenant = t /\ n.roles = r.live[t]
          /\ n.closed = r.closed /\ n.granted = r.granted
      BY <1>2, <2>1, <2>3 DEF UserReq, Option
    <2>5. n.roles # DefaultRoles
      BY <2>3, <2>4, IdentityConstants
    <2>6. Served(n)'
      BY <1>2, <1>3, <1>4, <2>2, <2>3, <2>4, <2>5 DEF Served
    <2> QED
      BY <1>7, <2>1, <2>6 DEF ServedOK
  <1>8. \/ req' = NULL
        \/ ~AnyGrant /\ DefaultTenant # NULL /\ req' = [r EXCEPT !.stage = "default"]
        \/ \E t \in Chosen : req' = [r EXCEPT !.stage = "sign", !.tenant = t, !.roles = r.live[t]]
    <2>1. req' =
            IF DOMAIN req.live = {} /\ ~AnyGrant
            THEN IF DefaultTenant # NULL /\ req.asked \in {NULL, DefaultTenant}
                 THEN [req EXCEPT !.stage = "default"] ELSE NULL
            ELSE IF Chosen = {} THEN NULL
            ELSE LET t == CHOOSE t \in Chosen : TRUE
                 IN  [req EXCEPT !.stage = "sign", !.tenant = t, !.roles = req.live[t]]
      BY DEF ReadAnyGrant
    <2>2. ASSUME Chosen # {}
          PROVE  \E t \in Chosen : t = CHOOSE x \in Chosen : TRUE
      BY <2>2
    <2> QED
      BY <1>1, <2>1, <2>2
  <1> QED
    BY <1>5, <1>6, <1>7, <1>8

LEMMA ReadDefaultTenantServed ==
  ASSUME Inv, RowsOK, ServedOK, ReadDefaultTenant
  PROVE  ServedOK'
  <1>1. PICK r : r = req
    OBVIOUS
  <1>2. /\ r \in UserReq /\ r.lane = "user" /\ r # NULL
        /\ r.at <= clock /\ clock <= r.at + Lag /\ r.at < r.until
        /\ \A t \in r.closed : tenants[t] = "off"
        /\ r.minted \in Nat /\ r.at <= r.minted /\ r.minted <= clock
        /\ \A t \in DOMAIN r.live : t \notin r.closed
        /\ ~r.granted /\ DefaultTenant \in Tenants
    BY <1>1, UserServed DEF ReadDefaultTenant
  <1>3. UNCHANGED <<clock, tenants, principals, grants>>
    BY DEF ReadDefaultTenant, rows
  <1>4. CASE tenants[DefaultTenant] = "off"
    BY <1>4 DEF ReadDefaultTenant, ServedOK
  <1>5. CASE tenants[DefaultTenant] # "off"
    <2>1. PICK n : n = [r EXCEPT !.stage = "sign", !.tenant = DefaultTenant,
                                 !.roles = DefaultRoles]
      OBVIOUS
    <2>2. req' = n
      BY <1>1, <1>5, <2>1 DEF ReadDefaultTenant
    <2>3. /\ n \in UserReq /\ n.lane = "user" /\ n.stage = "sign" /\ n.at = r.at
          /\ n.until = r.until /\ n.minted = r.minted /\ n.live = r.live
          /\ n.tenant = DefaultTenant /\ n.closed = r.closed /\ n.granted = r.granted
      BY <1>2, <2>1 DEF UserReq, Option
    <2>4. DefaultTenant \notin r.closed
      BY <1>2, <1>5
    <2>5. Served(n)'
      BY <1>2, <1>3, <2>3, <2>4 DEF Served
    <2> QED
      BY <2>2, <2>5 DEF ServedOK
  <1> QED
    BY <1>4, <1>5

LEMMA UserSignDue ==
  ASSUME Inv, ServedOK, UserSign
  PROVE  TokensAreDue' /\ ServedOK'
  <1>1. PICK r : r = req
    OBVIOUS
  <1>2. /\ r \in UserReq /\ r # NULL
        /\ r.at <= clock /\ clock <= r.at + Lag /\ r.at < r.until
        /\ r.minted \in Nat /\ r.at <= r.minted /\ r.minted <= clock
        /\ r.tenant \in Tenants \ r.closed
        /\ r.roles = DefaultRoles => ~r.granted
    BY <1>1, UserServed DEF UserSign
  <1>3. r.at \in Nat /\ r.until \in Nat /\ clock \in Nat
    BY <1>2 DEF UserReq, Inv
  <1>4. PICK m \in Nat, u \in Nat : m = r.minted /\ u = r.until
    BY <1>2, <1>3
  <1>5. PICK life : life = Least(UserTtl, Most(u - m, 1))
    OBVIOUS
  <1>6. life \in 1..MaxTtl /\ m + life <= u + Lag
    <2>1. m <= r.at + Lag /\ r.at < u
      BY <1>2, <1>3, <1>4, IdentityConstants
    <2>2. /\ life \in Int /\ life >= 1 /\ life <= UserTtl
          /\ life <= 1 \/ life <= u - m
      BY <1>5, IdentityConstants DEF Least, Most
    <2> QED
      BY <1>3, <2>1, <2>2, IdentityConstants
  <1>7. PICK t : t = [lane |-> "user", tenant |-> r.tenant, at |-> m, exp |-> m + life,
                      roles |-> r.roles, until |-> u, closed |-> r.closed,
                      granted |-> r.granted]
    OBVIOUS
  <1>8. token' = t /\ req' = NULL
    BY <1>1, <1>4, <1>5, <1>7 DEF UserSign, UserLifetime
  <1>9. /\ t.tenant \notin t.closed /\ t.lane = "user"
        /\ t.roles = DefaultRoles => ~t.granted
    BY <1>2, <1>7
  <1>10. t.exp - t.at \in 1..MaxTtl /\ t.exp <= t.until + Lag
    <2>1. t.exp - t.at = life
      BY <1>6, <1>7
    <2> QED
      BY <1>6, <1>7, <2>1
  <1>11. TokensAreDue'
    BY <1>8, <1>9, <1>10
       DEF TokensAreDue, DefaultOnlyIfNeverGranted, DisabledTenantIsClosed, TokensEnd
  <1> QED
    BY <1>8, <1>11 DEF ServedOK

----------------------------------------------------------------------------
(***************************************************************************)
(* Uses, on their way to the rows.                                         *)
(***************************************************************************)
InTables(u) == IF u[1] = "sp" THEN u[2] \in Principals ELSE u[2] \in Keys

HistoryTyped ==
    history \in [used : [Users -> Option(Nat)], lost : SUBSET Users, writes : Nat, requests : Nat]

OnItsWay(u) == \E use \in touches : use.user = u

\* A use that was sent is less than an interval older than the last one; once it has
\* arrived the row shows it.
UseOf(u) ==
    /\ history.used[u] # NULL => InTables(u)
    /\ touched[u] # NULL =>
         /\ history.used[u] # NULL
         /\ history.used[u] < touched[u] + TouchInterval
    /\ history.used[u] # NULL /\ u \notin history.lost /\ ~OnItsWay(u) =>
         /\ LastUsedAt(u) \in Nat
         /\ history.used[u] < LastUsedAt(u) + TouchInterval
         /\ touched[u] # NULL => LastUsedAt(u) = touched[u]

InFlight(use) == use.at = touched[use.user] /\ clock <= use.at + Lag

UsesOK ==
    /\ HistoryTyped
    /\ \A u \in Users : UseOf(u)
    /\ \A use \in touches : InFlight(use)

\* What was sent to the writer is there before the same credential's use is sent again.
TouchesAreQuick == Lag < TouchInterval

\* RecordUse, by what it leaves.
LEMMA RecordTyped ==
  ASSUME Inv, UsesTyped, NEW u \in Users, InTables(u), RecordUse(u), clock' = clock,
         Principals' = Principals, Keys' = Keys
  PROVE  UsesTyped'
  <1>1. PICK use : use = [user |-> u, at |-> clock]
    OBVIOUS
  <1>2. clock \in 0..clock
    BY DEF Inv
  <1>3. \/ touched' = touched /\ touches' = touches
        \/ touched' = [touched EXCEPT ![u] = clock] /\ touches' = touches \cup {use}
    BY <1>1 DEF RecordUse
  <1>4. touched' \in [Users -> Option(0..clock)]
    BY <1>2, <1>3 DEF UsesTyped, Option
  <1>5. /\ use.user = u /\ use.at = clock
        /\ u[1] = "sp" => u[2] \in Principals
        /\ u[1] # "sp" => u[2] \in Keys
    BY <1>1 DEF InTables
  <1> QED
    BY <1>2, <1>3, <1>4, <1>5 DEF UsesTyped

LEMMA RecordOK ==
  ASSUME Inv, RowsOK, UsesTyped, UsesOK, TouchesAreQuick, NEW u \in Users, InTables(u),
         RecordUse(u), UNCHANGED <<clock, principals, keys>>,
         HistoryTyped', history'.lost = history.lost,
         history'.used = [history.used EXCEPT ![u] = clock]
  PROVE  UsesOK'
  <1>1. PICK use : use = [user |-> u, at |-> clock]
    OBVIOUS
  <1>2. use.user = u /\ use.at = clock /\ clock \in Nat
    BY <1>1 DEF Inv
  <1>3. /\ Lag \in Nat /\ TouchInterval \in Nat /\ Lag < TouchInterval /\ NULL \notin Nat
    BY IdentityConstants DEF TouchesAreQuick
  <1>4. history.used \in [Users -> Option(Nat)] /\ touched \in [Users -> Option(0..clock)]
    BY DEF UsesOK, HistoryTyped, UsesTyped
  <1>5. /\ history'.used[u] = clock
        /\ \A v \in Users : v # u => history'.used[v] = history.used[v]
    BY <1>4
  <1>6. \A v : LastUsedAt(v)' = LastUsedAt(v) /\ (InTables(v)' <=> InTables(v))
    BY DEF LastUsedAt, InTables, Principals, Keys
  <1>7. touched[u] = NULL \/ touched[u] \in Nat
    BY <1>4 DEF Option
  <1>8. \A x \in touches : x.user \in Users /\ x.at \in Nat /\ InFlight(x)
    BY <1>2 DEF UsesTyped, UsesOK
  <1>9. CASE ~TouchDue(u)
    <2>1. touched' = touched /\ touches' = touches
      BY <1>9 DEF RecordUse
    <2>2. touched[u] \in Nat /\ clock < touched[u] + TouchInterval
      BY <1>2, <1>3, <1>7, <1>9 DEF TouchDue
    <2>3. \A x \in touches : InFlight(x)'
      BY <1>8, <2>1 DEF InFlight
    <2>4. \A v : OnItsWay(v)' <=> OnItsWay(v)
      BY <2>1 DEF OnItsWay
    <2>5. ASSUME NEW v \in Users PROVE UseOf(v)'
      <3>1. UseOf(v)
        BY DEF UsesOK
      <3>2. CASE v # u
        BY <1>5, <1>6, <2>1, <2>4, <3>1, <3>2 DEF UseOf
      <3>3. CASE v = u
        <4>1. InTables(u)' /\ touched'[u] = touched[u] /\ history'.used[u] < touched'[u] + TouchInterval
          BY <1>5, <1>6, <2>1, <2>2
        <4>2. ASSUME u \notin history.lost, ~OnItsWay(u)
              PROVE  LastUsedAt(u) = touched[u]
          <5>1. history.used[u] # NULL
            BY <1>3, <2>2, <3>1, <3>3 DEF UseOf
          <5> QED
            BY <1>3, <2>2, <3>1, <3>3, <4>2, <5>1 DEF UseOf
        <4>3. clock # NULL
          BY <1>2, <1>3
        <4> QED
          BY <1>5, <1>6, <2>2, <2>4, <3>3, <4>1, <4>2, <4>3 DEF UseOf
      <3> QED
        BY <3>2, <3>3
    <2> QED
      BY <2>1, <2>3, <2>5 DEF UsesOK
  <1>10. CASE TouchDue(u)
    <2>1. touched' = [touched EXCEPT ![u] = clock] /\ touches' = touches \cup {use}
      BY <1>1, <1>10 DEF RecordUse
    <2>2. touched'[u] = clock /\ \A v \in Users : v # u => touched'[v] = touched[v]
      BY <1>4, <2>1
    <2>3. \A x \in touches : x.user # u
      <3> SUFFICES ASSUME NEW x \in touches, x.user = u PROVE FALSE
        OBVIOUS
      <3>1. x.at = touched[u] /\ clock <= x.at + Lag /\ x.at \in Nat
        BY <1>8 DEF InFlight
      <3>2. clock - touched[u] >= TouchInterval
        BY <1>3, <1>10, <3>1 DEF TouchDue
      <3> QED
        BY <1>2, <1>3, <3>1, <3>2
    <2>4. \A x \in touches' : InFlight(x)'
      <3>1. \A x \in touches : InFlight(x)'
        BY <1>8, <2>2, <2>3 DEF InFlight
      <3>2. InFlight(use)'
        BY <1>2, <1>3, <2>2 DEF InFlight
      <3> QED
        BY <2>1, <3>1, <3>2
    <2>5. /\ OnItsWay(u)'
          /\ \A v : v # u => (OnItsWay(v)' <=> OnItsWay(v))
      BY <1>2, <2>1 DEF OnItsWay
    <2>6. ASSUME NEW v \in Users PROVE UseOf(v)'
      <3>1. UseOf(v)
        BY DEF UsesOK
      <3>2. CASE v # u
        BY <1>5, <1>6, <2>2, <2>5, <3>1, <3>2 DEF UseOf
      <3>3. CASE v = u
        <4>1. clock # NULL /\ clock < clock + TouchInterval
          BY <1>2, <1>3
        <4> QED
          BY <1>5, <1>6, <2>2, <2>5, <3>3, <4>1 DEF UseOf
      <3> QED
        BY <3>2, <3>3
    <2> QED
      BY <2>4, <2>6 DEF UsesOK
  <1> QED
    BY <1>9, <1>10

\* Steps by which no use is recorded or sent.
LEMMA UsesStay ==
  ASSUME Inv, UsesTyped, UsesOK, UsesKept, UNCHANGED <<touched, touches>>,
         clock' \in Nat, clock <= clock', \A use \in touches : clock' <= use.at + Lag,
         HistoryTyped', history'.used = history.used, history'.lost = history.lost
  PROVE  UsesTyped' /\ UsesOK'
  <1>1. UsesTyped'
    <2>1. \A t \in 0..clock : t \in 0..clock'
      BY DEF Inv
    <2> QED
      BY <2>1 DEF UsesTyped, UsesKept, Option
  <1>2. \A use \in touches : InFlight(use)'
    BY DEF UsesOK, InFlight
  <1>3. ASSUME NEW u \in Users PROVE UseOf(u)'
    <2>1. UseOf(u)
      BY DEF UsesOK
    <2>2. InTables(u) => InTables(u)' /\ LastUsedAt(u)' = LastUsedAt(u)
      BY DEF UsesKept, InTables, LastUsedAt
    <2>3. OnItsWay(u)' <=> OnItsWay(u)
      BY DEF OnItsWay
    <2> QED
      BY <2>1, <2>2, <2>3 DEF UseOf
  <1> QED
    BY <1>1, <1>2, <1>3 DEF UsesOK

\* A use arrives, and its row shows it.
LEMMA ApplyTouchUses ==
  ASSUME Inv, RowsOK, UsesTyped, UsesOK, NEW use \in touches, ApplyTouch(use)
  PROVE  UsesTyped' /\ UsesOK'
  <1>1. /\ touches' = touches \ {use} /\ UNCHANGED <<touched, clock>>
        /\ history' = [history EXCEPT !.lost = @ \ {use.user}]
    BY DEF ApplyTouch
  <1>2. /\ Moving
        /\ \A u \in Users : u # use.user =>
             /\ u[1] = "sp" /\ u[2] \in Principals => LastUsedAt(u)' = LastUsedAt(u)
             /\ u[1] # "sp" /\ u[2] \in Keys => LastUsedAt(u)' = LastUsedAt(u)
        /\ LastUsedAt(use.user)' = use.at
    BY ApplyTouchRows
  <1>3. use.user \in Users /\ use.at \in Nat /\ InFlight(use)
    BY DEF UsesTyped, UsesOK, Inv
  <1>4. UsesTyped'
    BY <1>1, <1>2 DEF UsesTyped, Moving
  <1>5. \A x \in touches' : InFlight(x)'
    BY <1>1 DEF UsesOK, InFlight
  <1>6. HistoryTyped' /\ history'.used = history.used /\ history'.lost = history.lost \ {use.user}
    BY <1>1 DEF UsesOK, HistoryTyped
  <1>7. ASSUME NEW u \in Users PROVE UseOf(u)'
    <2>1. UseOf(u)
      BY DEF UsesOK
    <2>2. InTables(u) => InTables(u)'
      BY <1>2 DEF InTables, Moving
    <2>3. CASE u # use.user
      <3>1. OnItsWay(u)' <=> OnItsWay(u)
        BY <1>1, <2>3 DEF OnItsWay
      <3>2. InTables(u) => LastUsedAt(u)' = LastUsedAt(u)
        BY <1>2, <2>3 DEF InTables
      <3>3. u \in history'.lost <=> u \in history.lost
        BY <1>6, <2>3
      <3> QED
        BY <1>1, <1>6, <2>1, <2>2, <3>1, <3>2, <3>3 DEF UseOf
    <2>4. CASE u = use.user
      <3>1. LastUsedAt(u)' = touched[u] /\ touched[u] \in Nat
        BY <1>2, <1>3, <2>4 DEF InFlight
      <3>2. touched[u] # NULL
        BY <3>1, IdentityConstants
      <3> QED
        BY <1>1, <1>6, <2>1, <2>2, <3>1, <3>2 DEF UseOf
    <2> QED
      BY <2>3, <2>4
  <1> QED
    BY <1>4, <1>5, <1>6, <1>7 DEF UsesOK

LEMMA LoseTouchUses ==
  ASSUME Inv, UsesTyped, UsesOK, NEW use \in touches, LoseTouch(use)
  PROVE  UsesTyped' /\ UsesOK'
  <1>1. /\ touches' = touches \ {use} /\ UNCHANGED <<touched, clock, principals, keys>>
        /\ history' = [history EXCEPT !.lost = @ \cup {use.user}]
    BY DEF LoseTouch, rows
  <1>2. use.user \in Users
    BY DEF UsesTyped
  <1>3. UsesTyped'
    BY <1>1 DEF UsesTyped, Principals, Keys
  <1>4. \A x \in touches' : InFlight(x)'
    BY <1>1 DEF UsesOK, InFlight
  <1>5. HistoryTyped' /\ history'.used = history.used /\ history'.lost = history.lost \cup {use.user}
    BY <1>1, <1>2 DEF UsesOK, HistoryTyped
  <1>6. ASSUME NEW u \in Users PROVE UseOf(u)'
    <2>1. UseOf(u)
      BY DEF UsesOK
    <2>2. /\ InTables(u)' <=> InTables(u)
          /\ LastUsedAt(u)' = LastUsedAt(u)
      BY <1>1 DEF InTables, LastUsedAt, Principals, Keys
    <2>3. u # use.user => (OnItsWay(u)' <=> OnItsWay(u))
      BY <1>1 DEF OnItsWay
    <2> QED
      BY <1>1, <1>5, <2>1, <2>2, <2>3 DEF UseOf
  <1> QED
    BY <1>3, <1>4, <1>5, <1>6 DEF UsesOK

LEMMA RestartUses ==
  ASSUME Inv, UsesTyped, UsesOK, Restart
  PROVE  UsesTyped' /\ UsesOK'
  <1>1. /\ touches' = {} /\ touched' = [u \in Users |-> NULL]
        /\ UNCHANGED <<clock, principals, keys>>
        /\ history' = [history EXCEPT !.lost = @ \cup {use.user : use \in touches}]
    BY DEF Restart, rows
  <1>2. UsesTyped'
    BY <1>1 DEF UsesTyped, Option
  <1>3. PICK gone : gone = {use.user : use \in touches}
    OBVIOUS
  <1>4. gone \subseteq Users
    BY <1>3 DEF UsesTyped
  <1>5. HistoryTyped' /\ history'.used = history.used /\ history'.lost = history.lost \cup gone
    BY <1>1, <1>3, <1>4 DEF UsesOK, HistoryTyped
  <1>6. ASSUME NEW u \in Users PROVE UseOf(u)'
    <2>1. UseOf(u)
      BY DEF UsesOK
    <2>2. /\ InTables(u)' <=> InTables(u)
          /\ LastUsedAt(u)' = LastUsedAt(u)
      BY <1>1 DEF InTables, LastUsedAt, Principals, Keys
    <2>3. u \notin gone => ~OnItsWay(u)
      BY <1>3 DEF OnItsWay
    <2>4. touched'[u] = NULL
      BY <1>1
    <2> QED
      BY <1>5, <2>1, <2>2, <2>3, <2>4 DEF UseOf
  <1> QED
    BY <1>1, <1>2, <1>5, <1>6 DEF UsesOK

----------------------------------------------------------------------------
(***************************************************************************)
(* The life a secret was given.                                            *)
(***************************************************************************)
\* A secret lasts as long as was asked for it, or a later one cut it short.
Kept(s) ==
    \/ secrets[s].expires_at = secrets[s].asked
    \/ /\ \E later \in Secrets : later > s /\ secrets[later].principal = secrets[s].principal
       /\ secrets[s].expires_at \in Nat
       /\ secrets[s].asked = NULL \/ secrets[s].expires_at < secrets[s].asked

WordKept == \A s \in Secrets : Kept(s)

\* The numbers of the rows there are, and the next one.
LEMMA NextAfterAll ==
  ASSUME NEW S, Numbered(S)
  PROVE  \A k \in S : k \in Nat /\ k < Cardinality(S) + 1
  <1>1. PICK n \in Nat : S = 1..n
    BY DEF Numbered
  <1>2. Cardinality(S) = n
    BY <1>1, FS_Interval
  <1> QED
    BY <1>1, <1>2

LEMMA SecretAsked ==
  ASSUME NEW p, NEW at, NEW life
  PROVE  Secret(p, at, life).expires_at = Secret(p, at, life).asked
  BY DEF Secret

LEMMA CreatePrincipalWord ==
  ASSUME Inv, WordKept,
         NEW r \in Requests, NEW at \in Stamps, NEW life \in Lives, CreatePrincipal(r, at, life)
  PROVE  WordKept'
  <1>1. PICK s, p : s = Cardinality(Secrets) + 1 /\ p = Cardinality(Principals) + 1
    OBVIOUS
  <1>2. s \notin Secrets
    BY <1>1, NextNumber DEF Inv, SecretsOK
  <1>3. secrets' = [q \in Secrets \cup {s} |->
                      IF q = s THEN Secret(p, at, life) ELSE secrets[q]]
    BY <1>1 DEF CreatePrincipal
  <1>4. Secrets' = Secrets \cup {s}
    BY <1>3 DEF Secrets
  <1>5. \A q \in Secrets : secrets'[q] = secrets[q]
    BY <1>2, <1>3
  <1>6. secrets'[s].expires_at = secrets'[s].asked
    BY <1>3, SecretAsked
  <1> QED
    BY <1>4, <1>5, <1>6 DEF WordKept, Kept

LEMMA AddSecretWord ==
  ASSUME Inv, WordKept, NEW p \in Principals, NEW at \in Stamps, NEW life \in Lives,
         NEW old \in OldLives, AddSecret(p, at, life, old)
  PROVE  WordKept'
  <1>1. PICK s : s = Cardinality(Secrets) + 1
    OBVIOUS
  <1>2. s \notin Secrets /\ \A q \in Secrets : q \in Nat /\ s > q
    BY <1>1, NextNumber, NextAfterAll DEF Inv, SecretsOK
  <1>3. PICK date : date = at + old
    OBVIOUS
  <1>4. secrets' = [q \in Secrets \cup {s} |->
                      IF q = s THEN Secret(p, at, life)
                      ELSE IF old # NULL /\ secrets[q].principal = p THEN Dated(secrets[q], date)
                      ELSE secrets[q]]
    BY <1>1, <1>3 DEF AddSecret, SecretsAdded
  <1>5. Secrets' = Secrets \cup {s} /\ secrets'[s] = Secret(p, at, life)
    BY <1>4 DEF Secrets
  <1>6. old # NULL => date \in Nat
    BY <1>3, IdentityAssumption DEF Inv, Stamps, Option
  <1>7. secrets'[s].expires_at = secrets'[s].asked /\ secrets'[s].principal = p
    <2>1. p \in Nat
      BY DEF Inv, PrincipalsOK, Numbered
    <2> QED
      BY <1>5, <2>1, SecretAsked, SecretTyped DEF Inv
  <1>8. \A q \in Secrets :
          secrets'[q] = IF old # NULL /\ secrets[q].principal = p THEN Dated(secrets[q], date)
                        ELSE secrets[q]
    BY <1>2, <1>4
  <1>9. ASSUME NEW q \in Secrets
        PROVE  /\ secrets'[q].principal = secrets[q].principal
               /\ secrets'[q].asked = secrets[q].asked
               /\ \/ secrets'[q].expires_at = secrets[q].expires_at
                  \/ /\ secrets[q].principal = p
                     /\ secrets'[q].expires_at = date /\ date \in Nat
                     /\ secrets[q].expires_at = NULL \/ date < secrets[q].expires_at
    <2>1. secrets[q] \in SecretRow
      BY DEF Inv, SecretsOK
    <2> QED
      BY <1>6, <1>8, <2>1, IdentityConstants DEF Dated, SecretRow, Option
  <1>10. ASSUME NEW q \in Secrets PROVE Kept(q)'
    <2>1. Kept(q) /\ secrets[q] \in SecretRow
      BY DEF WordKept, Inv, SecretsOK
    <2>2. secrets[q].expires_at \in Nat \cup {NULL} /\ secrets[q].asked \in Nat \cup {NULL}
      BY <2>1 DEF SecretRow, Option
    <2>3. ASSUME \E later \in Secrets : later > q /\ secrets[later].principal = secrets[q].principal
          PROVE  \E later \in Secrets' : later > q /\ secrets'[later].principal = secrets'[q].principal
      BY <1>5, <1>9, <2>3
    <2>4. CASE secrets'[q].expires_at = secrets[q].expires_at
      BY <1>9, <2>1, <2>3, <2>4 DEF Kept
    <2>5. CASE /\ secrets[q].principal = p
               /\ secrets'[q].expires_at = date /\ date \in Nat
               /\ secrets[q].expires_at = NULL \/ date < secrets[q].expires_at
      <3>1. s \in Secrets' /\ s > q /\ secrets'[s].principal = secrets'[q].principal
        BY <1>2, <1>5, <1>7, <1>9, <2>5
      <3>2. secrets[q].asked = NULL \/ date < secrets[q].asked
        BY <2>1, <2>2, <2>5, IdentityConstants DEF Kept
      <3> QED
        BY <1>9, <2>5, <3>1, <3>2 DEF Kept
    <2> QED
      BY <1>9, <2>4, <2>5
  <1>11. Kept(s)'
    BY <1>7 DEF Kept
  <1> QED
    BY <1>5, <1>10, <1>11 DEF WordKept

LEMMA RevokeSecretWord ==
  ASSUME Inv, WordKept, NEW s \in Secrets, RevokeSecret(s)
  PROVE  WordKept'
  <1>1. secrets[s] \in SecretRow /\ secrets' = [secrets EXCEPT ![s].revoked = TRUE]
    BY DEF RevokeSecret, Inv, SecretsOK
  <1>2. /\ Secrets' = Secrets
        /\ secrets'[s] = [secrets[s] EXCEPT !.revoked = TRUE]
        /\ \A q \in Secrets : q # s => secrets'[q] = secrets[q]
    BY <1>1 DEF Secrets
  <1>3. \A q \in Secrets : /\ secrets'[q].expires_at = secrets[q].expires_at
                           /\ secrets'[q].asked = secrets[q].asked
                           /\ secrets'[q].principal = secrets[q].principal
    BY <1>1, <1>2 DEF SecretRow
  <1> QED
    BY <1>2, <1>3 DEF WordKept, Kept

----------------------------------------------------------------------------
(***************************************************************************)
(* Every step.                                                             *)
(***************************************************************************)
\* What a token's claims rest on.
DueInv == RowsOK /\ UsesTyped /\ ServedOK /\ TokensAreDue

LEMMA NoToken ==
  ASSUME token' = NULL
  PROVE  TokensAreDue'
  BY DEF TokensAreDue, DefaultOnlyIfNeverGranted, DisabledTenantIsClosed, TokensEnd

LEMMA TypedStay ==
  ASSUME Inv, UsesTyped, Moving, UNCHANGED <<touched, touches>>, clock' \in Nat, clock <= clock'
  PROVE  UsesTyped'
  <1>1. \A t \in 0..clock : t \in 0..clock'
    BY DEF Inv
  <1> QED
    BY <1>1 DEF UsesTyped, Moving, Option

\* Administrators' changes.
LEMMA AdministerRows ==
  ASSUME Inv, RowsOK, Administer
  PROVE  /\ RowsOK' /\ Moving /\ UsesKept
         /\ UNCHANGED <<clock, userSession, touched, touches>> /\ token' = NULL
         /\ history' = Written
         /\ req' = req \/ \E t \in Tenants : EnableTenant(t)
  <1>1. ASSUME NEW t \in Tenants, CreateTenant(t) \/ DisableTenant(t) \/ EnableTenant(t)
        PROVE  /\ RowsOK' /\ Moving /\ UsesKept
               /\ UNCHANGED <<clock, userSession, touched, touches>> /\ token' = NULL
               /\ history' = Written
               /\ req' = req \/ EnableTenant(t)
    BY <1>1, TenantSteps DEF CreateTenant, DisableTenant, EnableTenant, Write
  <1>2. ASSUME NEW t \in Tenants,
               RevokeUserGrant(t) \/ \E roles \in Roles : CreateUserGrant(t, roles)
        PROVE  /\ RowsOK' /\ Moving /\ UsesKept
               /\ UNCHANGED <<clock, userSession, touched, touches>> /\ token' = NULL
               /\ history' = Written /\ req' = req
    BY <1>2, GrantSteps DEF RevokeUserGrant, CreateUserGrant, Write
  <1>3. ASSUME NEW at \in Stamps, NEW life \in Lives, NEW r \in Requests,
               CreatePrincipal(r, at, life)
        PROVE  /\ RowsOK' /\ Moving /\ UsesKept
               /\ UNCHANGED <<clock, userSession, touched, touches>> /\ token' = NULL
               /\ history' = Written /\ req' = req
    BY <1>3, CreatePrincipalRows DEF CreatePrincipal, Write
  <1>4. ASSUME (\E at \in Stamps, life \in Lives, p \in Principals, old \in OldLives :
                  AddSecret(p, at, life, old))
               \/ \E s \in Secrets : RevokeSecret(s)
        PROVE  /\ RowsOK' /\ Moving /\ UsesKept
               /\ UNCHANGED <<clock, userSession, touched, touches>> /\ token' = NULL
               /\ history' = Written /\ req' = req
    <2>1. /\ UNCHANGED <<clock, userSession, touched, touches, tenants, principals, grants, keys>>
          /\ token' = NULL /\ history' = Written /\ req' = req
      BY <1>4 DEF AddSecret, RevokeSecret, Write
    <2> QED
      BY <2>1, RowsStay DEF RowsOK
  <1>5. ASSUME NEW p \in Principals, RevokePrincipal(p)
        PROVE  /\ RowsOK' /\ Moving /\ UsesKept
               /\ UNCHANGED <<clock, userSession, touched, touches>> /\ token' = NULL
               /\ history' = Written /\ req' = req
    BY <1>5, RevokePrincipalRows DEF RevokePrincipal, Write
  <1>6. ASSUME CreateKey \/ \E k \in Keys : RevokeKey(k)
        PROVE  /\ RowsOK' /\ Moving /\ UsesKept
               /\ UNCHANGED <<clock, userSession, touched, touches>> /\ token' = NULL
               /\ history' = Written /\ req' = req
    BY <1>6, KeySteps DEF CreateKey, RevokeKey, Write
  <1> QED
    BY <1>1, <1>2, <1>3, <1>4, <1>5, <1>6 DEF Administer

LEMMA AdministerDue ==
  ASSUME Inv, DueInv, Administer
  PROVE  DueInv'
  <1>1. /\ RowsOK' /\ Moving
        /\ UNCHANGED <<clock, touched, touches>> /\ token' = NULL
        /\ req' = req \/ \E t \in Tenants : EnableTenant(t)
    BY AdministerRows DEF DueInv
  <1>2. ServedOK'
    <2>1. CASE \E t \in Tenants : EnableTenant(t)
      BY <1>1, <2>1, ServedEnable DEF DueInv
    <2>2. CASE ~\E t \in Tenants : EnableTenant(t)
      BY <1>1, <2>2, ServedStays DEF DueInv
    <2> QED
      BY <2>1, <2>2
  <1>3. UsesTyped'
    BY <1>1, TypedStay DEF DueInv, Inv
  <1> QED
    BY <1>1, <1>2, <1>3, NoToken DEF DueInv

\* The steps of a request leave the tables alone.
LEMMA ServeRows ==
  ASSUME Inv, RowsOK, Serve \/ Restart
  PROVE  /\ RowsOK' /\ Moving /\ UsesKept
         /\ UNCHANGED <<clock, tenants, principals, secrets, grants, keys, userSession>>
  <1>1. UNCHANGED <<clock, tenants, principals, secrets, grants, keys, userSession>>
    BY DEF Serve, Restart, MachineRequest, MachineSign, UserRequest, ReadLiveGrants, ReadAnyGrant,
           ReadDefaultTenant, UserSign, BackendRequest, rows
  <1> QED
    BY <1>1, RowsStay DEF RowsOK

\* The requests that record a use.
LEMMA MachineSignRecords ==
  ASSUME Inv, RowsOK, ServedOK, MachineSign
  PROVE  \E u \in Users : /\ InTables(u) /\ RecordUse(u)
                          /\ history' = [history EXCEPT !.used[u] = clock]
  <1>1. PICK n : n = req.client
    OBVIOUS
  <1>2. n \in Principals
    BY <1>1, MachineSignDue
  <1>3. <<"sp", n>> \in Users /\ InTables(<<"sp", n>>)
    BY <1>2 DEF Users, InTables, RowsOK
  <1> QED
    BY <1>1, <1>3 DEF MachineSign

LEMMA BackendRecords ==
  ASSUME Inv, RowsOK, NEW k \in Keys, BackendRequest(k)
  PROVE  \E u \in Users :
           /\ InTables(u) /\ RecordUse(u)
           /\ history' = [history EXCEPT !.used[u] = clock, !.requests = @ + 1]
  <1>1. <<"bk", k>> \in Users /\ InTables(<<"bk", k>>)
    BY DEF Users, InTables, RowsOK
  <1> QED
    BY <1>1 DEF BackendRequest

LEMMA ServeDue ==
  ASSUME Inv, DueInv, Serve
  PROVE  DueInv'
  <1>1. /\ RowsOK' /\ Moving
        /\ UNCHANGED <<clock, tenants, principals, secrets, grants, keys, userSession>>
    BY ServeRows DEF DueInv
  <1>2. Principals' = Principals /\ Keys' = Keys
    BY <1>1 DEF Principals, Keys
  <1>3. UNCHANGED <<touched, touches>> => UsesTyped'
    BY <1>1, TypedStay DEF DueInv, Inv
  <1>4. ASSUME NEW s \in Secrets, NEW client \in Principals, NEW ttl \in Asked,
               MachineRequest(s, client, ttl)
        PROVE  DueInv'
    <2>1. UNCHANGED <<touched, touches>> /\ token' = NULL
      BY <1>4 DEF MachineRequest
    <2> QED
      BY <1>1, <1>3, <1>4, <2>1, MachineRequestServed, NoToken DEF DueInv
  <1>5. CASE MachineSign
    <2>1. \E u \in Users : InTables(u) /\ RecordUse(u)
      BY <1>5, MachineSignRecords DEF DueInv
    <2>2. UsesTyped'
      BY <1>1, <1>2, <2>1, RecordTyped DEF DueInv
    <2> QED
      BY <1>1, <1>5, <2>2, MachineSignDue DEF DueInv
  <1>6. ASSUME NEW asked \in Option(Tenants), UserRequest(asked) PROVE DueInv'
    <2>1. UNCHANGED <<touched, touches>> /\ token' = NULL
      BY <1>6 DEF UserRequest
    <2> QED
      BY <1>1, <1>3, <1>6, <2>1, UserRequestServed, NoToken DEF DueInv
  <1>7. CASE ReadLiveGrants \/ ReadAnyGrant \/ ReadDefaultTenant
    <2>1. UNCHANGED <<touched, touches>> /\ token' = NULL
      BY <1>7 DEF ReadLiveGrants, ReadAnyGrant, ReadDefaultTenant
    <2>2. ServedOK'
      BY <1>7, ReadLiveGrantsServed, ReadAnyGrantServed, ReadDefaultTenantServed DEF DueInv
    <2> QED
      BY <1>1, <1>3, <2>1, <2>2, NoToken DEF DueInv
  <1>8. CASE UserSign
    <2>1. UNCHANGED <<touched, touches>>
      BY <1>8 DEF UserSign
    <2> QED
      BY <1>1, <1>3, <1>8, <2>1, UserSignDue DEF DueInv
  <1>9. ASSUME NEW k \in Keys, BackendRequest(k) PROVE DueInv'
    <2>1. \E u \in Users : InTables(u) /\ RecordUse(u)
      BY <1>9, BackendRecords DEF DueInv
    <2>2. UsesTyped'
      BY <1>1, <1>2, <2>1, RecordTyped DEF DueInv
    <2>3. req' = req /\ token' = NULL
      BY <1>9 DEF BackendRequest
    <2>4. \A t \in Tenants : ~EnableTenant(t)
      BY <1>1 DEF EnableTenant, DueInv, RowsOK
    <2>5. ServedOK'
      BY <1>1, <2>3, <2>4, ServedStays DEF DueInv
    <2> QED
      BY <1>1, <2>2, <2>3, <2>5, NoToken DEF DueInv
  <1> QED
    BY <1>4, <1>5, <1>6, <1>7, <1>8, <1>9 DEF Serve

LEMMA DueStep ==
  ASSUME Inv, DueInv, [IdentityNext]_identityVars
  PROVE  DueInv'
  <1>1. CASE Administer
    BY <1>1, AdministerDue
  <1>2. CASE Serve
    BY <1>2, ServeDue
  <1>3. CASE ClockTick
    <2>1. /\ UNCHANGED <<tenants, principals, secrets, grants, keys, userSession, touched,
                         touches>>
          /\ clock' = clock + 1 /\ clock < MaxClock /\ token' = NULL
      BY <1>3 DEF ClockTick, rows
    <2>2. clock' \in 0..MaxClock /\ clock' \in Nat /\ clock <= clock'
      BY <2>1, IdentityAssumption DEF Inv
    <2>3. RowsOK' /\ Moving
      BY <2>1, <2>2, RowsStay DEF DueInv, RowsOK
    <2> QED
      BY <1>3, <2>1, <2>2, <2>3, ServedTick, TypedStay, NoToken DEF DueInv
  <1>4. CASE Restart
    <2>1. RowsOK' /\ UNCHANGED clock
      BY <1>4, ServeRows DEF DueInv
    <2>2. touches' = {} /\ touched' = [u \in Users |-> NULL] /\ req' = NULL /\ token' = NULL
      BY <1>4 DEF Restart
    <2>3. UsesTyped'
      BY <2>2 DEF UsesTyped, Option
    <2> QED
      BY <2>1, <2>2, <2>3, NoToken DEF DueInv, ServedOK
  <1>5. ASSUME NEW until \in {NULL, clock + IdleTtl}, SessionMoves(until) PROVE DueInv'
    <2>1. /\ UNCHANGED <<clock, tenants, principals, secrets, grants, keys, touched, touches, req>>
          /\ userSession' = until /\ token' = NULL
      BY <1>5 DEF SessionMoves, rows
    <2>2. until \in Option(Nat)
      BY IdentityConstants DEF Inv, Option
    <2>3. RowsOK' /\ Moving
      BY <2>1, <2>2, RowsStay DEF DueInv, RowsOK
    <2>4. \A t \in Tenants : ~EnableTenant(t)
      BY <2>1 DEF EnableTenant, DueInv, RowsOK
    <2>5. ServedOK' /\ UsesTyped'
      BY <2>1, <2>3, <2>4, ServedStays, TypedStay DEF DueInv, Inv
    <2> QED
      BY <2>1, <2>3, <2>5, NoToken DEF DueInv
  <1>6. ASSUME NEW use \in touches, ApplyTouch(use) PROVE DueInv'
    <2>1. RowsOK' /\ Moving
      BY <1>6, ApplyTouchRows DEF DueInv
    <2>2. /\ UNCHANGED <<clock, tenants, touched, req>> /\ token' = NULL
          /\ touches' = touches \ {use}
      BY <1>6 DEF ApplyTouch
    <2>3. \A t \in Tenants : ~EnableTenant(t)
      BY <2>2 DEF EnableTenant, DueInv, RowsOK
    <2>4. ServedOK'
      BY <2>1, <2>2, <2>3, ServedStays DEF DueInv
    <2>5. UsesTyped'
      BY <2>1, <2>2 DEF DueInv, UsesTyped, Moving
    <2> QED
      BY <2>1, <2>2, <2>4, <2>5, NoToken DEF DueInv
  <1>7. ASSUME NEW use \in touches, LoseTouch(use) PROVE DueInv'
    <2>1. /\ UNCHANGED <<clock, tenants, principals, secrets, grants, keys, userSession,
                         touched, req>>
          /\ token' = NULL /\ touches' = touches \ {use}
      BY <1>7 DEF LoseTouch, rows
    <2>2. RowsOK' /\ Moving
      BY <2>1, RowsStay DEF DueInv, RowsOK
    <2>3. \A t \in Tenants : ~EnableTenant(t)
      BY <2>1 DEF EnableTenant, DueInv, RowsOK
    <2>4. ServedOK'
      BY <2>1, <2>2, <2>3, ServedStays DEF DueInv
    <2>5. UsesTyped'
      BY <2>1, <2>2 DEF DueInv, UsesTyped, Moving
    <2> QED
      BY <2>1, <2>2, <2>4, <2>5, NoToken DEF DueInv
  <1>8. CASE UNCHANGED identityVars
    <2>1. UNCHANGED <<clock, tenants, principals, secrets, grants, keys, userSession,
                      touched, touches, req, token>>
      BY <1>8 DEF identityVars, rows
    <2>2. RowsOK' /\ Moving
      BY <2>1, RowsStay DEF DueInv, RowsOK
    <2>3. \A t \in Tenants : ~EnableTenant(t)
      BY <2>1 DEF EnableTenant, DueInv, RowsOK
    <2>4. ServedOK' /\ UsesTyped'
      BY <2>1, <2>2, <2>3, ServedStays, TypedStay DEF DueInv, Inv
    <2>5. TokensAreDue'
      BY <2>1 DEF DueInv, TokensAreDue, DefaultOnlyIfNeverGranted, DisabledTenantIsClosed,
                  TokensEnd
    <2> QED
      BY <2>2, <2>4, <2>5 DEF DueInv
  <1> QED
    BY <1>1, <1>2, <1>3, <1>4, <1>5, <1>6, <1>7, <1>8 DEF IdentityNext

LEMMA DueInit ==
  ASSUME IdentityInit
  PROVE  DueInv
  <1>1. /\ clock = 0 /\ req = NULL /\ token = NULL /\ touches = {} /\ userSession = NULL
        /\ tenants = [t \in Tenants |-> IF t = DefaultTenant THEN "on" ELSE "none"]
        /\ grants = [t \in Tenants |-> NULL] /\ touched = [u \in Users |-> NULL]
        /\ Principals = {} /\ Keys = {}
    BY DEF IdentityInit, Principals, Keys
  <1>2. Numbered({})
    BY DEF Numbered
  <1>3. tenants \in [Tenants -> {"none", "on", "off"}]
    BY <1>1
  <1>4. MaxClock \in Nat
    BY IdentityAssumption
  <1>5. RowsOK
    BY <1>1, <1>2, <1>3, <1>4 DEF RowsOK, Option
  <1>6. UsesTyped
    BY <1>1 DEF UsesTyped, Option
  <1> QED
    BY <1>1, <1>5, <1>6
       DEF DueInv, ServedOK, TokensAreDue, DefaultOnlyIfNeverGranted, DisabledTenantIsClosed,
           TokensEnd

\* Whatever administrators create, revoke, disable and enable between the reads of a
\* request (http/token.rs, http/user_token.rs), and whenever the broker restarts: the
\* token it ends with is one that was due.
THEOREM TokensHandedOutAreDue == IdentitySpec => []TokensAreDue
  <1>1. IdentityInit => Inv /\ DueInv
    BY InitInv, DueInit
  <1>2. Inv /\ [IdentityNext]_identityVars => Inv'
    BY StepKeeps
  <1>3. Inv /\ DueInv /\ [IdentityNext]_identityVars => DueInv'
    BY DueStep
  <1>4. DueInv => TokensAreDue
    BY DEF DueInv
  <1> QED
    BY <1>1, <1>2, <1>3, <1>4, PTL DEF IdentitySpec

----------------------------------------------------------------------------
\* What an administrator was told.
ToldInv == WordKept /\ UsesOK

LEMMA HistoryMoves ==
  ASSUME HistoryTyped,
         \/ history' = history
         \/ history' = [history EXCEPT !.writes = @ + 1]
         \/ history' = [history EXCEPT !.requests = @ + 1]
  PROVE  HistoryTyped' /\ history'.used = history.used /\ history'.lost = history.lost
  BY DEF HistoryTyped

LEMMA HistoryUsed ==
  ASSUME HistoryTyped, clock \in Nat, NEW u \in Users,
         \/ history' = [history EXCEPT !.used[u] = clock]
         \/ history' = [history EXCEPT !.used[u] = clock, !.requests = @ + 1]
  PROVE  /\ HistoryTyped' /\ history'.lost = history.lost
         /\ history'.used = [history.used EXCEPT ![u] = clock]
  <1>1. PICK now : now = [history.used EXCEPT ![u] = clock]
    OBVIOUS
  <1>2. now \in [Users -> Option(Nat)]
    BY <1>1 DEF HistoryTyped, Option
  <1>3. \/ history' = [history EXCEPT !.used = now]
        \/ history' = [history EXCEPT !.used = now, !.requests = @ + 1]
    BY <1>1
  <1>4. HistoryTyped' /\ history'.lost = history.lost /\ history'.used = now
    <2>1. CASE history' = [history EXCEPT !.used = now]
      BY <1>2, <2>1 DEF HistoryTyped
    <2>2. CASE history' = [history EXCEPT !.used = now, !.requests = @ + 1]
      <3>1. PICK more : more = history.requests + 1
        OBVIOUS
      <3>2. more \in Nat /\ history' = [history EXCEPT !.used = now, !.requests = more]
        BY <2>2, <3>1 DEF HistoryTyped
      <3> QED
        BY <1>2, <3>2 DEF HistoryTyped
    <2> QED
      BY <1>3, <2>1, <2>2
  <1> QED
    BY <1>1, <1>4

LEMMA AdministerTold ==
  ASSUME Inv, DueInv, ToldInv, Administer
  PROVE  ToldInv'
  <1>1. /\ UsesKept /\ UNCHANGED <<clock, touched, touches>>
        /\ history' = Written
    BY AdministerRows DEF DueInv
  <1>2. HistoryTyped' /\ history'.used = history.used /\ history'.lost = history.lost
    BY <1>1, HistoryMoves DEF ToldInv, UsesOK, Written
  <1>3. UsesOK'
    <2>1. clock' \in Nat /\ clock <= clock' /\ \A use \in touches : clock' <= use.at + Lag
      BY <1>1 DEF Inv, ToldInv, UsesOK, InFlight
    <2> QED
      BY <1>1, <1>2, <2>1, UsesStay DEF DueInv, ToldInv
  <1>4. WordKept'
    <2>1. ASSUME NEW at \in Stamps, NEW life \in Lives, NEW r \in Requests,
                 CreatePrincipal(r, at, life)
          PROVE  WordKept'
      BY <2>1, CreatePrincipalWord DEF ToldInv
    <2>2. ASSUME NEW at \in Stamps, NEW life \in Lives, NEW p \in Principals,
                 NEW old \in OldLives, AddSecret(p, at, life, old)
          PROVE  WordKept'
      BY <2>2, AddSecretWord DEF ToldInv
    <2>3. ASSUME NEW s \in Secrets, RevokeSecret(s) PROVE WordKept'
      BY <2>3, RevokeSecretWord DEF ToldInv
    <2>4. CASE \/ \E t \in Tenants :
                    \/ CreateTenant(t) \/ DisableTenant(t) \/ EnableTenant(t)
                    \/ RevokeUserGrant(t)
                    \/ \E roles \in Roles : CreateUserGrant(t, roles)
               \/ \E p \in Principals : RevokePrincipal(p)
               \/ CreateKey
               \/ \E k \in Keys : RevokeKey(k)
      <3>1. secrets' = secrets
        BY <2>4 DEF CreateTenant, DisableTenant, EnableTenant, RevokeUserGrant, CreateUserGrant,
                    RevokePrincipal, CreateKey, RevokeKey
      <3> QED
        BY <3>1 DEF ToldInv, WordKept, Kept, Secrets
    <2> QED
      BY <2>1, <2>2, <2>3, <2>4 DEF Administer
  <1> QED
    BY <1>3, <1>4 DEF ToldInv

LEMMA ToldStep ==
  ASSUME TouchesAreQuick
  PROVE  Inv /\ DueInv /\ ToldInv /\ [IdentityNext]_identityVars => ToldInv'
  <1> SUFFICES ASSUME Inv, DueInv, ToldInv, [IdentityNext]_identityVars PROVE ToldInv'
    OBVIOUS
  <1>1. UNCHANGED secrets => WordKept'
    BY DEF ToldInv, WordKept, Kept, Secrets
  <1>2. RowsOK /\ UsesTyped /\ UsesOK /\ HistoryTyped /\ ServedOK /\ clock \in Nat
    BY DEF DueInv, ToldInv, UsesOK, Inv
  <1>3. \A use \in touches : clock <= use.at + Lag
    BY <1>2 DEF UsesOK, InFlight
  <1>4. UsesKept /\ UNCHANGED <<clock, touched, touches>> /\ HistoryTyped'
          /\ history'.used = history.used /\ history'.lost = history.lost
        => UsesOK'
    BY <1>2, <1>3, UsesStay
  <1>5. CASE Administer
    BY <1>5, AdministerTold
  <1>6. CASE Serve
    <2>1. UsesKept /\ UNCHANGED <<clock, principals, secrets, keys>>
      BY <1>2, <1>6, ServeRows
    <2>2. ASSUME NEW u \in Users, InTables(u), RecordUse(u),
                 \/ history' = [history EXCEPT !.used[u] = clock]
                 \/ history' = [history EXCEPT !.used[u] = clock, !.requests = @ + 1]
          PROVE  UsesOK'
      BY <1>2, <2>1, <2>2, HistoryUsed, RecordOK
    <2>3. ASSUME MachineSign PROVE UsesOK'
      <3>1. PICK u \in Users : /\ InTables(u) /\ RecordUse(u)
                               /\ history' = [history EXCEPT !.used[u] = clock]
        BY <1>2, <2>3, MachineSignRecords
      <3>2. /\ HistoryTyped' /\ history'.lost = history.lost
            /\ history'.used = [history.used EXCEPT ![u] = clock]
        BY <1>2, <3>1, HistoryUsed
      <3> QED
        BY <1>2, <2>1, <3>1, <3>2, RecordOK
    <2>4. ASSUME NEW k \in Keys, BackendRequest(k) PROVE UsesOK'
      BY <1>2, <2>2, <2>4, BackendRecords
    <2>5. ASSUME \/ \E s \in Secrets, client \in Principals, ttl \in Asked :
                      MachineRequest(s, client, ttl)
                 \/ \E asked \in Option(Tenants) : UserRequest(asked)
                 \/ ReadLiveGrants \/ ReadAnyGrant \/ ReadDefaultTenant \/ UserSign
          PROVE  UsesOK'
      <3>1. /\ UNCHANGED <<touched, touches>>
            /\ history' = history \/ history' = [history EXCEPT !.requests = @ + 1]
        BY <2>5 DEF MachineRequest, UserRequest, ReadLiveGrants, ReadAnyGrant,
                    ReadDefaultTenant, UserSign
      <3> QED
        BY <1>2, <1>4, <2>1, <3>1, HistoryMoves
    <2> QED
      BY <1>1, <1>6, <2>1, <2>3, <2>4, <2>5 DEF Serve, ToldInv
  <1>7. CASE ClockTick
    <2>1. /\ UNCHANGED <<tenants, principals, secrets, grants, keys, touched, touches, history>>
          /\ clock' = clock + 1 /\ \A use \in touches : clock - use.at < Lag
      BY <1>7 DEF ClockTick, rows
    <2>2. \A use \in touches : clock' <= use.at + Lag
      <3>1. \A use \in touches : use.at \in Nat
        BY <1>2 DEF UsesTyped
      <3> QED
        BY <1>2, <2>1, <3>1, IdentityConstants
    <2>3. UsesKept
      BY <2>1 DEF UsesKept, Principals, Keys
    <2>4. UsesOK'
      BY <1>2, <2>1, <2>2, <2>3, HistoryMoves, UsesStay
    <2> QED
      BY <1>1, <2>1, <2>4 DEF ToldInv
  <1>8. CASE Restart
    BY <1>1, <1>2, <1>8, RestartUses DEF Restart, rows, ToldInv
  <1>9. ASSUME NEW use \in touches, ApplyTouch(use) PROVE ToldInv'
    BY <1>1, <1>2, <1>9, ApplyTouchUses DEF ApplyTouch, ToldInv
  <1>10. ASSUME NEW use \in touches, LoseTouch(use) PROVE ToldInv'
    BY <1>1, <1>2, <1>10, LoseTouchUses DEF LoseTouch, rows, ToldInv
  <1>11. ASSUME \/ UNCHANGED identityVars
                \/ \E until \in {NULL, clock + IdleTtl} : SessionMoves(until)
         PROVE  ToldInv'
    <2>1. UNCHANGED <<clock, principals, secrets, keys, touched, touches, history>>
      BY <1>11 DEF identityVars, SessionMoves, rows
    <2>2. UsesKept
      BY <2>1 DEF UsesKept, Principals, Keys
    <2> QED
      BY <1>1, <1>2, <1>4, <2>1, <2>2, HistoryMoves DEF ToldInv
  <1> QED
    BY <1>5, <1>6, <1>7, <1>8, <1>9, <1>10, <1>11 DEF IdentityNext

LEMMA ToldInit ==
  ASSUME IdentityInit
  PROVE  ToldInv
  <1>1. /\ touches = {} /\ touched = [u \in Users |-> NULL] /\ Secrets = {}
        /\ history = [used |-> [u \in Users |-> NULL], lost |-> {}, writes |-> 0, requests |-> 0]
    BY DEF IdentityInit, Secrets
  <1>2. [u \in Users |-> NULL] \in [Users -> Option(Nat)]
    BY DEF Option
  <1>3. HistoryTyped
    BY <1>1, <1>2 DEF HistoryTyped
  <1>4. \A u \in Users : history.used[u] = NULL /\ touched[u] = NULL
    BY <1>1
  <1> QED
    BY <1>1, <1>3, <1>4 DEF ToldInv, WordKept, UsesOK, UseOf

\* The number of the last row.
LEMMA UpTo ==
  ASSUME NEW S, Numbered(S), NEW m \in Nat, S \subseteq 1..m
  PROVE  \E n \in 0..m : S = 1..n
  <1>1. PICK n \in Nat : S = 1..n
    BY DEF Numbered
  <1>2. n <= m
    <2>1. CASE n = 0
      BY <2>1
    <2>2. CASE n > 0
      <3>1. n \in S
        BY <1>1, <2>2
      <3> QED
        BY <3>1
    <2> QED
      BY <2>1, <2>2
  <1> QED
    BY <1>1, <1>2

LEMMA IdentityTypes ==
  ASSUME Inv, DueInv
  PROVE  IdentityTypeOK
  <1>1. MaxPrincipals \in Nat /\ MaxSecrets \in Nat /\ MaxKeys \in Nat
    BY IdentityAssumption
  <1>2. /\ \E n \in 0..MaxPrincipals : Principals = 1..n
        /\ \E n \in 0..MaxSecrets : Secrets = 1..n
        /\ \E n \in 0..MaxKeys : Keys = 1..n
    BY <1>1, UpTo DEF Inv, DueInv, RowsOK, PrincipalsOK, SecretsOK
  <1>3. \A s \in Secrets : /\ secrets[s].principal \in Principals
                           /\ secrets[s].expires_at \in Option(Nat)
                           /\ secrets[s].asked \in Option(Nat)
    BY DEF Inv, SecretsOK, SecretRow
  <1>4. \A p \in Principals : principals[p].tenant \in Tenants
    BY DEF DueInv, RowsOK, PrincipalRow
  <1>5. /\ touched \in [Users -> Option(0..clock)]
        /\ \A use \in touches : use.user \in Users /\ use.at \in 0..clock
    BY DEF DueInv, UsesTyped
  <1> QED
    BY <1>2, <1>3, <1>4, <1>5 DEF IdentityTypeOK, DueInv, RowsOK

LEMMA ToldShows ==
  ASSUME Inv, DueInv, ToldInv
  PROVE  CredentialsAsShown
  <1>1. SecretsKeepTheirWord
    BY DEF ToldInv, WordKept, Kept, SecretsKeepTheirWord
  <1>2. LastUseShown
    <2> SUFFICES ASSUME NEW u \in Users, history.used[u] # NULL, u \notin history.lost,
                        \A use \in touches : use.user # u
        PROVE  LastUsedAt(u) # NULL /\ history.used[u] - LastUsedAt(u) < TouchInterval
      BY DEF LastUseShown
    <2>1. LastUsedAt(u) \in Nat /\ history.used[u] < LastUsedAt(u) + TouchInterval
      BY DEF ToldInv, UsesOK, UseOf, OnItsWay
    <2>2. history.used[u] \in Nat
      BY DEF ToldInv, UsesOK, HistoryTyped, Option
    <2> QED
      BY <2>1, <2>2, IdentityConstants
  <1> QED
    BY <1>1, <1>2, IdentityTypes DEF CredentialsAsShown

\* Whatever rotations race, writes are lost and restarts come: a secret lasts as long
\* as was asked when it was handed out unless a later one cut it short, and the last use
\* shown is at most an interval behind, if the writer takes less than that interval
\* (TOUCH_INTERVAL_SECS, a minute) to apply what it was sent.
THEOREM CredentialsStayAsShown ==
  ASSUME TouchesAreQuick
  PROVE  IdentitySpec => []CredentialsAsShown
  <1>1. IdentityInit => Inv /\ DueInv /\ ToldInv
    BY InitInv, DueInit, ToldInit
  <1>2. Inv /\ [IdentityNext]_identityVars => Inv'
    BY StepKeeps
  <1>3. Inv /\ DueInv /\ [IdentityNext]_identityVars => DueInv'
    BY DueStep
  <1>4. Inv /\ DueInv /\ ToldInv /\ [IdentityNext]_identityVars => ToldInv'
    BY ToldStep
  <1>5. Inv /\ DueInv /\ ToldInv => CredentialsAsShown
    BY ToldShows
  <1> QED
    BY <1>1, <1>2, <1>3, <1>4, <1>5, PTL DEF IdentitySpec
=============================================================================
