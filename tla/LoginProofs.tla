------------------------------ MODULE LoginProofs ------------------------------
(***************************************************************************)
(* Proofs about signing in: a session comes from one transaction and the   *)
(* answer to it, a desktop attempt gets its own session, a provider that   *)
(* was closed stays closed, and the registry serves what the rows say.     *)
(***************************************************************************)
EXTENDS Login, FiniteSetTheorems, TLAPS

(***************************************************************************)
(* Types.                                                                  *)
(***************************************************************************)
\* Settings in use have credentials; a deleted provider's are gone.
GoodSettings == {s \in SettingsType : s.deleted \/ s.cred \in 1..2}

EntryRecord == [id : AllIds, settings : GoodSettings, client : Nat]

ClientRecord ==
  [id : AllIds, issuer : Issuers, cred : 0..2, key : Nat, last : Option(Nat),
   busy : BOOLEAN]

AdminRecord ==
  [step : {"prepare", "connect", "apply", "install"}, op : {"insert", "update", "delete"},
   id : Ids, was : Option(GoodSettings), next : GoodSettings, client : Nat,
   fresh : BOOLEAN, seen : Nat]

Person ==
  [kind : {"custody", "grant"}, id : Option(AllIds), ns : Option(AllIds),
   issuer : Option(Issuers), seq : Nat]

History ==
  [inputs : 0..MaxInputs, taken : Nat, checked : [Ids -> Nat],
   off : [Ids -> Option(SUBSET Browsers)], crossed : SUBSET Ids]

\* GET /auth/login, GET /auth/callback and GET /auth/desktop on their way.
SignIn ==
  [step : {"connect", "begin"}, then : {"begin"}, now : Nat, cookie : {0},
   attempt : Option(Attempts), entry : Nat, client : Nat]

Past == {"exchange", "refetch", "fetch", "verify", "custody", "create"}

Visit ==
  [step : {"pick", "connect", "take"} \cup Past, then : {"take"}, now : Nat,
   cookie : Nat, answer : Nat, ok : BOOLEAN, sub : Option(Ids),
   iss : Option(Issuers), attempt : Option(Attempts), entry : Nat, client : Nat,
   key : Nat, excuse : BOOLEAN]

Minting == [step : {"mint"}, now : Nat, attempt : Attempts, sid : Nat]

Requests == {AtRest} \cup SignIn \cup Visit \cup Minting

Txn == [id : AllIds, issuer : Issuers, attempt : Option(Attempts), at : Nat]

SessionRecord ==
  [txn : Nat, id : AllIds, answer : Nat, at : Nat, custody : Nat,
   attempt : Option(Attempts), live : BOOLEAN, door : {"open", "inside", "shut"}]

Ending == Option([sid : Nat, at : Nat])

Held == [logins : [Attempts -> Ending], outcomes : [Attempts -> Ending]]

ProvidersTyped ==
  /\ rows \in [Ids -> Option(GoodSettings)]
  /\ people \in SUBSET Person
  /\ keys \in [Issuers -> Nat]
  /\ registry \in [AllIds -> Nat]
  /\ entries \in Seq(EntryRecord)
  /\ clients \in Seq(ClientRecord)
  /\ admin \in [Admins -> {NoRequest} \cup AdminRecord]
  /\ history \in History

LoginsTyped ==
  /\ clock \in Nat
  /\ txns \in SUBSET Nat
  /\ begun \in Seq(Txn)
  /\ pc \in [Browsers -> Requests]
  /\ signedIn \in Seq(SessionRecord)
  /\ handoff \in Held
  /\ given \in SUBSET [attempt : Attempts, sid : Nat]
  /\ refused \in SUBSET [excuse : BOOLEAN, stale : BOOLEAN]

\* What points at an entry, a client, a transaction or a session finds it, and only
\* an update leaves the secret as it is stored.
EntriesPoint ==
  /\ \A id \in AllIds : registry[id] \in 0..Len(entries)
  /\ \A id \in AllIds : registry[id] # 0 => entries[registry[id]].id = id
  /\ \A i \in 1..Len(entries) : entries[i].client \in 0..Len(clients)
  /\ \A a \in Admins : admin[a] \in AdminRecord =>
        /\ admin[a].client \in 0..Len(clients)
        /\ admin[a].op # "update" => admin[a].fresh

Points(b) ==
  /\ pc[b].step = "connect" => pc[b].entry \in 1..Len(entries)
  /\ pc[b].step \in {"begin", "take"} \cup Past => pc[b].client \in 1..Len(clients)
  /\ pc[b] \in Visit => /\ pc[b].cookie \in 1..Len(begun)
                        /\ pc[b].answer \in 1..Len(begun)

LoginsPoint ==
  /\ txns \subseteq 1..Len(begun)
  /\ \A i \in 1..Len(signedIn) : signedIn[i].txn \in 1..Len(begun)
  /\ \A b \in Browsers : Points(b)

LoginTyped == ProvidersTyped /\ LoginsTyped /\ EntriesPoint /\ LoginsPoint

(***************************************************************************)
(* The sessions.                                                           *)
(***************************************************************************)
\* Request b has redeemed its transaction.
Redeeming(b) == pc[b].step \in Past

\* A transaction is in the store, redeemed by one request, or spent on one session.
Once ==
  /\ \A b \in Browsers : Redeeming(b) => pc[b].cookie \notin txns
  /\ \A b, c \in Browsers :
        Redeeming(b) /\ Redeeming(c) /\ pc[b].cookie = pc[c].cookie => b = c
  /\ \A i \in 1..Len(signedIn) :
        /\ signedIn[i].txn \notin txns
        /\ \A b \in Browsers : Redeeming(b) => pc[b].cookie # signedIn[i].txn
        /\ \A j \in 1..Len(signedIn) : signedIn[i].txn = signedIn[j].txn => i = j

\* What the callback checked when it redeemed its transaction.
Checked ==
  \A b \in Browsers : Redeeming(b) =>
    /\ pc[b].answer = pc[b].cookie
    /\ begun[pc[b].cookie].id = clients[pc[b].client].id
    /\ pc[b].now - begun[pc[b].cookie].at < TxnTtl

Earned ==
  \A i \in 1..Len(signedIn) :
    /\ signedIn[i].answer = signedIn[i].txn
    /\ signedIn[i].id = begun[signedIn[i].txn].id
    /\ signedIn[i].at - begun[signedIn[i].txn].at < TxnTtl

\* Session sid was made by the login of attempt k.
MadeFor(sid, k) == sid \in 1..Len(signedIn) /\ signedIn[sid].attempt = k

Bound ==
  /\ \A k \in Attempts : /\ handoff.logins[k] # NULL => MadeFor(handoff.logins[k].sid, k)
                         /\ handoff.outcomes[k] # NULL /\ handoff.outcomes[k].sid # 0 =>
                               MadeFor(handoff.outcomes[k].sid, k)
  /\ \A g \in given : g.sid # 0 => MadeFor(g.sid, g.attempt)
  /\ \A b \in Browsers : pc[b].step = "mint" => MadeFor(pc[b].sid, pc[b].attempt)

\* A closed provider is disabled, and the callbacks past the door were there when
\* it closed.
Closed(id) == history.off[id] # NULL

Doors == \A id \in Ids : Closed(id) => ~ Enabled(id) /\ Inside(id) \subseteq history.off[id]

SessionsInv == Once /\ Checked /\ Earned /\ Bound /\ Doors /\ DisableHolds

(***************************************************************************)
(* The clients and their keys.                                             *)
(***************************************************************************)
ClientFits(c, id, s) == c.id = id /\ c.issuer = s.issuer /\ c.cred = s.cred

Fits ==
  /\ \A i \in 1..Len(entries) : entries[i].client # 0 =>
        \/ entries[i].id \in history.crossed
        \/ ClientFits(clients[entries[i].client], entries[i].id, entries[i].settings)
  /\ \A a \in Admins : admin[a] \in AdminRecord /\ admin[a].client # 0 =>
        \/ admin[a].id \in history.crossed
        \/ ClientFits(clients[admin[a].client], admin[a].id, admin[a].next)

\* One request at a time fetches a client's keys.
Fetching(b, i) == pc[b].step = "fetch" /\ pc[b].client = i

OneFetch ==
  \A i \in 1..Len(clients) :
    /\ clients[i].busy => \E b \in Browsers : Fetching(b, i)
    /\ \A b \in Browsers : Fetching(b, i) => clients[i].busy
    /\ \A b, c \in Browsers : Fetching(b, i) /\ Fetching(c, i) => b = c

\* Keys only advance: nobody holds one the issuer has not had, and a callback that
\* was not excused knows no newer key than its client.
Sees(b) ==
  pc[b].step \in {"refetch", "fetch", "verify"} =>
    /\ pc[b].key <= keys[clients[pc[b].client].issuer]
    /\ pc[b].step = "verify" /\ ~ pc[b].excuse => pc[b].key <= clients[pc[b].client].key

KeysAdvance ==
  /\ \A i \in 1..Len(clients) : clients[i].key <= keys[clients[i].issuer]
  /\ \A b \in Browsers : Sees(b)

ClientsInv == OneFetch /\ KeysAdvance /\ RefusedOnlyWhenThrottled

(***************************************************************************)
(* The ids that no two requests changed at once.                           *)
(***************************************************************************)
Busy(a, id) == admin[a] \in AdminRecord /\ admin[a].id = id

\* Two requests change one id only if it is crossed.
Alone ==
  \A a, b \in Admins, id \in Ids : Busy(a, id) /\ Busy(b, id) => a = b \/ id \in history.crossed

Installing(id) == \E a \in Admins : admin[a].step = "install" /\ admin[a].id = id

RowServed(id) == ~ Installing(id) => Settings(id) = rows[id]

\* What a request has read is still so, and what it has written is there.
Current(r) ==
  /\ r.step = "prepare" => /\ r.was = Settings(r.id)
                           /\ r.op = "insert" => r.was = NULL \/ r.was.issuer = r.next.issuer
                           /\ r.op # "insert" => r.was # NULL
  /\ r.step \in {"prepare", "connect", "apply"} /\ ~ r.fresh => r.next.cred = rows[r.id].cred
  /\ r.step = "install" => rows[r.id] = r.next

\* The rows are what the registry serves, or about to be.
RowsServed ==
  /\ Alone
  /\ \A id \in Ids : id \notin history.crossed =>
        /\ RowServed(id)
        /\ \A a \in Admins : Busy(a, id) => Current(admin[a])

\* The issuer of id is not the one that this request settles.
Unsettled(r) == rows[r.id] # NULL => rows[r.id].issuer # r.next.issuer

\* Whoever a request has found under the id whose issuer it settles.
Finds(r) ==
  /\ r.seen <= history.taken
  /\ r.id \notin history.crossed /\ Unsettled(r) =>
        \A p \in people : InNamespace(p, r.id) => p.seq > r.seen

\* Whoever answered to an id when its issuer was last settled, and when a request
\* asked to settle it.
PeopleKept ==
  /\ \A p \in people : p.seq <= history.taken
  /\ \A id \in Ids : history.checked[id] <= history.taken
  /\ EarlierPeopleKeepIssuer
  /\ \A a \in Admins : admin[a].step \in {"connect", "apply"} => Finds(admin[a])

----------------------------------------------------------------------------
(***************************************************************************)
(* The handoff tables.                                                     *)
(***************************************************************************)
\* Trimming only drops entries.
LEMMA TrimmedDrops ==
  ASSUME NEW map, NEW at, NEW m \in Trimmed(map, at)
  PROVE  m = [k \in Attempts |-> m[k]] /\ \A k \in Attempts : m[k] = map[k] \/ m[k] = NULL
<1>1. PICK S \in SUBSET Attempts : m = [k \in Attempts |-> IF k \in S THEN map[k] ELSE Nobody]
  BY DEF Trimmed
<1> QED BY <1>1, LoginAssumption

LEMMA TrimmedTyped ==
  ASSUME NEW map \in [Attempts -> Ending], NEW at, NEW m \in Trimmed(map, at)
  PROVE  m \in [Attempts -> Ending]
BY TrimmedDrops DEF Ending, Option

\* An ending is noted for its own attempt, and entries are forgotten.
LEMMA FinishNotes ==
  ASSUME NEW held \in Held, NEW k \in Attempts, NEW sid \in Nat, NEW at \in Nat,
         NEW h \in Finish(held, k, sid, at)
  PROVE  /\ h \in Held
         /\ \A j \in Attempts :
              /\ h.logins[j] = held.logins[j] \/ h.logins[j] = NULL
              /\ \/ h.outcomes[j] = held.outcomes[j] \/ h.outcomes[j] = NULL
                 \/ j = k /\ h.outcomes[j].sid = sid
<1> DEFINE end == [sid |-> sid, at |-> at]
<1>1. PICK m \in Trimmed(held.outcomes, at) :
        h = IF m[k] # Nobody
            THEN [held EXCEPT !.outcomes = m]
            ELSE [held EXCEPT !.outcomes = [m EXCEPT ![k] = end], !.logins[k] = Nobody]
  BY DEF Finish
<1>2. held.logins \in [Attempts -> Ending] /\ held.outcomes \in [Attempts -> Ending]
  BY DEF Held
<1>3. m \in [Attempts -> Ending] /\ \A j \in Attempts : m[j] = held.outcomes[j] \/ m[j] = NULL
  BY <1>1, <1>2, TrimmedTyped, TrimmedDrops
<1>4. end \in Ending /\ Nobody \in Ending /\ end.sid = sid /\ Nobody = NULL
  BY LoginAssumption DEF Ending, Option
<1> HIDE DEF end
<1>5. CASE m[k] # Nobody
  <2>1. h = [held EXCEPT !.outcomes = m]
    BY <1>1, <1>5
  <2> QED BY <1>2, <1>3, <2>1 DEF Held
<1>6. CASE m[k] = Nobody
  <2> DEFINE o == [m EXCEPT ![k] = end]
             l == [held.logins EXCEPT ![k] = Nobody]
  <2>1. h = [held EXCEPT !.outcomes = o, !.logins = l]
    BY <1>1, <1>6
  <2>2. o \in [Attempts -> Ending] /\ l \in [Attempts -> Ending]
    BY <1>2, <1>3, <1>4
  <2>3. \A j \in Attempts : /\ l[j] = held.logins[j] \/ l[j] = NULL
                            /\ o[j] = held.outcomes[j] \/ o[j] = NULL \/ (j = k /\ o[j] = end)
    BY <1>2, <1>3, <1>4
  <2> HIDE DEF o, l
  <2>4. h.logins = l /\ h.outcomes = o /\ h \in Held
    BY <2>1, <2>2 DEF Held
  <2> QED BY <1>4, <2>3, <2>4
<1> QED BY <1>5, <1>6

LEMMA FailureNotes ==
  ASSUME NEW held \in Held, NEW k \in Option(Attempts), NEW at \in Nat,
         NEW h \in NoteFailure(held, k, at)
  PROVE  /\ h \in Held
         /\ \A j \in Attempts :
              /\ h.logins[j] = held.logins[j] \/ h.logins[j] = NULL
              /\ \/ h.outcomes[j] = held.outcomes[j] \/ h.outcomes[j] = NULL
                 \/ h.outcomes[j].sid = 0
<1>1. CASE k = NULL
  BY <1>1, LoginAssumption DEF NoteFailure
<1>2. CASE k # NULL
  <2>1. k \in Attempts /\ h \in Finish(held, k, 0, at)
    BY <1>2, LoginAssumption DEF NoteFailure, Option
  <2> QED BY <2>1, FinishNotes
<1> QED BY <1>1, <1>2

LEMMA LoginNotes ==
  ASSUME NEW held \in Held, NEW k \in Attempts, NEW sid \in Nat, NEW at \in Nat,
         NEW h \in NoteLogin(held, k, sid, at)
  PROVE  /\ h \in Held
         /\ \A j \in Attempts :
              /\ \/ h.logins[j] = held.logins[j] \/ h.logins[j] = NULL
                 \/ j = k /\ h.logins[j].sid = sid
              /\ h.outcomes[j] = held.outcomes[j]
<1> DEFINE end == [sid |-> sid, at |-> at]
<1>1. PICK m \in Trimmed(held.logins, at) : h = [held EXCEPT !.logins = [m EXCEPT ![k] = end]]
  BY DEF NoteLogin
<1>2. held.logins \in [Attempts -> Ending] /\ held.outcomes \in [Attempts -> Ending]
  BY DEF Held
<1>3. m \in [Attempts -> Ending] /\ \A j \in Attempts : m[j] = held.logins[j] \/ m[j] = NULL
  BY <1>1, <1>2, TrimmedTyped, TrimmedDrops
<1>4. end \in Ending /\ end.sid = sid
  BY DEF Ending, Option
<1> HIDE DEF end
<1> DEFINE l == [m EXCEPT ![k] = end]
<1>5. l \in [Attempts -> Ending]
  BY <1>3, <1>4
<1>6. \A j \in Attempts : l[j] = held.logins[j] \/ l[j] = NULL \/ (j = k /\ l[j] = end)
  BY <1>3, <1>4
<1>7. h = [held EXCEPT !.logins = l]
  BY <1>1
<1> HIDE DEF l
<1>8. h.logins = l /\ h.outcomes = held.outcomes /\ h \in Held
  BY <1>2, <1>5, <1>7 DEF Held
<1> QED BY <1>4, <1>6, <1>8

LEMMA EmptyIsHeld == EmptyHeld \in Held /\ \A k \in Attempts : /\ EmptyHeld.logins[k] = NULL
                                                              /\ EmptyHeld.outcomes[k] = NULL
BY LoginAssumption DEF EmptyHeld, Held, Ending, Option

----------------------------------------------------------------------------
(***************************************************************************)
(* The registry a process boots with.                                      *)
(***************************************************************************)

\* The entry of the config file.
BootEntry == Entry(Default, Configured(DefaultIssuer, TRUE), 1)

LEMMA BootEntryFields ==
  /\ BootEntry \in EntryRecord /\ BootEntry.id = Default /\ BootEntry.client = 1
  /\ BootEntry.settings.issuer = DefaultIssuer /\ BootEntry.settings.cred = 1
BY ProvidersAssumption DEF BootEntry, Entry, Configured, EntryRecord, GoodSettings, SettingsType, AllIds

\* The entries that are read back: those of the rows, then the config provider's.
Listed(stored) == {Entry(id, stored[id], 0) : id \in {j \in Ids : stored[j] # NULL}}

LEMMA BootReads ==
  ASSUME NEW stored
  PROVE  \E q : /\ BootEntries(stored) = Append(q, BootEntry)
                /\ q \in Seq(Listed(stored))
                /\ \A x : x \in Listed(stored) <=> \E i \in 1..Len(q) : q[i] = x
<1> DEFINE S == Listed(stored)
           J == {j \in Ids : stored[j] # NULL}
           n == Cardinality(S)
           Lists(q) == {q[i] : i \in DOMAIN q} = S
           q == CHOOSE p \in [1..n -> S] : Lists(p)
<1>1. IsFiniteSet(S)
  <2>1. IsFiniteSet(J)
    BY ProvidersAssumption, FS_Subset
  <2> DEFINE f == [id \in J |-> Entry(id, stored[id], 0)]
  <2>2. f \in Surjection(J, S)
    BY DEF Surjection, Listed
  <2> QED BY <2>1, <2>2, FS_Surjection
<1> HIDE DEF S
<1>2. n \in Nat /\ \E p \in [1..n -> S] : Lists(p)
  <2>1. n \in Nat /\ ExistsBijection(1..n, S)
    BY <1>1, FS_CardinalityType
  <2>2. PICK p \in Bijection(1..n, S) : TRUE
    BY <2>1 DEF ExistsBijection
  <2>3. p \in [1..n -> S] /\ \A x \in S : \E i \in 1..n : p[i] = x
    BY <2>2 DEF Bijection, Injection, Surjection
  <2>4. Lists(p)
    BY <2>3
  <2> QED BY <2>1, <2>3, <2>4
<1>3. q \in [1..n -> S] /\ Lists(q)
  BY <1>2
<1>4. BootEntries(stored) = Append(q, BootEntry)
  BY DEF BootEntries, S, Listed, BootEntry
<1> HIDE DEF q
<1>5. q \in Seq(S) /\ Len(q) = n /\ DOMAIN q = 1..n
  BY <1>2, <1>3
<1>6. \A x : x \in S <=> \E i \in 1..Len(q) : q[i] = x
  BY <1>3, <1>5
<1> QED BY <1>4, <1>5, <1>6 DEF S

\* A registry that serves what is stored.
BootsTo(stored, es, rg) ==
  /\ es \in Seq(EntryRecord)
  /\ rg \in [AllIds -> Nat]
  /\ \A id \in AllIds : rg[id] \in 0..Len(es) /\ (rg[id] # 0 => es[rg[id]].id = id)
  /\ \A i \in 1..Len(es) : es[i].client = 0 \/ es[i] = BootEntry
  /\ \A id \in Ids : (IF rg[id] = 0 THEN NULL ELSE es[rg[id]].settings) = stored[id]

LEMMA Booted ==
  ASSUME NEW stored \in [Ids -> Option(GoodSettings)], NEW es, es = BootEntries(stored),
         NEW rg, rg = BootRegistry(es)
  PROVE  BootsTo(stored, es, rg)
<1> DEFINE last == BootEntry
<1>1. PICK q : /\ es = Append(q, last)
               /\ q \in Seq(Listed(stored))
               /\ \A x : x \in Listed(stored) <=> \E i \in 1..Len(q) : q[i] = x
  BY BootReads
<1>2. last \in EntryRecord /\ last.id = Default
  BY BootEntryFields
<1>3. \A x \in Listed(stored) : /\ x \in EntryRecord /\ x.client = 0
                                /\ x.id \in Ids /\ x.settings = stored[x.id] /\ stored[x.id] # NULL
  BY DEF Listed, Entry, EntryRecord, AllIds, Option
<1>4. ASSUME NEW id \in Ids, stored[id] # NULL PROVE \E x \in Listed(stored) : x.id = id
  <2>1. Entry(id, stored[id], 0) \in Listed(stored)
    BY <1>4 DEF Listed
  <2> QED BY <2>1 DEF Entry
<1> HIDE DEF last
<1>5. Listed(stored) \subseteq EntryRecord
  BY <1>3
<1>6. q \in Seq(EntryRecord) /\ es \in Seq(EntryRecord) /\ Len(es) = Len(q) + 1 /\ Len(q) \in Nat
  BY <1>1, <1>2, <1>5
<1>7. /\ \A i \in 1..Len(q) : es[i] = q[i] /\ q[i] \in Listed(stored)
      /\ es[Len(es)] = last
      /\ \A i \in 1..Len(es) : i \in 1..Len(q) \/ i = Len(es)
      /\ DOMAIN es = 1..Len(es)
  BY <1>1, <1>6
<1>8. \A id \in AllIds : \/ /\ rg[id] \in 1..Len(es) /\ es[rg[id]].id = id
                         \/ /\ rg[id] = 0 /\ \A i \in 1..Len(es) : es[i].id # id
  BY <1>7 DEF BootRegistry
<1>9. rg = [id \in AllIds |-> rg[id]]
  BY DEF BootRegistry
<1>10. rg \in [AllIds -> Nat]
  BY <1>6, <1>8, <1>9
<1>11. \A i \in 1..Len(es) : es[i].client = 0 \/ es[i] = last
  BY <1>3, <1>7
<1>12. ASSUME NEW id \in Ids PROVE (IF rg[id] = 0 THEN NULL ELSE es[rg[id]].settings) = stored[id]
  <2>1. id \in AllIds /\ id # Default
    BY ProvidersAssumption DEF AllIds
  <2>2. CASE rg[id] = 0
    <3>1. \A i \in 1..Len(es) : es[i].id # id
      BY <1>8, <2>1, <2>2
    <3>2. ASSUME stored[id] # NULL PROVE FALSE
      <4>1. PICK x \in Listed(stored) : x.id = id
        BY <1>4, <3>2
      <4>2. PICK i \in 1..Len(q) : q[i] = x
        BY <1>1, <4>1
      <4>3. i \in 1..Len(es) /\ es[i] = x
        BY <1>6, <1>7, <4>2
      <4> QED BY <3>1, <4>1, <4>3
    <3> QED BY <2>2, <3>2
  <2>3. CASE rg[id] # 0
    <3>1. rg[id] \in 1..Len(es) /\ es[rg[id]].id = id
      BY <1>8, <2>1, <2>3
    <3>2. es[rg[id]] \in Listed(stored)
      BY <1>2, <1>7, <2>1, <3>1
    <3> QED BY <1>3, <2>3, <3>1, <3>2
  <2> QED BY <2>2, <2>3
<1>13. \A id \in AllIds : rg[id] \in 0..Len(es) /\ (rg[id] # 0 => es[rg[id]].id = id)
  BY <1>6, <1>8
<1> QED BY <1>6, <1>10, <1>11, <1>12, <1>13 DEF last, BootsTo

----------------------------------------------------------------------------
(***************************************************************************)
(* The state has its shape.                                                *)
(***************************************************************************)
LEMMA SettingsFields ==
  ASSUME NEW s \in GoodSettings
  PROVE  /\ s.issuer \in Issuers /\ s.enabled \in BOOLEAN /\ s.deleted \in BOOLEAN
         /\ s.cred \in 0..2 /\ (~ s.deleted => s.cred \in 1..2)
         /\ s = [issuer |-> s.issuer, enabled |-> s.enabled, deleted |-> s.deleted, cred |-> s.cred]
BY DEF GoodSettings, SettingsType

LEMMA ConfiguredGood ==
  ASSUME NEW i \in Issuers, NEW e \in BOOLEAN PROVE Configured(i, e) \in GoodSettings
BY DEF Configured, GoodSettings, SettingsType

LEMMA ChangedGood ==
  ASSUME NEW s \in GoodSettings, ~ s.deleted, NEW t \in Changed(s)
  PROVE  t \in GoodSettings /\ ~ t.deleted
<1>1. PICK i \in Issuers, e \in BOOLEAN :
        \/ t = [s EXCEPT !.issuer = i]
        \/ t = [s EXCEPT !.enabled = e]
        \/ t = [s EXCEPT !.cred = 3 - s.cred]
  BY ProvidersAssumption DEF Changed
<1>2. s \in SettingsType /\ s.cred \in 1..2 /\ 3 - s.cred \in 1..2
  BY DEF GoodSettings
<1>3. t \in SettingsType /\ t.deleted = s.deleted /\ t.cred \in 1..2
  BY <1>1, <1>2 DEF SettingsType
<1> QED BY <1>3 DEF GoodSettings

LEMMA DeletedGood ==
  ASSUME NEW s \in GoodSettings,
         NEW t, t = [s EXCEPT !.deleted = TRUE, !.enabled = FALSE, !.cred = 0]
  PROVE  t \in GoodSettings
<1>1. s \in SettingsType
  BY DEF GoodSettings
<1>2. t = [issuer |-> s.issuer, enabled |-> FALSE, deleted |-> TRUE, cred |-> 0]
  BY <1>1 DEF SettingsType
<1>3. t \in SettingsType
  <2>1. s.issuer \in Issuers /\ 0 \in 0..2 /\ FALSE \in BOOLEAN /\ TRUE \in BOOLEAN
    BY SettingsFields
  <2> QED BY <1>2, <2>1, Zenon DEF SettingsType
<1>4. t.deleted
  BY <1>2
<1> QED BY <1>3, <1>4 DEF GoodSettings

LEMMA WrittenGood ==
  ASSUME NEW s \in GoodSettings, NEW c \in 1..2
  PROVE  [s EXCEPT !.cred = c] \in GoodSettings
BY DEF GoodSettings, SettingsType

\* A request knows by its step which kind it is.
LEMMA StepTells ==
  ASSUME NEW r \in Requests
  PROVE  /\ r.step = "idle" => r = AtRest
         /\ r.step \in {"pick", "take"} \cup Past => r \in Visit
         /\ r.step = "begin" => r \in SignIn
         /\ r.step = "mint" => r \in Minting
         /\ r.step = "connect" => (r \in SignIn /\ r.then = "begin") \/ (r \in Visit /\ r.then = "take")
         /\ r \in Visit => r \notin SignIn \cup Minting \cup {AtRest}
BY DEF Requests, AtRest, SignIn, Visit, Minting, Past

LEMMA VisitFields ==
  ASSUME NEW r \in Visit
  PROVE  /\ r.now \in Nat /\ r.cookie \in Nat /\ r.answer \in Nat /\ r.ok \in BOOLEAN
         /\ r.sub \in Option(Ids) /\ r.iss \in Option(Issuers) /\ r.attempt \in Option(Attempts)
         /\ r.entry \in Nat /\ r.client \in Nat /\ r.key \in Nat /\ r.excuse \in BOOLEAN
BY DEF Visit

\* What a step does to a callback leaves it one.
LEMMA VisitMoves ==
  ASSUME NEW r \in Visit, NEW step \in {"pick", "connect", "take"} \cup Past,
         NEW entry \in Nat, NEW client \in Nat, NEW key \in Nat, NEW excuse \in BOOLEAN,
         NEW v, v = [r EXCEPT !.step = step, !.entry = entry, !.client = client,
                              !.key = key, !.excuse = excuse]
  PROVE  /\ v \in Visit
         /\ v.step = step /\ v.entry = entry /\ v.client = client /\ v.key = key
         /\ v.excuse = excuse /\ v.now = r.now /\ v.cookie = r.cookie /\ v.answer = r.answer
BY DEF Visit

LEMMA Moved ==
  ASSUME pc \in [Browsers -> Requests], NEW b \in Browsers, NEW r \in Requests,
         pc' = [pc EXCEPT ![b] = r]
  PROVE  pc' \in [Browsers -> Requests] /\ pc'[b] = r /\ \A c \in Browsers : c # b => pc'[c] = pc[c]
OBVIOUS

\* What a request points at stays while the sequences grow.
LEMMA PointsKept ==
  ASSUME LoginTyped, NEW b \in Browsers, pc'[b] = pc[b],
         Len(entries') \in Nat, Len(clients') \in Nat, Len(begun') \in Nat,
         Len(entries) <= Len(entries'), Len(clients) <= Len(clients'), Len(begun) <= Len(begun')
  PROVE  Points(b)'
<1>1. Points(b)
  BY DEF LoginTyped, LoginsPoint
<1>2. Len(entries) \in Nat /\ Len(clients) \in Nat /\ Len(begun) \in Nat
  BY DEF LoginTyped, ProvidersTyped, LoginsTyped
<1> QED BY <1>1, <1>2 DEF Points

LEMMA Lengths ==
  ASSUME LoginTyped
  PROVE  /\ Len(entries) \in Nat /\ Len(clients) \in Nat /\ Len(begun) \in Nat /\ Len(signedIn) \in Nat
         /\ \A i \in 1..Len(entries) : entries[i] \in EntryRecord
         /\ \A i \in 1..Len(clients) : clients[i] \in ClientRecord
         /\ \A i \in 1..Len(begun) : begun[i] \in Txn
         /\ \A i \in 1..Len(signedIn) : signedIn[i] \in SessionRecord
BY DEF LoginTyped, ProvidersTyped, LoginsTyped

LEMMA ClientFields ==
  ASSUME NEW c \in ClientRecord
  PROVE  /\ c.id \in AllIds /\ c.issuer \in Issuers /\ c.cred \in 0..2 /\ c.key \in Nat
         /\ c.last \in Option(Nat) /\ c.busy \in BOOLEAN
BY DEF ClientRecord

LEMMA EntryFields ==
  ASSUME NEW e \in EntryRecord
  PROVE  e.id \in AllIds /\ e.settings \in GoodSettings /\ e.client \in Nat
BY DEF EntryRecord

LEMMA TxnFields ==
  ASSUME NEW t \in Txn
  PROVE  t.id \in AllIds /\ t.issuer \in Issuers /\ t.attempt \in Option(Attempts) /\ t.at \in Nat
BY DEF Txn

\* A client that has just been built.
LEMMA BuiltRecord ==
  ASSUME keys \in [Issuers -> Nat], NEW id \in AllIds, NEW s \in GoodSettings,
         NEW c, c = Built(id, s)
  PROVE  /\ c \in ClientRecord /\ ClientFits(c, id, s) /\ ~ c.busy
         /\ c.key = keys[c.issuer]
<1>1. s.issuer \in Issuers /\ s.cred \in 0..2
  BY SettingsFields
<1>2. NULL \in Option(Nat)
  BY DEF Option
<1> QED BY <1>1, <1>2 DEF Built, ClientRecord, ClientFits

LEMMA Appended ==
  ASSUME NEW S, NEW q \in Seq(S), NEW x \in S, NEW p, p = Append(q, x)
  PROVE  /\ p \in Seq(S) /\ Len(p) = Len(q) + 1 /\ Len(q) \in Nat /\ p[Len(p)] = x
         /\ \A i \in 1..Len(q) : p[i] = q[i]
         /\ \A i \in 1..Len(p) : i \in 1..Len(q) \/ i = Len(p)
OBVIOUS

LEMMA Replaced ==
  ASSUME NEW S, NEW q \in Seq(S), NEW i \in 1..Len(q), NEW x \in S, NEW p, p = [q EXCEPT ![i] = x]
  PROVE  /\ p \in Seq(S) /\ Len(p) = Len(q) /\ p[i] = x
         /\ \A j \in 1..Len(q) : j # i => p[j] = q[j]
OBVIOUS

\* A request moves, and the sequences grow.
LEMMA MoveTyped ==
  ASSUME LoginTyped, NEW b \in Browsers, NEW r \in Requests, pc' = [pc EXCEPT ![b] = r],
         UNCHANGED <<clock, rows, keys, registry, admin, given>>,
         people' \in SUBSET Person, history' \in History,
         entries' \in Seq(EntryRecord), Len(entries') = Len(entries),
         \A i \in 1..Len(entries) : /\ entries'[i].id = entries[i].id
                                    /\ entries'[i].client \in 0..Len(clients'),
         clients' \in Seq(ClientRecord), Len(clients) <= Len(clients'),
         begun' \in Seq(Txn), Len(begun) <= Len(begun'), txns' \subseteq 1..Len(begun'),
         signedIn' \in Seq(SessionRecord),
         \A i \in 1..Len(signedIn') : signedIn'[i].txn \in 1..Len(begun'),
         handoff' \in Held, refused' \in SUBSET [excuse : BOOLEAN, stale : BOOLEAN],
         r.step = "connect" => r.entry \in 1..Len(entries),
         r.step \in {"begin", "take"} \cup Past => r.client \in 1..Len(clients'),
         r \in Visit => r.cookie \in 1..Len(begun') /\ r.answer \in 1..Len(begun')
  PROVE  LoginTyped'
<1>0. /\ Len(entries) \in Nat /\ Len(clients) \in Nat /\ Len(begun) \in Nat
      /\ Len(entries') \in Nat /\ Len(clients') \in Nat /\ Len(begun') \in Nat
  BY Lengths
<1>1. ProvidersTyped'
  BY DEF LoginTyped, ProvidersTyped
<1>2. /\ pc \in [Browsers -> Requests] /\ clock \in Nat
      /\ given \in SUBSET [attempt : Attempts, sid : Nat]
  BY DEF LoginTyped, LoginsTyped
<1>3. pc' \in [Browsers -> Requests] /\ pc'[b] = r /\ \A c \in Browsers : c # b => pc'[c] = pc[c]
  BY <1>2, Moved
<1>4. LoginsTyped'
  <2>1. txns' \in SUBSET Nat
    BY <1>0
  <2> QED BY <1>2, <1>3, <2>1 DEF LoginsTyped
<1>5. EntriesPoint'
  <2>1. EntriesPoint
    BY DEF LoginTyped
  <2>2. \A id \in AllIds : registry[id] # 0 => registry[id] \in 1..Len(entries)
    BY <1>0, <2>1 DEF EntriesPoint
  <2>3. \A a \in Admins : admin[a] \in AdminRecord => admin[a].client \in 0..Len(clients')
    BY <1>0, <2>1 DEF EntriesPoint
  <2> QED BY <2>1, <2>2, <2>3 DEF EntriesPoint
<1>6. ASSUME NEW c \in Browsers PROVE Points(c)'
  <2>1. CASE c = b
    BY <1>0, <1>3, <2>1 DEF Points
  <2>2. CASE c # b
    BY <1>0, <1>3, <2>2, PointsKept
  <2> QED BY <2>1, <2>2
<1>7. LoginsPoint'
  BY <1>6 DEF LoginsPoint
<1> QED BY <1>1, <1>4, <1>5, <1>7 DEF LoginTyped

\* The same when the request is all that moves, or nearly.
LEMMA StepTyped ==
  ASSUME LoginTyped, NEW b \in Browsers, NEW r \in Requests, pc' = [pc EXCEPT ![b] = r],
         UNCHANGED <<clock, rows, people, keys, registry, entries, admin, begun, signedIn, given>>,
         history' \in History, clients' \in Seq(ClientRecord), Len(clients') = Len(clients),
         txns' \subseteq txns, handoff' \in Held,
         refused' \in SUBSET [excuse : BOOLEAN, stale : BOOLEAN],
         r.step = "connect" => r.entry \in 1..Len(entries),
         r.step \in {"begin", "take"} \cup Past => r.client \in 1..Len(clients),
         r \in Visit => r.cookie \in 1..Len(begun) /\ r.answer \in 1..Len(begun)
  PROVE  LoginTyped'
<1>0. Len(entries) \in Nat /\ Len(clients) \in Nat /\ Len(begun) \in Nat
  BY Lengths
<1>1. /\ people \in SUBSET Person /\ entries \in Seq(EntryRecord) /\ begun \in Seq(Txn)
      /\ signedIn \in Seq(SessionRecord)
      /\ txns \subseteq 1..Len(begun) /\ \A i \in 1..Len(signedIn) : signedIn[i].txn \in 1..Len(begun)
      /\ \A i \in 1..Len(entries) : entries[i].client \in 0..Len(clients)
  BY DEF LoginTyped, ProvidersTyped, LoginsTyped, EntriesPoint, LoginsPoint
<1>2. /\ people' \in SUBSET Person /\ entries' \in Seq(EntryRecord) /\ begun' \in Seq(Txn)
      /\ signedIn' \in Seq(SessionRecord) /\ Len(entries') = Len(entries) /\ begun' = begun
      /\ Len(clients) <= Len(clients') /\ Len(begun) <= Len(begun')
      /\ txns' \subseteq 1..Len(begun')
      /\ \A i \in 1..Len(signedIn') : signedIn'[i].txn \in 1..Len(begun')
      /\ \A i \in 1..Len(entries) : /\ entries'[i].id = entries[i].id
                                    /\ entries'[i].client \in 0..Len(clients')
  BY <1>0, <1>1
<1> QED BY <1>2, MoveTyped

\* A request that ends.
LEMMA RestTyped ==
  ASSUME LoginTyped, NEW b \in Browsers, pc' = [pc EXCEPT ![b] = AtRest],
         UNCHANGED <<clock, providers, begun, signedIn, given>>,
         txns' \subseteq txns, handoff' \in Held,
         refused' \in SUBSET [excuse : BOOLEAN, stale : BOOLEAN]
  PROVE  LoginTyped'
<1>1. AtRest \in Requests /\ AtRest.step = "idle" /\ AtRest \notin Visit
  <2>1. AtRest \in Requests /\ AtRest.step = "idle"
    BY DEF AtRest, Requests
  <2> QED BY <2>1, StepTells
<1>2. /\ history' \in History /\ clients' \in Seq(ClientRecord) /\ Len(clients') = Len(clients)
      /\ UNCHANGED <<clock, rows, people, keys, registry, entries, admin, begun, signedIn, given>>
  BY DEF LoginTyped, ProvidersTyped, providers
<1>3. AtRest.step \notin {"connect", "begin", "take"} \cup Past
  BY <1>1 DEF Past
<1> QED BY <1>1, <1>2, <1>3, StepTyped

LEMMA Callback ==
  ASSUME LoginTyped, NEW b \in Browsers, pc[b].step \in {"pick", "take"} \cup Past
  PROVE  /\ pc[b] \in Visit /\ pc[b].cookie \in 1..Len(begun) /\ pc[b].answer \in 1..Len(begun)
         /\ begun[pc[b].cookie] \in Txn /\ begun[pc[b].answer] \in Txn
         /\ pc[b].step # "pick" => /\ pc[b].client \in 1..Len(clients)
                                   /\ clients[pc[b].client] \in ClientRecord
<1>1. pc[b] \in Requests /\ Points(b)
  BY DEF LoginTyped, LoginsTyped, LoginsPoint
<1>2. pc[b] \in Visit
  BY <1>1, StepTells
<1>3. pc[b].step # "pick" => pc[b].step \in {"begin", "take"} \cup Past
  OBVIOUS
<1>4. pc[b].cookie \in 1..Len(begun) /\ pc[b].answer \in 1..Len(begun)
  BY <1>1, <1>2 DEF Points
<1>5. pc[b].step # "pick" => pc[b].client \in 1..Len(clients)
  BY <1>1, <1>3 DEF Points
<1> QED BY <1>2, <1>4, <1>5, Lengths

LEMMA FailTyped ==
  ASSUME LoginTyped, NEW b \in Browsers, pc[b] \in Visit, Fail(b),
         UNCHANGED <<clock, providers, begun, signedIn, given>>, txns' \subseteq txns,
         refused' \in SUBSET [excuse : BOOLEAN, stale : BOOLEAN]
  PROVE  LoginTyped'
<1>1. handoff \in Held /\ pc[b].attempt \in Option(Attempts) /\ pc[b].now \in Nat
  BY VisitFields DEF LoginTyped, LoginsTyped
<1>2. handoff' \in Held /\ pc' = [pc EXCEPT ![b] = AtRest]
  BY <1>1, FailureNotes DEF Fail
<1> QED BY <1>2, RestTyped

\* A callback goes on to its next step.
LEMMA AdvanceTyped ==
  ASSUME LoginTyped, NEW b \in Browsers, pc[b].step \in {"pick", "take"} \cup Past,
         NEW v \in Visit, pc' = [pc EXCEPT ![b] = v],
         v.cookie = pc[b].cookie, v.answer = pc[b].answer,
         \/ v.step \in Past /\ v.client = pc[b].client /\ pc[b].step # "pick"
         \/ v.step = "connect" /\ v.entry \in 1..Len(entries),
         UNCHANGED <<clock, rows, people, keys, registry, entries, admin, history, begun, signedIn, given>>,
         clients' \in Seq(ClientRecord), Len(clients') = Len(clients),
         txns' \subseteq txns, handoff' = handoff, refused' = refused
  PROVE  LoginTyped'
<1>1. /\ pc[b].cookie \in 1..Len(begun) /\ pc[b].answer \in 1..Len(begun)
      /\ pc[b].step # "pick" => pc[b].client \in 1..Len(clients)
  BY Callback
<1>2. handoff' \in Held /\ refused' \in SUBSET [excuse : BOOLEAN, stale : BOOLEAN] /\ history' \in History
  BY DEF LoginTyped, LoginsTyped, ProvidersTyped
<1>3. v \in Requests
  BY DEF Requests
<1>4. /\ v.step = "connect" => v.entry \in 1..Len(entries)
      /\ v.step \in {"begin", "take"} \cup Past => v.client \in 1..Len(clients)
  BY <1>1 DEF Past
<1> QED BY <1>1, <1>2, <1>3, <1>4, StepTyped

LEMMA InputTyped ==
  ASSUME history \in History, NEW h \in History, h.inputs = history.inputs, Input(h)
  PROVE  /\ history' \in History
         /\ history'.taken = h.taken /\ history'.checked = h.checked /\ history'.off = h.off
         /\ history'.crossed = h.crossed
<1>1. history.inputs \in 0..MaxInputs /\ history.inputs + 1 \in 0..MaxInputs
  BY ProvidersAssumption DEF Input, History
<1>2. history' = [h EXCEPT !.inputs = h.inputs + 1]
  BY DEF Input
<1>3. h.inputs + 1 \in 0..MaxInputs
  BY <1>1
<1> QED BY <1>2, <1>3 DEF History

LEMMA EnabledEntry ==
  ASSUME LoginTyped, NEW id \in AllIds, Enabled(id)
  PROVE  /\ registry[id] \in 1..Len(entries) /\ entries[registry[id]] \in EntryRecord
         /\ entries[registry[id]].id = id /\ Settings(id) = entries[registry[id]].settings
         /\ Settings(id) \in GoodSettings /\ ~ Settings(id).deleted
<1>1. Settings(id) # NULL /\ Settings(id).deleted = FALSE
  BY DEF Enabled, Known
<1>2. registry[id] # 0 /\ Settings(id) = entries[registry[id]].settings
  BY <1>1 DEF Settings
<1>3. registry[id] \in 0..Len(entries) /\ entries[registry[id]].id = id
  BY <1>2 DEF LoginTyped, EntriesPoint
<1>4. registry[id] \in 1..Len(entries)
  BY <1>2, <1>3, Lengths
<1> QED BY <1>1, <1>2, <1>3, <1>4, Lengths, EntryFields

LEMMA AskLoginTyped ==
  ASSUME LoginTyped, NEW b \in Browsers, NEW want, NEW k \in Option(Attempts), AskLogin(b, want, k)
  PROVE  LoginTyped'
<1>1. /\ history \in History /\ clock \in Nat /\ handoff \in Held /\ pc \in [Browsers -> Requests]
      /\ refused' \in SUBSET [excuse : BOOLEAN, stale : BOOLEAN]
      /\ clients' \in Seq(ClientRecord) /\ txns' = txns /\ Len(clients') = Len(clients)
      /\ UNCHANGED <<clock, rows, people, keys, registry, entries, admin, begun, signedIn, given>>
  BY DEF AskLogin, LoginTyped, LoginsTyped, ProvidersTyped
<1>2. history' \in History
  BY <1>1, InputTyped DEF AskLogin
<1>3. CASE \E id \in Chosen(want) :
            /\ pc' = [pc EXCEPT ![b] = [step |-> "connect", then |-> "begin", now |-> clock, cookie |-> 0,
                                        attempt |-> k, entry |-> registry[id], client |-> 0]]
            /\ UNCHANGED handoff
  <2>1. PICK id \in Chosen(want) :
            /\ pc' = [pc EXCEPT ![b] = [step |-> "connect", then |-> "begin", now |-> clock, cookie |-> 0,
                                        attempt |-> k, entry |-> registry[id], client |-> 0]]
            /\ UNCHANGED handoff
    BY <1>3
  <2> DEFINE r == [step |-> "connect", then |-> "begin", now |-> clock, cookie |-> 0,
                   attempt |-> k, entry |-> registry[id], client |-> 0]
  <2>2. id \in AllIds /\ Enabled(id)
    BY DEF Chosen
  <2>3. registry[id] \in 1..Len(entries) /\ registry[id] \in Nat
    BY <2>2, EnabledEntry, Lengths
  <2>4. r \in SignIn
    BY <1>1, <2>3 DEF SignIn
  <2>5. r \in Requests /\ r \notin Visit
    <3>1. r \in Requests
      BY <2>4 DEF Requests
    <3> QED BY <2>4, <3>1, StepTells
  <2>6. r.step = "connect" /\ r.entry \in 1..Len(entries)
    BY <2>3
  <2>7. pc' = [pc EXCEPT ![b] = r] /\ handoff' \in Held
    BY <1>1, <2>1
  <2> HIDE DEF r
  <2>8. r.step \notin {"begin", "take"} \cup Past
    BY <2>6 DEF Past
  <2> QED BY <1>1, <1>2, <2>5, <2>6, <2>7, <2>8, StepTyped
<1>4. CASE k # NULL /\ handoff' \in NoteFailure(handoff, k, clock) /\ UNCHANGED pc
  <2>1. handoff' \in Held
    BY <1>1, <1>4, FailureNotes
  <2> DEFINE r == pc[b]
  <2>2. r \in Requests /\ pc' = [pc EXCEPT ![b] = r]
    BY <1>1, <1>4
  <2>3. r = AtRest /\ r \notin Visit /\ r.step = "idle"
    BY <2>2, StepTells DEF AskLogin
  <2> HIDE DEF r
  <2> QED BY <1>1, <1>2, <2>1, <2>2, <2>3, StepTyped DEF Past
<1> QED BY <1>3, <1>4 DEF AskLogin

\* Connecting gives the request the client of its entry.
Connected(r, c) == [r EXCEPT !.step = r.then, !.client = c]

LEMMA ConnectGives ==
  ASSUME LoginTyped, NEW b \in Browsers, pc[b].step = "connect",
         NEW c \in Nat, NEW v, v = Connected(pc[b], c)
  PROVE  /\ v \in Requests /\ v.step \in {"begin", "take"} /\ v.client = c
         /\ v.cookie = pc[b].cookie /\ v.step = pc[b].then
         /\ v \in Visit => /\ pc[b] \in Visit /\ v.answer = pc[b].answer
                           /\ pc[b].cookie \in 1..Len(begun) /\ pc[b].answer \in 1..Len(begun)
<1>1. pc[b] \in Requests /\ Points(b)
  BY DEF LoginTyped, LoginsTyped, LoginsPoint
<1>2. CASE pc[b] \in SignIn /\ pc[b].then = "begin"
  <2>1. v \in SignIn /\ v.step = "begin" /\ v.client = c /\ v.cookie = pc[b].cookie
    BY <1>2 DEF SignIn, Connected
  <2>2. v \in Requests
    BY <2>1 DEF Requests
  <2>3. v \notin Visit
    BY <2>1, <2>2, StepTells
  <2> QED BY <1>2, <2>1, <2>2, <2>3
<1>3. CASE pc[b] \in Visit /\ pc[b].then = "take"
  <2>1. v \in Visit /\ v.step = "take" /\ v.client = c /\ v.cookie = pc[b].cookie /\ v.answer = pc[b].answer
    BY <1>3 DEF Visit, Connected
  <2>2. v \in Requests
    BY <2>1 DEF Requests
  <2> QED BY <1>1, <1>3, <2>1, <2>2 DEF Points
<1> QED BY <1>1, <1>2, <1>3, StepTells

LEMMA ConnectTyped ==
  ASSUME LoginTyped, NEW b \in Browsers, Connect(b)
  PROVE  LoginTyped'
<1> DEFINE r == pc[b]
           e == entries[r.entry]
           n == Len(clients) + 1
<1>1. /\ history' \in History /\ handoff \in Held /\ clock \in Nat /\ pc \in [Browsers -> Requests]
      /\ refused' \in SUBSET [excuse : BOOLEAN, stale : BOOLEAN]
      /\ keys \in [Issuers -> Nat] /\ clients \in Seq(ClientRecord) /\ entries \in Seq(EntryRecord)
      /\ UNCHANGED <<clock, rows, people, keys, registry, admin, history, begun, signedIn, given, refused>>
      /\ r.step = "connect" /\ Points(b)
  BY DEF Connect, LoginTyped, LoginsTyped, ProvidersTyped, LoginsPoint
<1>2. r.entry \in 1..Len(entries) /\ e \in EntryRecord /\ Len(clients) \in Nat /\ e.client \in 0..Len(clients)
  <2>1. r.entry \in 1..Len(entries)
    BY <1>1 DEF Points
  <2> QED BY <2>1, Lengths DEF LoginTyped, EntriesPoint
<1>3. CASE /\ e.client # 0 /\ pc' = [pc EXCEPT ![b].step = r.then, ![b].client = e.client]
           /\ UNCHANGED <<entries, clients, txns, handoff>>
  <2> DEFINE v == Connected(pc[b], e.client)
  <2>1. e.client \in Nat /\ e.client \in 1..Len(clients)
    BY <1>2, <1>3
  <2>2. pc' = [pc EXCEPT ![b] = v]
    BY <1>3 DEF Connected
  <2>3. /\ v \in Requests /\ v.step \in {"begin", "take"} /\ v.client = e.client /\ v.cookie = pc[b].cookie
        /\ v \in Visit => /\ v.answer = pc[b].answer
                          /\ pc[b].cookie \in 1..Len(begun) /\ pc[b].answer \in 1..Len(begun)
    BY <1>1, <2>1, ConnectGives
  <2> HIDE DEF v
  <2>4. /\ clients' \in Seq(ClientRecord) /\ Len(clients') = Len(clients)
        /\ txns' \subseteq txns /\ handoff' \in Held
        /\ UNCHANGED <<clock, rows, people, keys, registry, entries, admin, begun, signedIn, given>>
    BY <1>1, <1>3
  <2> QED BY <1>1, <2>1, <2>2, <2>3, <2>4, StepTyped
<1>4. CASE /\ e.client = 0
           /\ clients' = Append(clients, Built(e.id, e.settings))
           /\ entries' = [entries EXCEPT ![r.entry].client = n]
           /\ pc' = [pc EXCEPT ![b].step = r.then, ![b].client = n]
           /\ UNCHANGED <<txns, handoff>>
  <2> DEFINE v == Connected(pc[b], n)
             f == [e EXCEPT !.client = n]
  <2>1. Built(e.id, e.settings) \in ClientRecord
    <3>1. e.id \in AllIds /\ e.settings \in GoodSettings
      BY <1>2, EntryFields
    <3> QED BY <1>1, <3>1, BuiltRecord
  <2>2. clients' \in Seq(ClientRecord) /\ Len(clients') = n /\ n \in Nat
    BY <1>1, <1>2, <1>4, <2>1
  <2>3. f \in EntryRecord /\ f.id = e.id /\ f.client = n
    BY <1>2, <2>2 DEF EntryRecord
  <2>4. entries' = [entries EXCEPT ![r.entry] = f]
    BY <1>4
  <2>5. pc' = [pc EXCEPT ![b] = v]
    BY <1>4 DEF Connected
  <2>6. /\ v \in Requests /\ v.step \in {"begin", "take"} /\ v.client = n /\ v.cookie = pc[b].cookie
        /\ v \in Visit => /\ v.answer = pc[b].answer
                          /\ pc[b].cookie \in 1..Len(begun) /\ pc[b].answer \in 1..Len(begun)
    BY <1>1, <2>2, ConnectGives
  <2> HIDE DEF v, f
  <2>7. /\ entries' \in Seq(EntryRecord) /\ Len(entries') = Len(entries)
        /\ entries'[r.entry] = f
        /\ \A i \in 1..Len(entries) : i # r.entry => entries'[i] = entries[i]
    BY <1>1, <1>2, <2>3, <2>4, Replaced
  <2>8. \A i \in 1..Len(entries) : entries[i].client \in 0..Len(clients)
    BY DEF LoginTyped, EntriesPoint
  <2>9. n \in 1..Len(clients') /\ Len(clients) <= Len(clients') /\ 0..Len(clients) \subseteq 0..Len(clients')
        /\ n \in 0..Len(clients')
    BY <1>2, <2>2
  <2>10. \A i \in 1..Len(entries) : /\ entries'[i].id = entries[i].id
                                    /\ entries'[i].client \in 0..Len(clients')
    BY <2>3, <2>7, <2>8, <2>9
  <2>11. /\ people' \in SUBSET Person /\ begun' \in Seq(Txn) /\ signedIn' \in Seq(SessionRecord)
         /\ Len(begun) <= Len(begun') /\ begun' = begun /\ txns' \subseteq 1..Len(begun')
         /\ \A i \in 1..Len(signedIn') : signedIn'[i].txn \in 1..Len(begun')
         /\ handoff' \in Held
    BY <1>1, <1>4, Lengths DEF LoginTyped, LoginsTyped, ProvidersTyped, LoginsPoint
  <2>12. UNCHANGED <<clock, rows, keys, registry, admin, given>>
    BY <1>1
  <2>13. v.step \notin {"connect"}
    BY <2>6
  <2> QED BY <1>1, <2>2, <2>5, <2>6, <2>7, <2>9, <2>10, <2>11, <2>12, <2>13, MoveTyped
<1>5. CASE /\ pc' = [pc EXCEPT ![b] = AtRest]
           /\ txns' = txns \ {r.cookie}
           /\ handoff' \in NoteFailure(handoff, r.attempt, IF r.then = "begin" THEN clock ELSE r.now)
           /\ UNCHANGED <<entries, clients>>
  <2>1. r.attempt \in Option(Attempts) /\ r.now \in Nat
    <3>1. r \in SignIn \/ r \in Visit
      BY <1>1, StepTells
    <3> QED BY <3>1, VisitFields DEF SignIn
  <2>2. handoff' \in Held
    BY <1>1, <1>5, <2>1, FailureNotes
  <2> QED BY <1>1, <1>5, <2>2, RestTyped DEF providers
<1> QED BY <1>3, <1>4, <1>5 DEF Connect

LEMMA BeginTyped ==
  ASSUME LoginTyped, NEW b \in Browsers, BeginLogin(b)
  PROVE  LoginTyped'
<1> DEFINE r == pc[b]
           n == Len(begun) + 1
           t == [id |-> clients[r.client].id, issuer |-> clients[r.client].issuer,
                 attempt |-> r.attempt, at |-> clock]
<1>1. /\ pc \in [Browsers -> Requests] /\ clock \in Nat /\ begun \in Seq(Txn) /\ Points(b)
      /\ r.step = "begin" /\ txns \subseteq 1..Len(begun)
      /\ begun' = Append(begun, t) /\ txns' = txns \cup {n} /\ pc' = [pc EXCEPT ![b] = AtRest]
      /\ UNCHANGED <<clock, providers, signedIn, handoff, given, refused>>
  BY DEF BeginLogin, LoginTyped, LoginsTyped, LoginsPoint
<1>2. r \in SignIn /\ r.client \in 1..Len(clients)
  BY <1>1, StepTells DEF Points
<1>3. t \in Txn
  <2>1. clients[r.client] \in ClientRecord
    BY <1>2, Lengths
  <2>2. clients[r.client].id \in AllIds /\ clients[r.client].issuer \in Issuers
    BY <2>1, ClientFields
  <2>3. r.attempt \in Option(Attempts)
    BY <1>2 DEF SignIn
  <2> QED BY <1>1, <2>2, <2>3 DEF Txn
<1> HIDE DEF t
<1>4. begun' \in Seq(Txn) /\ Len(begun') = n /\ n \in Nat /\ Len(begun) <= Len(begun')
      /\ 1..Len(begun) \subseteq 1..Len(begun') /\ n \in 1..Len(begun')
  BY <1>1, <1>3, Lengths
<1>5. AtRest \in Requests /\ AtRest.step = "idle" /\ AtRest \notin Visit
  <2>1. AtRest \in Requests /\ AtRest.step = "idle"
    BY DEF AtRest, Requests
  <2> QED BY <2>1, StepTells
<1>6. AtRest.step \notin {"connect", "begin", "take"} \cup Past
  BY <1>5 DEF Past
<1>7. txns' \subseteq 1..Len(begun')
  BY <1>1, <1>4
<1>8. /\ people' \in SUBSET Person /\ history' \in History /\ clients' \in Seq(ClientRecord)
      /\ entries' \in Seq(EntryRecord) /\ entries' = entries /\ clients' = clients
      /\ signedIn' \in Seq(SessionRecord) /\ handoff' \in Held /\ signedIn' = signedIn
      /\ refused' \in SUBSET [excuse : BOOLEAN, stale : BOOLEAN]
      /\ UNCHANGED <<clock, rows, keys, registry, admin, given>>
      /\ \A i \in 1..Len(entries) : entries[i].client \in 0..Len(clients)
  BY <1>1 DEF LoginTyped, LoginsTyped, ProvidersTyped, EntriesPoint, providers
<1>9. \A i \in 1..Len(signedIn') : signedIn'[i].txn \in 1..Len(begun')
  BY <1>4, <1>8 DEF LoginTyped, LoginsPoint
<1>10. Len(clients) <= Len(clients') /\ Len(entries') = Len(entries)
  BY <1>8, Lengths
<1> HIDE DEF n, r
<1> QED BY <1>1, <1>4, <1>5, <1>6, <1>7, <1>8, <1>9, <1>10, MoveTyped

LEMMA AskCallbackTyped ==
  ASSUME LoginTyped, NEW b \in Browsers, NEW cookie \in 1..Len(begun), NEW answer \in 1..Len(begun),
         NEW ok \in BOOLEAN, NEW named \in BOOLEAN, NEW sub \in Option(Ids),
         AskCallback(b, cookie, answer, ok, sub, named)
  PROVE  /\ LoginTyped'
         /\ pc'[b] \in Visit /\ pc'[b].step = "pick"
<1> DEFINE v == [step |-> "pick", then |-> "take", now |-> clock, cookie |-> cookie,
                 answer |-> answer, ok |-> ok, sub |-> sub,
                 iss |-> IF named THEN begun[answer].issuer ELSE NULL,
                 attempt |-> IF cookie \in txns THEN begun[cookie].attempt ELSE NULL,
                 entry |-> 0, client |-> 0, key |-> 0, excuse |-> FALSE]
           h == [history EXCEPT !.off = [id \in Ids |-> IF @[id] = NULL THEN NULL ELSE @[id] \ {b}]]
<1>1. /\ pc \in [Browsers -> Requests] /\ clock \in Nat /\ history \in History /\ handoff \in Held
      /\ clients' \in Seq(ClientRecord) /\ Len(clients') = Len(clients) /\ txns' \subseteq txns
      /\ refused' \in SUBSET [excuse : BOOLEAN, stale : BOOLEAN] /\ handoff' \in Held
      /\ pc' = [pc EXCEPT ![b] = v] /\ Input(h)
      /\ UNCHANGED <<clock, rows, people, keys, registry, entries, admin, begun, signedIn, given>>
  BY DEF AskCallback, LoginTyped, LoginsTyped, ProvidersTyped
<1>2. v \in Visit /\ v.step = "pick" /\ v.cookie = cookie /\ v.answer = answer
  <2>1. begun[answer].issuer \in Issuers /\ begun[cookie].attempt \in Option(Attempts)
    BY Lengths, TxnFields
  <2> DEFINE i == IF named THEN begun[answer].issuer ELSE NULL
             a == IF cookie \in txns THEN begun[cookie].attempt ELSE NULL
  <2>2. i \in Option(Issuers) /\ a \in Option(Attempts)
    BY <2>1 DEF Option
  <2>3. cookie \in Nat /\ answer \in Nat
    BY Lengths
  <2> HIDE DEF i, a
  <2>4. [step |-> "pick", then |-> "take", now |-> clock, cookie |-> cookie, answer |-> answer,
         ok |-> ok, sub |-> sub, iss |-> i, attempt |-> a, entry |-> 0, client |-> 0,
         key |-> 0, excuse |-> FALSE] \in Visit
    BY <1>1, <2>2, <2>3 DEF Visit
  <2> QED BY <2>4 DEF i, a
<1>3. h \in History /\ h.inputs = history.inputs
  <2> DEFINE o == [id \in Ids |-> IF history.off[id] = NULL THEN NULL ELSE history.off[id] \ {b}]
  <2>1. history.off \in [Ids -> Option(SUBSET Browsers)]
    BY <1>1 DEF History
  <2>2. o \in [Ids -> Option(SUBSET Browsers)]
    BY <2>1 DEF Option
  <2>3. h = [history EXCEPT !.off = o]
    OBVIOUS
  <2> HIDE DEF o, h
  <2> QED BY <1>1, <2>2, <2>3 DEF History
<1> HIDE DEF v, h
<1>4. history' \in History
  BY <1>1, <1>3, InputTyped
<1>5. v \in Requests
  BY <1>2 DEF Requests
<1>6. v.step \notin {"connect", "begin", "take"} \cup Past
  BY <1>2 DEF Past
<1>7. LoginTyped'
  BY <1>1, <1>2, <1>4, <1>5, <1>6, StepTyped
<1>8. pc'[b] = v
  BY <1>1
<1> QED BY <1>2, <1>7, <1>8

LEMMA PickTyped ==
  ASSUME LoginTyped, NEW b \in Browsers, Pick(b)
  PROVE  LoginTyped'
<1> DEFINE r == pc[b]
           id == begun[r.cookie].id
<1>1. /\ pc \in [Browsers -> Requests] /\ r.step = "pick" /\ r \in Visit
      /\ r.cookie \in 1..Len(begun) /\ begun[r.cookie] \in Txn /\ id \in AllIds
  BY Callback, TxnFields DEF Pick, LoginTyped, LoginsTyped
<1>2. CASE /\ Admits(id) /\ pc' = [pc EXCEPT ![b].step = "connect", ![b].entry = registry[id]]
           /\ UNCHANGED <<txns, handoff>>
  <2> DEFINE v == [pc[b] EXCEPT !.step = "connect", !.entry = registry[id]]
  <2>1. registry[id] \in 1..Len(entries) /\ registry[id] \in Nat
    BY <1>1, <1>2, EnabledEntry, Lengths DEF Admits
  <2>2. v \in Visit /\ v.step = "connect" /\ v.entry = registry[id] /\ v.cookie = r.cookie
        /\ v.answer = r.answer
    BY <1>1, <2>1 DEF Visit
  <2>3. pc' = [pc EXCEPT ![b] = v]
    BY <1>2
  <2>4. /\ UNCHANGED <<clock, rows, people, keys, registry, entries, admin, history, begun, signedIn,
                       given>>
        /\ clients' \in Seq(ClientRecord) /\ Len(clients') = Len(clients)
        /\ txns' \subseteq txns /\ handoff' = handoff /\ refused' = refused
    BY <1>2 DEF Pick, providers, LoginTyped, ProvidersTyped
  <2> HIDE DEF v, id
  <2> QED BY <1>1, <2>1, <2>2, <2>3, <2>4, AdvanceTyped
<1>3. CASE txns' = txns \ {r.cookie} /\ Fail(b)
  <2>1. UNCHANGED <<clock, providers, begun, signedIn, given>> /\ refused' = refused
    BY DEF Pick
  <2> QED BY <1>1, <1>3, <2>1, FailTyped DEF LoginTyped, LoginsTyped
<1> QED BY <1>2, <1>3 DEF Pick

LEMMA TakeTyped ==
  ASSUME LoginTyped, NEW b \in Browsers, Take(b)
  PROVE  LoginTyped'
<1>1. pc[b].step = "take" /\ pc[b] \in Visit
  BY Callback DEF Take
<1>2. CASE Go(b, "exchange") /\ UNCHANGED handoff
  <2> DEFINE v == [pc[b] EXCEPT !.step = "exchange"]
  <2>1. v \in Visit /\ v.step = "exchange" /\ v.cookie = pc[b].cookie /\ v.answer = pc[b].answer
        /\ v.client = pc[b].client
    BY <1>1 DEF Visit, Past
  <2>2. pc' = [pc EXCEPT ![b] = v]
    BY <1>2 DEF Go
  <2>3. /\ UNCHANGED <<clock, rows, people, keys, registry, entries, admin, history, begun, signedIn,
                       given>>
        /\ clients' \in Seq(ClientRecord) /\ Len(clients') = Len(clients)
        /\ txns' \subseteq txns /\ handoff' = handoff /\ refused' = refused
    BY <1>2 DEF Take, Taken, providers, LoginTyped, ProvidersTyped
  <2>4. v.step \in Past
    BY <2>1 DEF Past
  <2> HIDE DEF v
  <2> QED BY <1>1, <2>1, <2>2, <2>3, <2>4, AdvanceTyped
<1>3. CASE Fail(b)
  <2>1. UNCHANGED <<clock, providers, begun, signedIn, given>> /\ refused' = refused /\ txns' \subseteq txns
    BY DEF Take, Taken
  <2> QED BY <1>1, <1>3, <2>1, FailTyped DEF LoginTyped, LoginsTyped
<1> QED BY <1>2, <1>3 DEF Take

LEMMA ExchangeTyped ==
  ASSUME LoginTyped, NEW b \in Browsers, Exchange(b)
  PROVE  LoginTyped'
<1> DEFINE c == clients[pc[b].client]
           step == IF keys[c.issuer] = c.key THEN "verify" ELSE "refetch"
<1>1. pc[b].step = "exchange" /\ pc[b].step \in Past
  BY DEF Exchange, Past
<1>2. pc[b] \in Visit /\ pc[b].client \in 1..Len(clients) /\ c \in ClientRecord
  BY <1>1, Callback
<1>3. CASE pc' = [pc EXCEPT ![b].key = keys[c.issuer], ![b].step = step] /\ UNCHANGED handoff
  <2> DEFINE v == [pc[b] EXCEPT !.key = keys[c.issuer], !.step = step]
  <2>1. keys[c.issuer] \in Nat /\ step \in Past
    BY <1>2, ClientFields DEF LoginTyped, ProvidersTyped, Past
  <2> HIDE DEF step, c
  <2>2. v \in Visit /\ v.step = step /\ v.cookie = pc[b].cookie /\ v.answer = pc[b].answer
        /\ v.client = pc[b].client
    BY <1>2, <2>1 DEF Visit
  <2>3. pc' = [pc EXCEPT ![b] = v]
    BY <1>3
  <2>4. /\ UNCHANGED <<clock, rows, people, keys, registry, entries, admin, history, begun, signedIn,
                       given>>
        /\ clients' \in Seq(ClientRecord) /\ Len(clients') = Len(clients)
        /\ txns' \subseteq txns /\ handoff' = handoff /\ refused' = refused
    BY <1>3 DEF Exchange, providers, LoginTyped, ProvidersTyped
  <2> HIDE DEF v
  <2> QED BY <1>1, <2>1, <2>2, <2>3, <2>4, AdvanceTyped
<1>4. CASE Fail(b)
  <2>1. UNCHANGED <<clock, providers, begun, signedIn, given>> /\ refused' = refused /\ txns' \subseteq txns
    BY DEF Exchange
  <2> QED BY <1>2, <1>4, <2>1, FailTyped DEF LoginTyped, LoginsTyped
<1> QED BY <1>3, <1>4 DEF Exchange, step, c

LEMMA RefetchTyped ==
  ASSUME LoginTyped, NEW b \in Browsers, Refetch(b)
  PROVE  LoginTyped'
<1> DEFINE r == pc[b]
           c == clients[r.client]
           recent == c.last # NULL /\ r.now - c.last < RefetchMin
           step == IF recent THEN "verify" ELSE "fetch"
           v == [pc[b] EXCEPT !.step = step, !.excuse = recent]
           d == [c EXCEPT !.last = r.now, !.busy = TRUE]
<1>1. pc[b].step = "refetch" /\ pc[b].step \in Past
  BY DEF Refetch, Past
<1>2. r \in Visit /\ r.client \in 1..Len(clients) /\ c \in ClientRecord /\ r.now \in Nat
  BY <1>1, Callback, VisitFields
<1>3. pc' = [pc EXCEPT ![b] = v] /\ clients' = IF recent THEN clients ELSE [clients EXCEPT ![r.client] = d]
  BY DEF Refetch
<1>4. recent \in BOOLEAN /\ step \in Past
  BY DEF Past
<1>5. d \in ClientRecord
  BY <1>2 DEF ClientRecord, Option
<1> HIDE DEF recent, d
<1>6. clients' \in Seq(ClientRecord) /\ Len(clients') = Len(clients)
  BY <1>2, <1>3, <1>5, Replaced DEF LoginTyped, ProvidersTyped
<1> HIDE DEF step, c
<1>7. v \in Visit /\ v.step = step /\ v.cookie = pc[b].cookie /\ v.answer = pc[b].answer
      /\ v.client = pc[b].client
  BY <1>2, <1>4 DEF Visit
<1>8. /\ UNCHANGED <<clock, rows, people, keys, registry, entries, admin, history, begun, signedIn, given>>
      /\ txns' \subseteq txns /\ handoff' = handoff /\ refused' = refused
  BY DEF Refetch
<1> HIDE DEF v, r
<1> QED BY <1>1, <1>3, <1>4, <1>6, <1>7, <1>8, AdvanceTyped

LEMMA FetchTyped ==
  ASSUME LoginTyped, NEW b \in Browsers, Fetch(b)
  PROVE  LoginTyped'
<1> DEFINE r == pc[b]
           c == clients[r.client]
<1>1. pc[b].step = "fetch" /\ pc[b].step \in Past
  BY DEF Fetch, Past
<1>2. r \in Visit /\ r.client \in 1..Len(clients) /\ c \in ClientRecord
  BY <1>1, Callback
<1>3. PICK worked \in BOOLEAN :
        /\ clients' = [clients EXCEPT ![r.client] = IF worked THEN FetchedKeys(c) ELSE FetchFailed(c)]
        /\ pc' = [pc EXCEPT ![b].step = "verify", ![b].excuse = ~worked]
  BY DEF Fetch
<1> DEFINE v == [pc[b] EXCEPT !.step = "verify", !.excuse = ~worked]
           d == IF worked THEN FetchedKeys(c) ELSE FetchFailed(c)
<1>4. FetchedKeys(c) \in ClientRecord /\ FetchFailed(c) \in ClientRecord
  <2>1. keys[c.issuer] \in Nat
    BY <1>2, ClientFields DEF LoginTyped, ProvidersTyped
  <2> QED BY <1>2, <2>1 DEF ClientRecord, FetchedKeys, FetchFailed
<1>5. d \in ClientRecord
  BY <1>4
<1>6. pc' = [pc EXCEPT ![b] = v] /\ clients' = [clients EXCEPT ![r.client] = d]
  BY <1>3
<1> HIDE DEF d
<1>7. clients' \in Seq(ClientRecord) /\ Len(clients') = Len(clients)
  BY <1>2, <1>5, <1>6, Replaced DEF LoginTyped, ProvidersTyped
<1>8. v \in Visit /\ v.step = "verify" /\ v.cookie = pc[b].cookie /\ v.answer = pc[b].answer
      /\ v.client = pc[b].client
  BY <1>2 DEF Visit, Past
<1>9. /\ UNCHANGED <<clock, rows, people, keys, registry, entries, admin, history, begun, signedIn, given>>
      /\ txns' \subseteq txns /\ handoff' = handoff /\ refused' = refused
  BY DEF Fetch
<1>10. "verify" \in Past
  BY DEF Past
<1> HIDE DEF v, r
<1> QED BY <1>1, <1>6, <1>7, <1>8, <1>9, <1>10, AdvanceTyped

LEMMA VerifyTyped ==
  ASSUME LoginTyped, NEW b \in Browsers, Verify(b)
  PROVE  LoginTyped'
<1>1. pc[b].step = "verify" /\ pc[b].step \in Past
  BY DEF Verify, Past
<1>2. pc[b] \in Visit
  BY <1>1, Callback
<1>3. CASE Go(b, "custody") /\ UNCHANGED <<handoff, refused>>
  <2> DEFINE v == [pc[b] EXCEPT !.step = "custody"]
  <2>1. v \in Visit /\ v.step = "custody" /\ v.cookie = pc[b].cookie /\ v.answer = pc[b].answer
        /\ v.client = pc[b].client
    BY <1>2 DEF Visit, Past
  <2>2. pc' = [pc EXCEPT ![b] = v]
    BY <1>3 DEF Go
  <2>3. /\ UNCHANGED <<clock, rows, people, keys, registry, entries, admin, history, begun, signedIn,
                       given>>
        /\ clients' \in Seq(ClientRecord) /\ Len(clients') = Len(clients)
        /\ txns' \subseteq txns /\ handoff' = handoff /\ refused' = refused
    BY <1>3 DEF Verify, providers, LoginTyped, ProvidersTyped
  <2>4. v.step \in Past
    BY <2>1 DEF Past
  <2> HIDE DEF v
  <2> QED BY <1>1, <2>1, <2>2, <2>3, <2>4, AdvanceTyped
<1>4. CASE /\ Fail(b)
           /\ refused' = IF pc[b].key = clients[pc[b].client].key THEN refused
                         ELSE refused \cup {[excuse |-> pc[b].excuse,
                                             stale |-> pc[b].key # keys[clients[pc[b].client].issuer]]}
  <2>1. UNCHANGED <<clock, providers, begun, signedIn, given>> /\ txns' \subseteq txns
    BY DEF Verify
  <2>2. pc[b].excuse \in BOOLEAN /\ refused \in SUBSET [excuse : BOOLEAN, stale : BOOLEAN]
    BY <1>2, VisitFields DEF LoginTyped, LoginsTyped
  <2> DEFINE stale == pc[b].key # keys[clients[pc[b].client].issuer]
             x == [excuse |-> pc[b].excuse, stale |-> stale]
  <2>3. x \in [excuse : BOOLEAN, stale : BOOLEAN]
    <3>1. stale \in BOOLEAN
      OBVIOUS
    <3> HIDE DEF stale
    <3> QED BY <2>2, <3>1
  <2>4. refused' = refused \/ refused' = refused \cup {x}
    BY <1>4
  <2> HIDE DEF x
  <2>5. refused' \in SUBSET [excuse : BOOLEAN, stale : BOOLEAN]
    BY <2>2, <2>3, <2>4
  <2> QED BY <1>2, <1>4, <2>1, <2>5, FailTyped
<1> QED BY <1>3, <1>4 DEF Verify

LEMMA CustodyTyped ==
  ASSUME LoginTyped, NEW b \in Browsers, StoreCustody(b)
  PROVE  LoginTyped'
<1> DEFINE r == pc[b]
           c == clients[r.client]
           n == history.taken + 1
           p == [kind |-> "custody", id |-> c.id, ns |-> PersonSubject(c.id, r.sub),
                 issuer |-> c.issuer, seq |-> n]
           v == [pc[b] EXCEPT !.step = "create", !.entry = n]
           h == [history EXCEPT !.taken = n]
<1>1. pc[b].step = "custody" /\ pc[b].step \in Past
  BY DEF StoreCustody, Past
<1>2. /\ r \in Visit /\ r.cookie \in 1..Len(begun) /\ r.answer \in 1..Len(begun)
      /\ r.client \in 1..Len(clients) /\ c \in ClientRecord
  BY <1>1, Callback
<1>3. CASE /\ people' = people \cup {p} /\ history' = h /\ pc' = [pc EXCEPT ![b] = v]
           /\ UNCHANGED handoff
  <2>1. history \in History /\ n \in Nat
    <3>1. history \in History
      BY DEF LoginTyped, ProvidersTyped
    <3>2. history.taken \in Nat
      BY <3>1 DEF History
    <3> QED BY <3>1, <3>2
  <2>2. h \in History
    BY <2>1 DEF History
  <2>3. c.id \in AllIds /\ c.issuer \in Issuers /\ r.sub \in Option(Ids)
    BY <1>2, ClientFields, VisitFields
  <2>4. PersonSubject(c.id, r.sub) \in Option(AllIds) /\ c.id \in Option(AllIds)
        /\ c.issuer \in Option(Issuers)
    BY <2>3 DEF PersonSubject, Option, AllIds
  <2> HIDE DEF n, h
  <2>5. p \in Person
    BY <2>1, <2>4 DEF Person
  <2> HIDE DEF p
  <2>6. v \in Visit /\ v.step = "create" /\ v.cookie = r.cookie /\ v.answer = r.answer
        /\ v.client = r.client
    BY <1>2, <2>1 DEF Visit, Past
  <2> HIDE DEF v
  <2>7. v \in Requests /\ v.step # "connect"
    BY <2>6 DEF Requests
  <2>8. /\ UNCHANGED <<clock, rows, keys, registry, admin, given>>
        /\ clients' = clients /\ entries' = entries /\ begun' = begun /\ signedIn' = signedIn
        /\ txns' = txns /\ refused' = refused
    BY <1>3 DEF StoreCustody
  <2>9. /\ people' \in SUBSET Person /\ history' \in History /\ clients' \in Seq(ClientRecord)
        /\ entries' \in Seq(EntryRecord) /\ begun' \in Seq(Txn) /\ signedIn' \in Seq(SessionRecord)
        /\ handoff' \in Held /\ refused' \in SUBSET [excuse : BOOLEAN, stale : BOOLEAN]
        /\ txns' \subseteq 1..Len(begun')
        /\ \A i \in 1..Len(signedIn') : signedIn'[i].txn \in 1..Len(begun')
        /\ \A i \in 1..Len(entries) : entries[i].client \in 0..Len(clients)
    BY <1>3, <2>2, <2>5, <2>8 DEF LoginTyped, LoginsTyped, ProvidersTyped, LoginsPoint, EntriesPoint
  <2>10. Len(clients) <= Len(clients') /\ Len(entries') = Len(entries) /\ Len(begun) <= Len(begun')
    BY <2>8, Lengths
  <2> QED BY <1>2, <1>3, <2>6, <2>7, <2>8, <2>9, <2>10, MoveTyped
<1>4. CASE Fail(b) /\ UNCHANGED <<people, history>>
  <2>1. UNCHANGED <<clock, providers, begun, signedIn, given>> /\ txns' \subseteq txns /\ refused' = refused
    BY <1>4 DEF StoreCustody, providers
  <2> QED BY <1>2, <1>4, <2>1, FailTyped DEF LoginTyped, LoginsTyped
<1> QED BY <1>3, <1>4 DEF StoreCustody

\* The session a login makes.
Made(b) ==
  [txn |-> pc[b].cookie, id |-> clients[pc[b].client].id, answer |-> pc[b].answer, at |-> pc[b].now,
   custody |-> pc[b].entry, attempt |-> begun[pc[b].cookie].attempt, live |-> TRUE,
   door |-> IF clients[pc[b].client].id \notin Ids THEN "open"
            ELSE IF history.off[clients[pc[b].client].id] = NULL THEN "open"
            ELSE IF b \in history.off[clients[pc[b].client].id] THEN "inside" ELSE "shut"]

LEMMA MadeFields ==
  ASSUME LoginTyped, NEW b \in Browsers, MakeSession(b), NEW s, s = Made(b)
  PROVE  /\ s \in SessionRecord
         /\ signedIn' = Append(signedIn, s)
         /\ s.txn = pc[b].cookie /\ s.id = clients[pc[b].client].id /\ s.answer = pc[b].answer
         /\ s.at = pc[b].now /\ s.attempt = begun[pc[b].cookie].attempt
<1>1. pc[b].step = "create" /\ pc[b].step \in Past
  BY DEF MakeSession, Past
<1>2. /\ pc[b] \in Visit /\ pc[b].cookie \in Nat /\ pc[b].answer \in Nat /\ pc[b].now \in Nat
      /\ pc[b].entry \in Nat
      /\ begun[pc[b].cookie].attempt \in Option(Attempts)
      /\ clients[pc[b].client].id \in AllIds
  BY <1>1, Callback, VisitFields, TxnFields, ClientFields
<1>3. signedIn' = Append(signedIn, s)
  BY DEF MakeSession, Made
<1> DEFINE door == IF clients[pc[b].client].id \notin Ids THEN "open"
                   ELSE IF history.off[clients[pc[b].client].id] = NULL THEN "open"
                   ELSE IF b \in history.off[clients[pc[b].client].id] THEN "inside" ELSE "shut"
<1>4. door \in {"open", "inside", "shut"}
  OBVIOUS
<1>5. s = [txn |-> pc[b].cookie, id |-> clients[pc[b].client].id, answer |-> pc[b].answer,
           at |-> pc[b].now, custody |-> pc[b].entry, attempt |-> begun[pc[b].cookie].attempt,
           live |-> TRUE, door |-> door]
  BY DEF Made
<1> HIDE DEF door
<1>6. s \in SessionRecord
  BY <1>2, <1>4, <1>5 DEF SessionRecord
<1> QED BY <1>3, <1>5, <1>6

LEMMA MakeTyped ==
  ASSUME LoginTyped, NEW b \in Browsers, MakeSession(b)
  PROVE  LoginTyped'
<1> DEFINE s == Made(b)
           k == begun[pc[b].cookie].attempt
<1>1. pc[b].step = "create" /\ pc[b].step \in Past
  BY DEF MakeSession, Past
<1>2. /\ pc[b] \in Visit /\ pc[b].now \in Nat /\ pc[b].cookie \in 1..Len(begun)
      /\ k \in Option(Attempts)
  BY <1>1, Callback, VisitFields, TxnFields
<1>3. /\ s \in SessionRecord /\ signedIn' = Append(signedIn, s) /\ s.txn = pc[b].cookie
  BY MadeFields
<1> HIDE DEF s
<1>4. /\ signedIn' \in Seq(SessionRecord) /\ Len(signedIn') = Len(signedIn) + 1
      /\ signedIn'[Len(signedIn')] = s
      /\ \A i \in 1..Len(signedIn) : signedIn'[i] = signedIn[i]
      /\ \A i \in 1..Len(signedIn') : i \in 1..Len(signedIn) \/ i = Len(signedIn')
  BY <1>3, Appended DEF LoginTyped, LoginsTyped
<1>5. /\ UNCHANGED <<clock, rows, keys, registry, admin, given>>
      /\ clients' = clients /\ entries' = entries /\ begun' = begun /\ people' = people
      /\ txns' = txns /\ refused' = refused /\ history' = history
      /\ pc' = [pc EXCEPT ![b] = AtRest]
  BY DEF MakeSession, providers
<1>6. handoff' \in Held
  <2>1. handoff \in Held /\ Len(signedIn) + 1 \in Nat
    BY Lengths DEF LoginTyped, LoginsTyped
  <2>2. CASE k = NULL
    BY <2>1, <2>2 DEF MakeSession
  <2>3. CASE k # NULL
    <3>1. k \in Attempts
      BY <1>2, <2>3 DEF Option
    <3>2. handoff' \in NoteLogin(handoff, k, Len(signedIn) + 1, pc[b].now)
      BY <2>3 DEF MakeSession
    <3> QED BY <1>2, <2>1, <3>1, <3>2, LoginNotes
  <2> QED BY <2>2, <2>3
<1>7. /\ people' \in SUBSET Person /\ history' \in History /\ clients' \in Seq(ClientRecord)
      /\ entries' \in Seq(EntryRecord) /\ begun' \in Seq(Txn)
      /\ refused' \in SUBSET [excuse : BOOLEAN, stale : BOOLEAN]
      /\ txns' \subseteq 1..Len(begun')
      /\ \A i \in 1..Len(entries) : entries[i].client \in 0..Len(clients)
  BY <1>5 DEF LoginTyped, LoginsTyped, ProvidersTyped, LoginsPoint, EntriesPoint
<1>8. \A i \in 1..Len(signedIn') : signedIn'[i].txn \in 1..Len(begun')
  BY <1>2, <1>3, <1>4, <1>5 DEF LoginTyped, LoginsPoint
<1>9. Len(clients) <= Len(clients') /\ Len(entries') = Len(entries) /\ Len(begun) <= Len(begun')
  BY <1>5, Lengths
<1>10. AtRest \in Requests /\ AtRest.step = "idle" /\ AtRest \notin Visit
  <2>1. AtRest \in Requests /\ AtRest.step = "idle"
    BY DEF AtRest, Requests
  <2> QED BY <2>1, StepTells
<1>11. AtRest.step \notin {"connect", "begin", "take"} \cup Past
  BY <1>10 DEF Past
<1> QED BY <1>4, <1>5, <1>6, <1>7, <1>8, <1>9, <1>10, <1>11, MoveTyped

LEMMA AskDesktopTyped ==
  ASSUME LoginTyped, NEW b \in Browsers, NEW k \in Attempts, NEW sid \in 1..Len(signedIn),
         AskDesktop(b, k, sid)
  PROVE  LoginTyped'
<1> DEFINE v == [step |-> "mint", now |-> clock, attempt |-> k, sid |-> sid]
<1>1. clock \in Nat /\ sid \in Nat /\ history \in History
  BY Lengths DEF LoginTyped, LoginsTyped, ProvidersTyped
<1>2. v \in Minting /\ v.step = "mint"
  BY <1>1 DEF Minting
<1>3. pc' = [pc EXCEPT ![b] = v]
  BY DEF AskDesktop
<1> HIDE DEF v
<1>4. v \in Requests /\ v \notin Visit
  <2>1. v \in Requests
    BY <1>2 DEF Requests
  <2> QED BY <1>2, <2>1, StepTells
<1>5. history' \in History
  BY <1>1, InputTyped DEF AskDesktop
<1>6. v.step \notin {"connect", "begin", "take"} \cup Past
  BY <1>2 DEF Past
<1>7. /\ clients' \in Seq(ClientRecord) /\ Len(clients') = Len(clients) /\ txns' \subseteq txns
      /\ handoff' \in Held /\ refused' \in SUBSET [excuse : BOOLEAN, stale : BOOLEAN]
      /\ UNCHANGED <<clock, rows, people, keys, registry, entries, admin, begun, signedIn, given>>
  BY DEF AskDesktop, LoginTyped, LoginsTyped, ProvidersTyped
<1> QED BY <1>3, <1>4, <1>5, <1>6, <1>7, StepTyped

LEMMA MintTyped ==
  ASSUME LoginTyped, NEW b \in Browsers, Mint(b)
  PROVE  LoginTyped'
<1>1. pc[b] \in Minting /\ pc[b].now \in Nat /\ pc[b].sid \in Nat /\ pc[b].attempt \in Attempts
  <2>1. pc[b] \in Requests /\ pc[b].step = "mint"
    BY DEF Mint, LoginTyped, LoginsTyped
  <2>2. pc[b] \in Minting
    BY <2>1, StepTells
  <2> QED BY <2>2 DEF Minting
<1>2. handoff' \in Held
  BY <1>1, FinishNotes DEF Mint, LoginTyped, LoginsTyped
<1>3. /\ pc' = [pc EXCEPT ![b] = AtRest] /\ UNCHANGED <<clock, providers, begun, signedIn, given>>
      /\ txns' \subseteq txns /\ refused' = refused
  BY DEF Mint
<1> QED BY <1>2, <1>3, RestTyped DEF LoginTyped, LoginsTyped

\* Nothing but the handoff, what it gave and the custody of a session moves.
LEMMA RestOfWorldTyped ==
  ASSUME LoginTyped, UNCHANGED <<rows, registry, entries, clients, admin, txns, begun, pc>>,
         clock' \in Nat, people' \in SUBSET Person, keys' \in [Issuers -> Nat], history' \in History,
         signedIn' \in Seq(SessionRecord), Len(signedIn') = Len(signedIn),
         \A i \in 1..Len(signedIn) : signedIn'[i].txn = signedIn[i].txn,
         handoff' \in Held, given' \in SUBSET [attempt : Attempts, sid : Nat],
         refused' \in SUBSET [excuse : BOOLEAN, stale : BOOLEAN]
  PROVE  LoginTyped'
<1>1. ProvidersTyped'
  BY DEF LoginTyped, ProvidersTyped
<1>2. LoginsTyped'
  BY DEF LoginTyped, LoginsTyped
<1>3. EntriesPoint'
  BY DEF LoginTyped, EntriesPoint
<1>4. LoginsPoint'
  <2>1. \A b \in Browsers : Points(b)'
    BY DEF LoginTyped, LoginsPoint, Points
  <2>2. \A i \in 1..Len(signedIn') : signedIn'[i].txn \in 1..Len(begun')
    BY DEF LoginTyped, LoginsPoint
  <2> QED BY <2>1, <2>2 DEF LoginTyped, LoginsPoint
<1> QED BY <1>1, <1>2, <1>3, <1>4 DEF LoginTyped

LEMMA RedeemTyped ==
  ASSUME LoginTyped, NEW k \in Attempts, Redeem(k)
  PROVE  /\ LoginTyped'
         /\ \A j \in Attempts :
              /\ handoff'.logins[j] = handoff.logins[j]
              /\ handoff'.outcomes[j] = handoff.outcomes[j] \/ handoff'.outcomes[j] = NULL
<1> DEFINE end == handoff.outcomes[k]
           o == [handoff.outcomes EXCEPT ![k] = NULL]
<1>1. /\ handoff \in Held /\ history \in History /\ end # NULL /\ clock \in Nat
      /\ handoff' = [handoff EXCEPT !.outcomes = o]
      /\ given \in SUBSET [attempt : Attempts, sid : Nat]
  BY LoginAssumption DEF Redeem, LoginTyped, LoginsTyped, ProvidersTyped
<1>2. history' \in History
  BY <1>1, InputTyped DEF Redeem
<1>3. handoff.outcomes \in [Attempts -> Ending]
  BY <1>1 DEF Held
<1>4. end.sid \in Nat
  BY <1>1, <1>3 DEF Ending, Option
<1>5. o \in [Attempts -> Ending] /\ \A j \in Attempts : o[j] = handoff.outcomes[j] \/ o[j] = NULL
  BY <1>3 DEF Ending, Option
<1> HIDE DEF o
<1>6. handoff' \in Held /\ handoff'.outcomes = o /\ handoff'.logins = handoff.logins
  BY <1>1, <1>5 DEF Held
<1>7. given' \in SUBSET [attempt : Attempts, sid : Nat]
  <2>1. [attempt |-> k, sid |-> end.sid] \in [attempt : Attempts, sid : Nat]
    BY <1>4
  <2>2. given' = given \/ given' = given \cup {[attempt |-> k, sid |-> end.sid]}
    BY DEF Redeem
  <2> HIDE DEF end
  <2> QED BY <1>1, <2>1, <2>2
<1>8. /\ UNCHANGED <<rows, registry, entries, clients, admin, txns, begun, pc>>
      /\ clock' \in Nat /\ people' \in SUBSET Person /\ keys' \in [Issuers -> Nat]
      /\ signedIn' \in Seq(SessionRecord) /\ signedIn' = signedIn
      /\ refused' \in SUBSET [excuse : BOOLEAN, stale : BOOLEAN]
  BY DEF Redeem, LoginTyped, LoginsTyped, ProvidersTyped
<1> QED BY <1>2, <1>5, <1>6, <1>7, <1>8, RestOfWorldTyped

LEMMA ReapTyped ==
  ASSUME LoginTyped, NEW p \in people, Reap(p)
  PROVE  /\ LoginTyped'
         /\ Len(signedIn') = Len(signedIn)
         /\ \A i \in 1..Len(signedIn) :
              /\ signedIn'[i].txn = signedIn[i].txn /\ signedIn'[i].id = signedIn[i].id
              /\ signedIn'[i].answer = signedIn[i].answer /\ signedIn'[i].at = signedIn[i].at
              /\ signedIn'[i].attempt = signedIn[i].attempt
              /\ signedIn'[i].door = signedIn[i].door
<1>1. signedIn \in Seq(SessionRecord) /\ Len(signedIn) \in Nat /\ DOMAIN signedIn = 1..Len(signedIn)
  BY DEF LoginTyped, LoginsTyped
<1> DEFINE t(i) == signedIn[i].live /\ signedIn[i].custody # p.seq
           s(i) == [signedIn[i] EXCEPT !.live = t(i)]
<1>2. signedIn' = [i \in 1..Len(signedIn) |-> s(i)]
  BY <1>1 DEF Reap
<1>3. ASSUME NEW i \in 1..Len(signedIn)
      PROVE  /\ s(i) \in SessionRecord
             /\ s(i).txn = signedIn[i].txn /\ s(i).id = signedIn[i].id
             /\ s(i).answer = signedIn[i].answer /\ s(i).at = signedIn[i].at
             /\ s(i).attempt = signedIn[i].attempt /\ s(i).door = signedIn[i].door
  <2>1. signedIn[i] \in SessionRecord
    BY <1>1
  <2>2. t(i) \in BOOLEAN
    OBVIOUS
  <2> HIDE DEF t
  <2> QED BY <2>1, <2>2 DEF SessionRecord
<1> HIDE DEF s
<1>4. signedIn' \in Seq(SessionRecord) /\ Len(signedIn') = Len(signedIn)
      /\ \A i \in 1..Len(signedIn) : signedIn'[i] = s(i)
  BY <1>1, <1>2, <1>3
<1>5. history' \in History
  <2>1. history \in History
    BY DEF LoginTyped, ProvidersTyped
  <2> QED BY <2>1, InputTyped DEF Reap
<1>6. /\ UNCHANGED <<rows, registry, entries, clients, admin, txns, begun, pc>>
      /\ clock' \in Nat /\ people' \in SUBSET Person /\ keys' \in [Issuers -> Nat] /\ handoff' \in Held
      /\ given' \in SUBSET [attempt : Attempts, sid : Nat]
      /\ refused' \in SUBSET [excuse : BOOLEAN, stale : BOOLEAN]
  BY DEF Reap, LoginTyped, LoginsTyped, ProvidersTyped
<1>7. LoginTyped'
  BY <1>3, <1>4, <1>5, <1>6, RestOfWorldTyped
<1> QED BY <1>3, <1>4, <1>7

LEMMA GrantTyped ==
  ASSUME LoginTyped, NEW id \in Ids, GrantRole(id), UNCHANGED <<clock, logins>>
  PROVE  LoginTyped'
<1> DEFINE n == history.taken + 1
           h == [history EXCEPT !.taken = n]
           i == IF rows[id] = NULL THEN NULL ELSE rows[id].issuer
           p == [kind |-> "grant", id |-> NULL, ns |-> id, seq |-> n, issuer |-> i]
<1>1. /\ history \in History /\ Input(h) /\ people' = people \cup {p}
      /\ rows[id] \in Option(GoodSettings) /\ people \in SUBSET Person
  BY DEF GrantRole, LoginTyped, ProvidersTyped
<1>2. n \in Nat
  BY <1>1 DEF History
<1>3. h \in History /\ h.inputs = history.inputs
  BY <1>1, <1>2 DEF History
<1>4. i \in Option(Issuers) /\ id \in Option(AllIds) /\ NULL \in Option(AllIds)
  BY <1>1, SettingsFields DEF Option, AllIds
<1> HIDE DEF n, h, i
<1>5. p \in Person
  BY <1>2, <1>4 DEF Person
<1> HIDE DEF p
<1>6. history' \in History /\ people' \in SUBSET Person
  BY <1>1, <1>3, <1>5, InputTyped
<1>7. /\ UNCHANGED <<rows, registry, entries, clients, admin, txns, begun, pc>>
      /\ clock' \in Nat /\ keys' \in [Issuers -> Nat] /\ handoff' \in Held
      /\ signedIn' \in Seq(SessionRecord) /\ signedIn' = signedIn
      /\ given' \in SUBSET [attempt : Attempts, sid : Nat]
      /\ refused' \in SUBSET [excuse : BOOLEAN, stale : BOOLEAN]
  BY DEF GrantRole, LoginTyped, LoginsTyped, ProvidersTyped, logins
<1> QED BY <1>6, <1>7, RestOfWorldTyped

LEMMA RotateTyped ==
  ASSUME LoginTyped, NEW i \in Issuers, RotateKey(i), UNCHANGED <<clock, logins>>
  PROVE  /\ LoginTyped'
         /\ \A j \in Issuers : keys[j] \in Nat /\ keys'[j] \in Nat /\ keys[j] <= keys'[j]
<1>1. keys \in [Issuers -> Nat] /\ keys' = [keys EXCEPT ![i] = keys[i] + 1] /\ history \in History
  BY DEF RotateKey, LoginTyped, ProvidersTyped
<1>2. /\ keys' \in [Issuers -> Nat]
      /\ \A j \in Issuers : keys[j] \in Nat /\ keys'[j] \in Nat /\ keys[j] <= keys'[j]
  BY <1>1
<1>3. history' \in History
  BY <1>1, InputTyped DEF RotateKey
<1>4. /\ UNCHANGED <<rows, registry, entries, clients, admin, txns, begun, pc>>
      /\ clock' \in Nat /\ people' \in SUBSET Person /\ handoff' \in Held
      /\ signedIn' \in Seq(SessionRecord) /\ signedIn' = signedIn
      /\ given' \in SUBSET [attempt : Attempts, sid : Nat]
      /\ refused' \in SUBSET [excuse : BOOLEAN, stale : BOOLEAN]
  BY DEF RotateKey, LoginTyped, LoginsTyped, ProvidersTyped, logins
<1> QED BY <1>2, <1>3, <1>4, RestOfWorldTyped

LEMMA TickTyped ==
  ASSUME LoginTyped, ClockTick
  PROVE  LoginTyped'
<1>1. history' \in History /\ clock' \in Nat
  <2>1. history \in History /\ clock \in Nat
    BY DEF LoginTyped, ProvidersTyped, LoginsTyped
  <2> QED BY <2>1, InputTyped DEF ClockTick
<1>2. /\ UNCHANGED <<rows, registry, entries, clients, admin, txns, begun, pc>>
      /\ people' \in SUBSET Person /\ keys' \in [Issuers -> Nat] /\ handoff' \in Held
      /\ signedIn' \in Seq(SessionRecord) /\ signedIn' = signedIn
      /\ given' \in SUBSET [attempt : Attempts, sid : Nat]
      /\ refused' \in SUBSET [excuse : BOOLEAN, stale : BOOLEAN]
  BY DEF ClockTick, LoginTyped, LoginsTyped, ProvidersTyped, logins
<1> QED BY <1>1, <1>2, RestOfWorldTyped

\* Only the administrators' side moves.
LEMMA AdminTyped ==
  ASSUME LoginTyped, UNCHANGED <<people, keys>>, UNCHANGED <<clock, logins>>,
         rows' \in [Ids -> Option(GoodSettings)], registry' \in [AllIds -> Nat],
         entries' \in Seq(EntryRecord), clients' \in Seq(ClientRecord), history' \in History,
         admin' \in [Admins -> {NoRequest} \cup AdminRecord],
         Len(entries) <= Len(entries'), Len(clients) <= Len(clients'), EntriesPoint'
  PROVE  LoginTyped'
<1>1. ProvidersTyped'
  BY DEF LoginTyped, ProvidersTyped
<1>2. LoginsTyped'
  BY DEF LoginTyped, LoginsTyped, logins
<1>3. LoginsPoint'
  <2>1. \A b \in Browsers : Points(b)'
    <3>1. /\ Len(entries') \in Nat /\ Len(clients') \in Nat /\ Len(begun') \in Nat
          /\ Len(begun) <= Len(begun')
      BY Lengths DEF logins
    <3> QED BY <3>1, PointsKept DEF logins
  <2> QED BY <2>1 DEF LoginTyped, LoginsPoint, logins
<1> QED BY <1>1, <1>2, <1>3 DEF LoginTyped

LEMMA AdminMoves ==
  ASSUME admin \in [Admins -> {NoRequest} \cup AdminRecord], NEW a \in Admins,
         NEW r \in {NoRequest} \cup AdminRecord, admin' = [admin EXCEPT ![a] = r]
  PROVE  /\ admin' \in [Admins -> {NoRequest} \cup AdminRecord] /\ admin'[a] = r
         /\ \A b \in Admins : b # a => admin'[b] = admin[b]
OBVIOUS

LEMMA AdminFields ==
  ASSUME NEW r \in {NoRequest} \cup AdminRecord, r.step # "idle"
  PROVE  /\ r \in AdminRecord /\ r.step \in {"prepare", "connect", "apply", "install"}
         /\ r.op \in {"insert", "update", "delete"} /\ r.id \in Ids /\ r.next \in GoodSettings
         /\ r.was \in Option(GoodSettings) /\ r.client \in Nat /\ r.fresh \in BOOLEAN /\ r.seen \in Nat
BY DEF NoRequest, AdminRecord

LEMMA Idle == NoRequest.step = "idle" /\ NoRequest \notin AdminRecord
BY DEF NoRequest, AdminRecord

\* A request is made.
LEMMA AskNotes ==
  ASSUME history \in History, NEW a \in Admins, NEW r \in AdminRecord, Ask(a, r)
  PROVE  /\ history' \in History /\ history'.taken = history.taken
         /\ history'.checked = history.checked /\ history'.off = history.off
         /\ history'.crossed = Crossed(a, r.id)
<1> DEFINE c == Crossed(a, r.id)
           h == [history EXCEPT !.crossed = c]
<1>1. Input(h)
  BY DEF Ask
<1>2. c \in SUBSET Ids
  BY DEF Crossed, History, AdminRecord
<1> HIDE DEF c
<1>3. /\ h \in History /\ h.inputs = history.inputs /\ h.taken = history.taken
      /\ h.checked = history.checked /\ h.off = history.off /\ h.crossed = c
  BY <1>2 DEF History
<1> HIDE DEF h
<1> QED BY <1>1, <1>3, InputTyped DEF c

LEMMA AskTyped ==
  ASSUME LoginTyped, UNCHANGED <<clock, logins>>, NEW a \in Admins, NEW r \in AdminRecord,
         Ask(a, r), r.client \in 0..Len(clients), r.op # "update" => r.fresh
  PROVE  LoginTyped'
<1>1. /\ history \in History /\ admin \in [Admins -> {NoRequest} \cup AdminRecord]
      /\ admin' = [admin EXCEPT ![a] = r]
      /\ UNCHANGED <<rows, people, keys, registry, entries, clients>>
  BY DEF Ask, LoginTyped, ProvidersTyped
<1>2. history' \in History
  BY <1>1, AskNotes
<1>3. /\ admin' \in [Admins -> {NoRequest} \cup AdminRecord] /\ admin'[a] = r
      /\ \A b \in Admins : b # a => admin'[b] = admin[b]
  BY <1>1, AdminMoves
<1>4. EntriesPoint'
  BY <1>1, <1>3 DEF LoginTyped, EntriesPoint
<1> QED BY <1>1, <1>2, <1>3, <1>4, AdminTyped, Lengths DEF LoginTyped, ProvidersTyped

\* What a provider's settings are in the registry.
LEMMA SettingsRead ==
  ASSUME LoginTyped, NEW id \in Ids
  PROVE  /\ Settings(id) \in Option(GoodSettings)
         /\ ConnectedClient(id) \in 0..Len(clients)
         /\ ConnectedClient(id) # 0 =>
               /\ registry[id] \in 1..Len(entries) /\ entries[registry[id]].id = id
               /\ ConnectedClient(id) = entries[registry[id]].client
               /\ Settings(id) = entries[registry[id]].settings
<1>1. registry[id] \in 0..Len(entries) /\ (registry[id] # 0 => entries[registry[id]].id = id)
  BY DEF LoginTyped, EntriesPoint, AllIds
<1>2. CASE registry[id] = 0
  BY <1>2, Lengths DEF Settings, ConnectedClient, Option
<1>3. CASE registry[id] # 0
  <2>1. registry[id] \in 1..Len(entries)
    BY <1>1, <1>3, Lengths
  <2>2. entries[registry[id]].client \in 0..Len(clients)
    BY <2>1 DEF LoginTyped, EntriesPoint
  <2>3. /\ Settings(id) = entries[registry[id]].settings
        /\ ConnectedClient(id) = entries[registry[id]].client
    BY <1>3 DEF Settings, ConnectedClient
  <2>4. entries[registry[id]] \in EntryRecord
    BY <2>1, Lengths
  <2>5. Settings(id) \in Option(GoodSettings)
    BY <2>3, <2>4, EntryFields DEF Option
  <2> QED BY <1>1, <1>3, <2>1, <2>2, <2>3, <2>5
<1> QED BY <1>2, <1>3

LEMMA RequestRecord ==
  ASSUME LoginTyped, NEW step \in {"prepare", "apply"}, NEW op \in {"insert", "update", "delete"},
         NEW id \in Ids, NEW next \in GoodSettings, NEW fresh \in BOOLEAN,
         NEW r, r = Request(step, op, id, next, fresh)
  PROVE  /\ r \in AdminRecord /\ r.step = step /\ r.op = op /\ r.id = id
         /\ r.was = Settings(id) /\ r.next = next /\ r.client = 0
         /\ r.fresh = fresh /\ r.seen = history.taken
<1>1. history.taken \in Nat
  <2>1. history \in History
    BY DEF LoginTyped, ProvidersTyped
  <2> QED BY <2>1 DEF History
<1> DEFINE was == Settings(id)
<1>2. was \in Option(GoodSettings)
  BY SettingsRead
<1>3. r = [step |-> step, op |-> op, id |-> id, was |-> was, next |-> next, client |-> 0,
           fresh |-> fresh, seen |-> history.taken]
  BY DEF Request
<1> HIDE DEF was
<1>4. r \in AdminRecord
  BY <1>1, <1>2, <1>3 DEF AdminRecord
<1> QED BY <1>3, <1>4 DEF was

LEMMA KnownEntry ==
  ASSUME LoginTyped, NEW id \in Ids, Known(Settings(id))
  PROVE  /\ registry[id] \in 1..Len(entries) /\ entries[registry[id]] \in EntryRecord
         /\ entries[registry[id]].id = id /\ Settings(id) = entries[registry[id]].settings
         /\ Settings(id) \in GoodSettings /\ ~ Settings(id).deleted
         /\ entries[registry[id]].client \in 0..Len(clients)
<1>1. Settings(id) # NULL /\ Settings(id).deleted = FALSE
  BY DEF Known
<1>2. registry[id] # 0 /\ Settings(id) = entries[registry[id]].settings
  BY <1>1 DEF Settings
<1>3. registry[id] \in 0..Len(entries) /\ entries[registry[id]].id = id
  BY <1>2 DEF LoginTyped, EntriesPoint, AllIds
<1>4. registry[id] \in 1..Len(entries)
  BY <1>2, <1>3, Lengths
<1>5. entries[registry[id]].client \in 0..Len(clients)
  BY <1>4 DEF LoginTyped, EntriesPoint
<1> QED BY <1>1, <1>2, <1>3, <1>4, <1>5, Lengths, EntryFields

\* A request that is made: what it has read, and what it may still have to check.
Asks(a, id, r) ==
  /\ Ask(a, r) /\ r.id = id /\ r.was = Settings(id) /\ r.client = 0 /\ r.seen = history.taken
  /\ \/ r.step = "prepare" /\ r.op \in {"insert", "update"}
     \/ r.step = "apply" /\ r.op = "delete" /\ r.was # NULL /\ r.next.issuer = r.was.issuer
  /\ r.op = "insert" => r.was = NULL \/ r.was.issuer = r.next.issuer
  /\ r.op = "update" => r.was # NULL
  /\ r.op # "update" => r.fresh
  /\ ~ r.fresh => r.next.cred = r.was.cred

LEMMA CreateAsks ==
  ASSUME LoginTyped, NEW a \in Admins, NEW id \in Ids, NEW i \in Issuers \ {DefaultIssuer},
         NEW e \in BOOLEAN, AskCreate(a, id, i, e)
  PROVE  \E r \in AdminRecord : Asks(a, id, r)
<1> DEFINE next == Configured(i, e)
           fresh == TRUE
           r == Request("prepare", "insert", id, next, fresh)
<1>1. next \in GoodSettings /\ next.issuer = i
  BY ConfiguredGood DEF Configured
<1>2. Ask(a, r) /\ (Settings(id) # NULL => Settings(id).issuer = i)
  BY DEF AskCreate, MayCreate
<1> HIDE DEF next
<1>3. fresh \in BOOLEAN
  OBVIOUS
<1>4. fresh
  OBVIOUS
<1> HIDE DEF fresh
<1>5. /\ r \in AdminRecord /\ r.step = "prepare" /\ r.op = "insert" /\ r.id = id
      /\ r.was = Settings(id) /\ r.next = next /\ r.client = 0 /\ r.fresh = fresh
      /\ r.seen = history.taken
  BY <1>1, <1>3, RequestRecord
<1> HIDE DEF r
<1>6. r.fresh
  BY <1>5, <1>4, Zenon
<1>7. Asks(a, id, r)
  BY <1>1, <1>2, <1>5, <1>6 DEF Asks
<1> QED BY <1>5, <1>7

LEMMA DeleteAsks ==
  ASSUME LoginTyped, NEW a \in Admins, NEW id \in Ids, Known(Settings(id)), AskDelete(a, id)
  PROVE  \E r \in AdminRecord : Asks(a, id, r)
<1> DEFINE next == [Settings(id) EXCEPT !.deleted = TRUE, !.enabled = FALSE, !.cred = 0]
           fresh == TRUE
           r == Request("apply", "delete", id, next, fresh)
<1>1. next \in GoodSettings /\ next.issuer = Settings(id).issuer
  <2>1. Settings(id) \in GoodSettings
    BY KnownEntry
  <2>2. Settings(id) \in SettingsType
    BY <2>1 DEF GoodSettings
  <2>3. next.issuer = Settings(id).issuer
    BY <2>2 DEF SettingsType
  <2> QED BY <2>1, <2>3, DeletedGood
<1>2. Ask(a, r) /\ Settings(id) # NULL
  BY DEF AskDelete, Known
<1> HIDE DEF next
<1>3. fresh \in BOOLEAN
  OBVIOUS
<1>4. fresh
  OBVIOUS
<1> HIDE DEF fresh
<1>5. /\ r \in AdminRecord /\ r.step = "apply" /\ r.op = "delete" /\ r.id = id
      /\ r.was = Settings(id) /\ r.next = next /\ r.client = 0 /\ r.fresh = fresh
      /\ r.seen = history.taken
  BY <1>1, <1>3, RequestRecord
<1> HIDE DEF r
<1>6. r.fresh
  BY <1>5, <1>4, Zenon
<1>7. Asks(a, id, r)
  BY <1>1, <1>2, <1>5, <1>6 DEF Asks
<1> QED BY <1>5, <1>7

LEMMA UpdateAsks ==
  ASSUME LoginTyped, NEW a \in Admins, NEW id \in Ids, Known(Settings(id)),
         NEW next \in Changed(Settings(id)), AskUpdate(a, id, next)
  PROVE  \E r \in AdminRecord : Asks(a, id, r)
<1> DEFINE fresh == next.cred # Settings(id).cred
           r == Request("prepare", "update", id, next, fresh)
<1>1. next \in GoodSettings
  BY KnownEntry, ChangedGood
<1>2. Ask(a, r) /\ Settings(id) # NULL
  BY DEF AskUpdate, Known
<1>3. fresh \in BOOLEAN /\ (~ fresh => next.cred = Settings(id).cred)
  OBVIOUS
<1> HIDE DEF fresh
<1>4. /\ r \in AdminRecord /\ r.step = "prepare" /\ r.op = "update" /\ r.id = id
      /\ r.was = Settings(id) /\ r.next = next /\ r.client = 0 /\ r.fresh = fresh
      /\ r.seen = history.taken
  BY <1>1, <1>3, RequestRecord
<1> HIDE DEF r
<1>5. Asks(a, id, r)
  BY <1>2, <1>3, <1>4 DEF Asks
<1> QED BY <1>4, <1>5

LEMMA AskedTyped ==
  ASSUME LoginTyped, UNCHANGED <<clock, logins>>, NEW a \in Admins, NEW id \in Ids,
         NEW r \in AdminRecord, Asks(a, id, r)
  PROVE  LoginTyped'
<1>1. 0 \in 0..Len(clients)
  BY Lengths
<1> QED BY <1>1, AskTyped DEF Asks

\* The rest of a request up to its first await.
LEMMA AdminPrepares ==
  ASSUME LoginTyped, NEW a \in Admins, AdminPrepare(a)
  PROVE  /\ UNCHANGED <<rows, people, keys, registry, entries, clients, history>>
         /\ admin[a] \in AdminRecord /\ admin[a].step = "prepare" /\ admin[a].id \in Ids
         /\ admin' \in [Admins -> {NoRequest} \cup AdminRecord]
         /\ \A b \in Admins : b # a => admin'[b] = admin[b]
         /\ \/ admin'[a] = NoRequest
            \/ /\ MaySettle(admin[a])
               /\ admin'[a] \in AdminRecord /\ admin'[a].step \in {"connect", "apply"}
               /\ admin'[a].op = admin[a].op /\ admin'[a].id = admin[a].id
               /\ admin'[a].next = admin[a].next /\ admin'[a].fresh = admin[a].fresh
               /\ admin'[a].seen = history.taken
               /\ admin'[a].client \in 0..Len(clients)
               /\ admin'[a].client # 0 => /\ Reusable(admin[a].was, admin[a].next)
                                          /\ admin'[a].client = ConnectedClient(admin[a].id)
<1> DEFINE r == admin[a]
           reusable == r.op = "update" /\ Reusable(r.was, r.next)
           step == IF r.next.enabled /\ ~reusable THEN "connect" ELSE "apply"
           client == IF reusable THEN ConnectedClient(r.id) ELSE 0
<1>1. /\ admin \in [Admins -> {NoRequest} \cup AdminRecord] /\ r.step = "prepare"
      /\ history.taken \in Nat
      /\ UNCHANGED <<rows, people, keys, registry, entries, clients, history>>
  BY DEF AdminPrepare, LoginTyped, ProvidersTyped, History
<1>2. r \in AdminRecord /\ r.id \in Ids
  BY <1>1, AdminFields
<1>3. CASE /\ MaySettle(r)
           /\ admin' = [admin EXCEPT ![a].step = step, ![a].client = client, ![a].seen = history.taken]
  <2>1. step \in {"connect", "apply"}
    OBVIOUS
  <2>2. client \in 0..Len(clients) /\ client \in Nat
    BY <1>2, SettingsRead, Lengths
  <2>3. client # 0 => Reusable(r.was, r.next) /\ client = ConnectedClient(r.id)
    OBVIOUS
  <2> HIDE DEF step, client
  <2> DEFINE q == [r EXCEPT !.step = step, !.client = client, !.seen = history.taken]
  <2>4. /\ q \in AdminRecord /\ q.step = step /\ q.client = client /\ q.seen = history.taken
        /\ q.op = r.op /\ q.id = r.id /\ q.next = r.next /\ q.fresh = r.fresh
    BY <1>1, <1>2, <2>1, <2>2 DEF AdminRecord
  <2>5. admin' = [admin EXCEPT ![a] = q]
    BY <1>3
  <2> HIDE DEF q
  <2>6. /\ admin' \in [Admins -> {NoRequest} \cup AdminRecord] /\ admin'[a] = q
        /\ \A b \in Admins : b # a => admin'[b] = admin[b]
    BY <1>1, <2>4, <2>5, AdminMoves
  <2> QED BY <1>1, <1>2, <1>3, <2>1, <2>2, <2>3, <2>4, <2>6
<1>4. CASE admin' = [admin EXCEPT ![a] = NoRequest]
  BY <1>1, <1>2, <1>4, AdminMoves
<1> QED BY <1>3, <1>4 DEF AdminPrepare

LEMMA AdminPrepareTyped ==
  ASSUME LoginTyped, UNCHANGED <<clock, logins>>, NEW a \in Admins, AdminPrepare(a)
  PROVE  LoginTyped'
<1>1. /\ UNCHANGED <<rows, people, keys, registry, entries, clients, history>>
      /\ admin[a] \in AdminRecord
      /\ admin' \in [Admins -> {NoRequest} \cup AdminRecord]
      /\ \A b \in Admins : b # a => admin'[b] = admin[b]
      /\ \/ admin'[a] = NoRequest
         \/ /\ admin'[a].op = admin[a].op /\ admin'[a].fresh = admin[a].fresh
            /\ admin'[a].client \in 0..Len(clients)
  BY AdminPrepares
<1>2. EntriesPoint
  BY DEF LoginTyped
<1>3. \A b \in Admins : admin'[b] \in AdminRecord =>
         /\ admin'[b].client \in 0..Len(clients')
         /\ admin'[b].op # "update" => admin'[b].fresh
  <2> TAKE b \in Admins
  <2>1. CASE b = a
    BY <1>1, <1>2, <2>1, Idle DEF EntriesPoint
  <2>2. CASE b # a
    BY <1>1, <1>2, <2>2 DEF EntriesPoint
  <2> QED BY <2>1, <2>2
<1>4. EntriesPoint'
  BY <1>1, <1>2, <1>3 DEF EntriesPoint
<1> QED BY <1>1, <1>4, AdminTyped, Lengths DEF LoginTyped, ProvidersTyped

LEMMA AdminConnectTyped ==
  ASSUME LoginTyped, UNCHANGED <<clock, logins>>, NEW a \in Admins, AdminConnect(a)
  PROVE  LoginTyped'
<1> DEFINE r == admin[a]
           n == Len(clients) + 1
           c == Built(r.id, r.next)
<1>1. /\ admin \in [Admins -> {NoRequest} \cup AdminRecord] /\ r.step = "connect"
      /\ keys \in [Issuers -> Nat] /\ clients \in Seq(ClientRecord)
      /\ UNCHANGED <<rows, people, keys, registry, entries, history>>
      /\ EntriesPoint /\ Len(clients) \in Nat
  BY Lengths DEF AdminConnect, LoginTyped, ProvidersTyped
<1>2. r \in AdminRecord /\ r.id \in AllIds /\ r.next \in GoodSettings
  BY <1>1, AdminFields DEF AllIds
<1>3. CASE clients' = Append(clients, c)
           /\ admin' = [admin EXCEPT ![a].step = "apply", ![a].client = Len(clients) + 1]
  <2> DEFINE q == [r EXCEPT !.step = "apply", !.client = n]
  <2>1. q \in AdminRecord /\ q.client = n /\ q.op = r.op /\ q.fresh = r.fresh
    <3>1. n \in Nat
      BY <1>1
    <3> HIDE DEF n
    <3> QED BY <1>1, <1>2, <3>1 DEF AdminRecord
  <2>2. admin' = [admin EXCEPT ![a] = q]
    BY <1>3
  <2> HIDE DEF q
  <2>3. /\ admin' \in [Admins -> {NoRequest} \cup AdminRecord] /\ admin'[a] = q
        /\ \A b \in Admins : b # a => admin'[b] = admin[b]
    BY <1>1, <2>1, <2>2, AdminMoves
  <2>4. c \in ClientRecord
    BY <1>1, <1>2, BuiltRecord
  <2> HIDE DEF c
  <2>5. clients' \in Seq(ClientRecord) /\ Len(clients') = n /\ Len(clients) <= Len(clients')
        /\ 0..Len(clients) \subseteq 0..Len(clients') /\ n \in 0..Len(clients')
    BY <1>1, <1>3, <2>4
  <2>6. EntriesPoint'
    <3>1. \A b \in Admins : admin'[b] \in AdminRecord =>
             /\ admin'[b].client \in 0..Len(clients')
             /\ admin'[b].op # "update" => admin'[b].fresh
      <4> TAKE b \in Admins
      <4>1. CASE b = a
        BY <1>1, <1>2, <2>1, <2>3, <2>5, <4>1 DEF EntriesPoint
      <4>2. CASE b # a
        BY <1>1, <2>3, <2>5, <4>2 DEF EntriesPoint
      <4> QED BY <4>1, <4>2
    <3>2. \A i \in 1..Len(entries') : entries'[i].client \in 0..Len(clients')
      BY <1>1, <2>5 DEF EntriesPoint
    <3> QED BY <1>1, <3>1, <3>2 DEF EntriesPoint
  <2> QED BY <1>1, <2>3, <2>5, <2>6, AdminTyped, Lengths DEF LoginTyped, ProvidersTyped
<1>4. CASE admin' = [admin EXCEPT ![a] = NoRequest] /\ UNCHANGED clients
  <2>1. /\ admin' \in [Admins -> {NoRequest} \cup AdminRecord] /\ admin'[a] = NoRequest
        /\ \A b \in Admins : b # a => admin'[b] = admin[b]
    BY <1>1, <1>4, AdminMoves
  <2>2. EntriesPoint'
    BY <1>1, <1>4, <2>1, Idle DEF EntriesPoint
  <2> QED BY <1>1, <1>4, <2>1, <2>2, AdminTyped, Lengths DEF LoginTyped, ProvidersTyped
<1> QED BY <1>3, <1>4 DEF AdminConnect

\* The row that is written, and what the history says of it.
LEMMA ApplyWrites ==
  ASSUME LoginTyped, NEW a \in Admins, admin[a].step = "apply", Writes(admin[a])
  PROVE  /\ Written(admin[a]) \in GoodSettings
         /\ Written(admin[a]).issuer = admin[a].next.issuer
         /\ admin[a].fresh \/ admin[a].next.cred = rows[admin[a].id].cred
               => Written(admin[a]) = admin[a].next
<1> DEFINE r == admin[a]
           s == r.next
           c == IF r.fresh THEN s.cred ELSE rows[r.id].cred
<1>1. /\ r \in AdminRecord /\ r.id \in Ids /\ s \in GoodSettings /\ r.fresh \in BOOLEAN
  BY AdminFields DEF LoginTyped, ProvidersTyped
<1>2. r.op # "update" => r.fresh
  BY <1>1 DEF LoginTyped, EntriesPoint
<1>3. Written(r) = [s EXCEPT !.cred = c]
  BY DEF Written
<1>4. s \in SettingsType
  BY <1>1 DEF GoodSettings
<1>5. [s EXCEPT !.cred = s.cred] = s
  BY <1>4 DEF SettingsType
<1>6. CASE r.fresh
  <2>1. Written(r) = s
    BY <1>3, <1>5, <1>6
  <2> QED BY <1>1, <2>1
<1>7. CASE ~ r.fresh
  <2>1. r.op = "update"
    BY <1>2, <1>7
  <2>2. Known(rows[r.id])
    BY <2>1 DEF Writes
  <2>3. rows[r.id] \in GoodSettings /\ ~ rows[r.id].deleted
    BY <1>1, <2>2 DEF LoginTyped, ProvidersTyped, Known, Option
  <2>4. rows[r.id].cred \in 1..2 /\ c = rows[r.id].cred
    BY <1>7, <2>3, SettingsFields
  <2> HIDE DEF c, s
  <2>5. [s EXCEPT !.cred = c] \in GoodSettings
    BY <1>1, <2>4, WrittenGood
  <2>6. [s EXCEPT !.cred = c].issuer = s.issuer
    BY <1>4 DEF SettingsType
  <2>7. r.next.cred = rows[r.id].cred => Written(r) = s
    BY <1>3, <1>5, <2>4 DEF s
  <2> QED BY <1>3, <1>7, <2>5, <2>6, <2>7 DEF s
<1> QED BY <1>6, <1>7

LEMMA AdminApplyTyped ==
  ASSUME LoginTyped, UNCHANGED <<clock, logins>>, NEW a \in Admins, AdminApply(a)
  PROVE  LoginTyped'
<1> DEFINE r == admin[a]
<1>1. /\ admin \in [Admins -> {NoRequest} \cup AdminRecord] /\ r.step = "apply"
      /\ history \in History /\ rows \in [Ids -> Option(GoodSettings)]
      /\ UNCHANGED <<people, keys, registry, entries, clients>>
      /\ EntriesPoint
  BY DEF AdminApply, LoginTyped, ProvidersTyped
<1>2. r \in AdminRecord /\ r.id \in Ids /\ r.seen \in Nat
  BY <1>1, AdminFields
<1>3. CASE /\ Writes(r)
           /\ rows' = [rows EXCEPT ![r.id] = Written(r)]
           /\ admin' = [admin EXCEPT ![a].step = "install"]
           /\ \E settled \in BOOLEAN :
                history' = [history EXCEPT !.checked[r.id] = IF settled THEN r.seen ELSE @,
                                           !.off[r.id] = IF r.next.enabled THEN NULL ELSE @]
  <2> DEFINE q == [r EXCEPT !.step = "install"]
  <2>1. q \in AdminRecord /\ q.client = r.client /\ q.op = r.op /\ q.fresh = r.fresh
    BY <1>1, <1>2 DEF AdminRecord
  <2>2. admin' = [admin EXCEPT ![a] = q]
    BY <1>3
  <2> HIDE DEF q
  <2>3. /\ admin' \in [Admins -> {NoRequest} \cup AdminRecord] /\ admin'[a] = q
        /\ \A b \in Admins : b # a => admin'[b] = admin[b]
    BY <1>1, <2>1, <2>2, AdminMoves
  <2>4. rows' \in [Ids -> Option(GoodSettings)]
    <3>1. Written(r) \in Option(GoodSettings)
      BY <1>1, <1>3, ApplyWrites DEF Option
    <3> QED BY <1>1, <1>2, <1>3, <3>1
  <2>5. history' \in History
    <3>1. PICK settled \in BOOLEAN :
            history' = [history EXCEPT !.checked[r.id] = IF settled THEN r.seen ELSE @,
                                       !.off[r.id] = IF r.next.enabled THEN NULL ELSE @]
      BY <1>3
    <3> DEFINE m == IF settled THEN r.seen ELSE history.checked[r.id]
               n == IF r.next.enabled THEN NULL ELSE history.off[r.id]
               k == [history.checked EXCEPT ![r.id] = m]
               o == [history.off EXCEPT ![r.id] = n]
    <3>2. /\ history.checked \in [Ids -> Nat] /\ history.off \in [Ids -> Option(SUBSET Browsers)]
      BY <1>1 DEF History
    <3>3. m \in Nat /\ n \in Option(SUBSET Browsers)
      BY <1>2, <3>2 DEF Option
    <3>4. history' = [history EXCEPT !.checked = k, !.off = o]
      BY <1>1, <3>1 DEF History
    <3> HIDE DEF m, n
    <3>5. k \in [Ids -> Nat] /\ o \in [Ids -> Option(SUBSET Browsers)]
      BY <1>2, <3>2, <3>3
    <3> HIDE DEF k, o
    <3> QED BY <1>1, <3>4, <3>5 DEF History
  <2>6. EntriesPoint'
    <3>1. \A b \in Admins : admin'[b] \in AdminRecord =>
             /\ admin'[b].client \in 0..Len(clients')
             /\ admin'[b].op # "update" => admin'[b].fresh
      <4> TAKE b \in Admins
      <4>1. CASE b = a
        BY <1>1, <1>2, <2>1, <2>3, <4>1 DEF EntriesPoint
      <4>2. CASE b # a
        BY <1>1, <2>3, <4>2 DEF EntriesPoint
      <4> QED BY <4>1, <4>2
    <3> QED BY <1>1, <3>1 DEF EntriesPoint
  <2> QED BY <1>1, <2>3, <2>4, <2>5, <2>6, AdminTyped, Lengths DEF LoginTyped, ProvidersTyped
<1>4. CASE admin' = [admin EXCEPT ![a] = NoRequest] /\ UNCHANGED <<rows, history>>
  <2>1. /\ admin' \in [Admins -> {NoRequest} \cup AdminRecord] /\ admin'[a] = NoRequest
        /\ \A b \in Admins : b # a => admin'[b] = admin[b]
    BY <1>1, <1>4, AdminMoves
  <2>2. EntriesPoint'
    BY <1>1, <1>4, <2>1, Idle DEF EntriesPoint
  <2> QED BY <1>1, <1>4, <2>1, <2>2, AdminTyped, Lengths DEF LoginTyped, ProvidersTyped
<1> QED BY <1>3, <1>4 DEF AdminApply

LEMMA AdminInstallTyped ==
  ASSUME LoginTyped, UNCHANGED <<clock, logins>>, NEW a \in Admins,
         NEW inside \in SUBSET Browsers, AdminInstall(a, inside)
  PROVE  LoginTyped'
<1> DEFINE r == admin[a]
           e == Entry(r.id, r.next, r.client)
           n == Len(entries) + 1
<1>1. /\ admin \in [Admins -> {NoRequest} \cup AdminRecord] /\ r.step = "install"
      /\ history \in History /\ registry \in [AllIds -> Nat] /\ entries \in Seq(EntryRecord)
      /\ entries' = Append(entries, e) /\ registry' = [registry EXCEPT ![r.id] = n]
      /\ admin' = [admin EXCEPT ![a] = NoRequest]
      /\ UNCHANGED <<rows, people, keys, clients>>
      /\ EntriesPoint /\ Len(entries) \in Nat
  BY Lengths DEF AdminInstall, LoginTyped, ProvidersTyped
<1>2. /\ r \in AdminRecord /\ r.id \in Ids /\ r.id \in AllIds /\ r.next \in GoodSettings /\ r.client \in Nat
      /\ r.client \in 0..Len(clients)
  BY <1>1, AdminFields DEF AllIds, EntriesPoint
<1>3. e \in EntryRecord /\ e.id = r.id /\ e.client = r.client /\ e.settings = r.next
  BY <1>2 DEF Entry, EntryRecord
<1> HIDE DEF e
<1>4. /\ entries' \in Seq(EntryRecord) /\ Len(entries') = n /\ entries'[n] = e
      /\ \A i \in 1..Len(entries) : entries'[i] = entries[i]
      /\ \A i \in 1..Len(entries') : i \in 1..Len(entries) \/ i = n
  BY <1>1, <1>3, Appended
<1>5. n \in Nat /\ n # 0 /\ Len(entries) <= n /\ n \in 1..n
  BY <1>1
<1>6. /\ registry' \in [AllIds -> Nat] /\ registry'[r.id] = n
      /\ \A id \in AllIds : id # r.id => registry'[id] = registry[id]
  BY <1>1, <1>2, <1>5
<1>7. /\ admin' \in [Admins -> {NoRequest} \cup AdminRecord] /\ admin'[a] = NoRequest
      /\ \A b \in Admins : b # a => admin'[b] = admin[b]
  BY <1>1, AdminMoves
<1>8. history' \in History
  <2> DEFINE m == IF r.next.enabled THEN NULL ELSE IF history.off[r.id] = NULL THEN inside ELSE history.off[r.id]
             o == [history.off EXCEPT ![r.id] = m]
  <2>1. history.off \in [Ids -> Option(SUBSET Browsers)]
    BY <1>1 DEF History
  <2>2. m \in Option(SUBSET Browsers)
    BY <1>2, <2>1 DEF Option
  <2>3. history' = [history EXCEPT !.off = o]
    BY <1>1 DEF AdminInstall, History
  <2> HIDE DEF m
  <2>4. o \in [Ids -> Option(SUBSET Browsers)]
    BY <1>2, <2>1, <2>2
  <2> HIDE DEF o
  <2> QED BY <1>1, <2>3, <2>4 DEF History
<1>9. EntriesPoint'
  <2>1. \A id \in AllIds : registry'[id] \in 0..Len(entries')
    BY <1>1, <1>4, <1>5, <1>6 DEF EntriesPoint
  <2>2. \A id \in AllIds : registry'[id] # 0 => entries'[registry'[id]].id = id
    <3> TAKE id \in AllIds
    <3>1. CASE id = r.id
      BY <1>3, <1>4, <1>6, <3>1
    <3>2. CASE id # r.id
      <4>1. registry'[id] = registry[id] /\ registry[id] \in 0..Len(entries)
            /\ (registry[id] # 0 => entries[registry[id]].id = id)
        BY <1>1, <1>6, <3>2 DEF EntriesPoint
      <4>2. registry[id] # 0 => entries'[registry[id]] = entries[registry[id]]
        BY <1>1, <1>4, <4>1
      <4> QED BY <4>1, <4>2
    <3> QED BY <3>1, <3>2
  <2>3. \A i \in 1..Len(entries') : entries'[i].client \in 0..Len(clients')
    BY <1>1, <1>2, <1>3, <1>4 DEF EntriesPoint
  <2>4. \A b \in Admins : admin'[b] \in AdminRecord =>
             /\ admin'[b].client \in 0..Len(clients')
             /\ admin'[b].op # "update" => admin'[b].fresh
    BY <1>1, <1>7, Idle DEF EntriesPoint
  <2> QED BY <2>1, <2>2, <2>3, <2>4 DEF EntriesPoint
<1>10. rows' \in [Ids -> Option(GoodSettings)] /\ clients' \in Seq(ClientRecord) /\ clients' = clients
       /\ Len(clients) <= Len(clients')
  BY <1>1, Lengths DEF LoginTyped, ProvidersTyped
<1>11. Len(entries) <= Len(entries')
  BY <1>4, <1>5
<1> QED BY <1>1, <1>4, <1>6, <1>7, <1>8, <1>9, <1>10, <1>11, AdminTyped

LEMMA RestartTyped ==
  ASSUME LoginTyped, Restart
  PROVE  /\ LoginTyped'
         /\ \A b \in Browsers : pc'[b].step = "idle"
         /\ \A id \in Ids : Settings(id)' = rows'[id]
         /\ \A i \in 1..Len(entries') : \/ entries'[i].client = 0
                                       \/ entries'[i] = BootEntry
<1> DEFINE c == [id |-> Default, issuer |-> DefaultIssuer, cred |-> 1, key |-> keys[DefaultIssuer],
                 last |-> NULL, busy |-> FALSE]
           h == [history EXCEPT !.off = [id \in Ids |-> IF rows[id] # NULL /\ ~rows[id].enabled
                                                        THEN {} ELSE NULL]]
<1>1. /\ rows \in [Ids -> Option(GoodSettings)] /\ keys \in [Issuers -> Nat] /\ history \in History
      /\ Input(h) /\ entries' = BootEntries(rows) /\ registry' = BootRegistry(entries')
      /\ clients' = << c >> /\ admin' = [b \in Admins |-> NoRequest]
      /\ txns' = {} /\ handoff' = EmptyHeld /\ pc' = [b \in Browsers |-> AtRest]
      /\ UNCHANGED <<clock, rows, people, keys, begun, signedIn, given, refused>>
  BY DEF Restart, LoginTyped, ProvidersTyped, BootClients
<1>2. /\ entries' \in Seq(EntryRecord)
      /\ registry' \in [AllIds -> Nat]
      /\ \A id \in AllIds : registry'[id] \in 0..Len(entries')
                              /\ (registry'[id] # 0 => entries'[registry'[id]].id = id)
      /\ \A i \in 1..Len(entries') :
              \/ entries'[i].client = 0
              \/ entries'[i] = BootEntry
      /\ \A id \in Ids : (IF registry'[id] = 0 THEN NULL ELSE entries'[registry'[id]].settings) = rows[id]
  <2>1. \A st \in [Ids -> Option(GoodSettings)] : BootsTo(st, BootEntries(st), BootRegistry(BootEntries(st)))
    BY Booted
  <2>2. BootsTo(rows, entries', registry')
    BY <1>1, <2>1
  <2> QED BY <2>2 DEF BootsTo
<1>3. c \in ClientRecord
  BY <1>1, ProvidersAssumption DEF ClientRecord, Option, AllIds
<1> HIDE DEF c
<1>4. clients' \in Seq(ClientRecord) /\ Len(clients') = 1
  BY <1>1, <1>3
<1>5. history' \in History
  <2> DEFINE o == [id \in Ids |-> IF rows[id] # NULL /\ ~rows[id].enabled THEN {} ELSE NULL]
  <2>1. o \in [Ids -> Option(SUBSET Browsers)]
    BY DEF Option
  <2>2. h = [history EXCEPT !.off = o]
    OBVIOUS
  <2> HIDE DEF o, h
  <2>3. h \in History /\ h.inputs = history.inputs
    BY <1>1, <2>1, <2>2 DEF History
  <2> QED BY <1>1, <2>3, InputTyped
<1>6. admin' \in [Admins -> {NoRequest} \cup AdminRecord] /\ \A b \in Admins : admin'[b] = NoRequest
  BY <1>1
<1>7. AtRest \in Requests /\ AtRest.step = "idle" /\ AtRest \notin Visit
  <2>1. AtRest \in Requests /\ AtRest.step = "idle"
    BY DEF AtRest, Requests
  <2> QED BY <2>1, StepTells
<1>8. pc' \in [Browsers -> Requests] /\ \A b \in Browsers : pc'[b] = AtRest
  BY <1>1, <1>7
<1>9. ProvidersTyped'
  BY <1>1, <1>2, <1>4, <1>5, <1>6 DEF LoginTyped, ProvidersTyped
<1>10. LoginsTyped'
  BY <1>1, <1>8, EmptyIsHeld DEF LoginTyped, LoginsTyped
<1>11. EntriesPoint'
  <2>1. \A i \in 1..Len(entries') : entries'[i].client \in 0..Len(clients')
    <3>1. 0 \in 0..Len(clients') /\ 1 \in 0..Len(clients')
      BY <1>4
    <3> QED BY <1>2, <3>1, BootEntryFields
  <2> QED BY <1>2, <1>6, <2>1, Idle DEF EntriesPoint
<1>12. LoginsPoint'
  <2>1. \A b \in Browsers : Points(b)'
    BY <1>7, <1>8 DEF Points, Past
  <2>2. \A i \in 1..Len(signedIn') : signedIn'[i].txn \in 1..Len(begun')
    BY <1>1 DEF LoginTyped, LoginsPoint
  <2> QED BY <1>1, <2>1, <2>2 DEF LoginsPoint
<1>13. \A id \in Ids : Settings(id)' = rows'[id]
  BY <1>1, <1>2 DEF Settings
<1> QED BY <1>2, <1>7, <1>8, <1>9, <1>10, <1>11, <1>12, <1>13 DEF LoginTyped

LEMMA InitTyped ==
  ASSUME LoginInit
  PROVE  /\ LoginTyped
         /\ \A b \in Browsers : pc[b] = AtRest
         /\ \A id \in Ids : Settings(id) = rows[id]
         /\ \A i \in 1..Len(entries) : \/ entries[i].client = 0
                                      \/ entries[i] = BootEntry
         /\ Len(begun) = 1 /\ begun[1].id = Default /\ begun[1].at = 0 /\ begun[1].attempt = NULL
         /\ Len(signedIn) = 1
         /\ signedIn[1] = [txn |-> 1, id |-> Default, answer |-> 1, at |-> 0, custody |-> 1,
                           attempt |-> NULL, live |-> TRUE, door |-> "open"]
<1> DEFINE c == [id |-> Default, issuer |-> DefaultIssuer, cred |-> 1, key |-> [i \in Issuers |-> 1][DefaultIssuer],
                 last |-> NULL, busy |-> FALSE]
           t == [id |-> Default, issuer |-> DefaultIssuer, attempt |-> NULL, at |-> 0]
           s == [txn |-> 1, id |-> Default, answer |-> 1, at |-> 0, custody |-> 1,
                 attempt |-> NULL, live |-> TRUE, door |-> "open"]
           p == [kind |-> "custody", id |-> Default, ns |-> NULL, issuer |-> DefaultIssuer, seq |-> 1]
<1>1. /\ keys \in {[i \in Issuers |-> n] : n \in 1..MaxKeys}
      /\ rows \in [Ids -> {NULL} \cup {Configured(i, TRUE) : i \in Issuers \ {DefaultIssuer}}]
      /\ people = {p} /\ entries = BootEntries(rows) /\ registry = BootRegistry(entries)
      /\ clients = << c >> /\ admin = [a \in Admins |-> NoRequest]
      /\ history = [inputs |-> 0, taken |-> 1, checked |-> [id \in Ids |-> 0], off |-> [id \in Ids |-> NULL],
                   crossed |-> {}]
      /\ clock = 0 /\ txns = {} /\ begun = << t >> /\ signedIn = << s >>
      /\ pc = [b \in Browsers |-> AtRest] /\ handoff = EmptyHeld /\ given = {} /\ refused = {}
  BY DEF LoginInit, ProvidersInit, BootClients, Before
<1>2. /\ DefaultIssuer \in Issuers /\ Default \in AllIds /\ MaxInputs \in Nat /\ MaxKeys \in Nat
      /\ NULL \in Option(Attempts) /\ NULL \in Option(Nat)
  BY ProvidersAssumption DEF AllIds, Option
<1>3. c \in ClientRecord /\ t \in Txn /\ p \in Person
  BY <1>2 DEF ClientRecord, Txn, Person, Option
<1>4. s \in SessionRecord
  <2>1. TRUE \in BOOLEAN /\ 1 \in Nat /\ 0 \in Nat
    OBVIOUS
  <2> QED BY <1>2, <2>1, Zenon DEF SessionRecord
<1>5. rows \in [Ids -> Option(GoodSettings)]
  <2>1. \A i \in Issuers \ {DefaultIssuer} : Configured(i, TRUE) \in GoodSettings
    BY ConfiguredGood
  <2>2. ASSUME NEW id \in Ids PROVE rows[id] \in Option(GoodSettings)
    <3>1. rows[id] \in {NULL} \cup {Configured(i, TRUE) : i \in Issuers \ {DefaultIssuer}}
      BY <1>1
    <3> QED BY <2>1, <3>1 DEF Option
  <2> QED BY <1>1, <2>2
<1>6. /\ entries \in Seq(EntryRecord) /\ registry \in [AllIds -> Nat]
      /\ \A id \in AllIds : registry[id] \in 0..Len(entries)
                              /\ (registry[id] # 0 => entries[registry[id]].id = id)
      /\ \A i \in 1..Len(entries) :
              \/ entries[i].client = 0
              \/ entries[i] = BootEntry
      /\ \A id \in Ids : (IF registry[id] = 0 THEN NULL ELSE entries[registry[id]].settings) = rows[id]
  <2>1. \A st \in [Ids -> Option(GoodSettings)] : BootsTo(st, BootEntries(st), BootRegistry(BootEntries(st)))
    BY Booted
  <2>2. BootsTo(rows, entries, registry)
    BY <1>1, <1>5, <2>1
  <2> QED BY <2>2 DEF BootsTo
<1>7. keys \in [Issuers -> Nat]
  BY <1>1, <1>2
<1>8. history \in History
  <2>1. [id \in Ids |-> 0] \in [Ids -> Nat] /\ [id \in Ids |-> NULL] \in [Ids -> Option(SUBSET Browsers)]
    BY DEF Option
  <2>2. 0 \in 0..MaxInputs
    BY <1>2
  <2> QED BY <1>1, <2>1, <2>2 DEF History
<1>9. AtRest \in Requests /\ AtRest.step = "idle" /\ AtRest \notin Visit
  <2>1. AtRest \in Requests /\ AtRest.step = "idle"
    BY DEF AtRest, Requests
  <2> QED BY <2>1, StepTells
<1>10. pc \in [Browsers -> Requests] /\ \A b \in Browsers : pc[b] = AtRest
  BY <1>1, <1>9
<1>11. /\ Len(begun) = 1 /\ begun[1] = t /\ begun \in Seq(Txn)
       /\ Len(signedIn) = 1 /\ signedIn[1] = s /\ signedIn \in Seq(SessionRecord)
       /\ clients \in Seq(ClientRecord) /\ Len(clients) = 1
  <2> HIDE DEF c, s, t
  <2> QED BY <1>1, <1>3, <1>4
<1>12. ProvidersTyped
  <2> HIDE DEF p
  <2> QED BY <1>1, <1>3, <1>5, <1>6, <1>7, <1>8, <1>11 DEF ProvidersTyped
<1>13. LoginsTyped
  BY <1>1, <1>10, <1>11, EmptyIsHeld DEF LoginsTyped
<1>14. EntriesPoint
  <2>1. \A i \in 1..Len(entries) : entries[i].client \in 0..Len(clients)
    <3>1. 0 \in 0..Len(clients) /\ 1 \in 0..Len(clients)
      BY <1>11
    <3> QED BY <1>6, <3>1, BootEntryFields
  <2> QED BY <1>1, <1>6, <2>1, Idle DEF EntriesPoint
<1>15. LoginsPoint
  <2>1. \A b \in Browsers : Points(b)
    BY <1>9, <1>10 DEF Points, Past
  <2>2. s.txn = 1
    OBVIOUS
  <2> HIDE DEF s
  <2> QED BY <1>1, <1>11, <2>1, <2>2 DEF LoginsPoint
<1>16. \A id \in Ids : Settings(id) = rows[id]
  BY <1>6 DEF Settings
<1>17. t.id = Default /\ t.at = 0 /\ t.attempt = NULL
  OBVIOUS
<1>18. LoginTyped
  BY <1>12, <1>13, <1>14, <1>15 DEF LoginTyped
<1>19. begun[1].id = Default /\ begun[1].at = 0 /\ begun[1].attempt = NULL
  BY <1>11, <1>17
<1>20. \A i \in 1..Len(entries) : \/ entries[i].client = 0
                                  \/ entries[i] = BootEntry
  BY <1>6
<1> QED BY <1>10, <1>11, <1>16, <1>18, <1>19, <1>20

\* The steps there are.
LEMMA Steps ==
  ASSUME [LoginNext]_loginVars
  PROVE  \/ \E b \in Browsers : ServeBrowser(b)
         \/ /\ UNCHANGED <<clock, logins>>
            /\ \/ \E a \in Admins : AdminNext([id \in Ids |-> Inside(id)])
               \/ \E id \in Ids : GrantRole(id)
               \/ \E i \in Issuers : RotateKey(i)
         \/ \E k \in Attempts : Redeem(k)
         \/ \E p \in people : Reap(p)
         \/ ClockTick \/ Restart
         \/ UNCHANGED loginVars
BY DEF LoginNext, AdminNext

\* What a request served at once may be.
LEMMA Served ==
  ASSUME LoginTyped, NEW b \in Browsers, ServeBrowser(b)
  PROVE  \/ \E want \in Option(AllIds), k \in Option(Attempts) : AskLogin(b, want, k)
         \/ Connect(b) \/ BeginLogin(b)
         \/ \E cookie, answer \in 1..Len(begun), ok, named \in BOOLEAN, sub \in Option(Ids) :
              AskCallback(b, cookie, answer, ok, sub, named)
         \/ Pick(b) \/ Take(b) \/ Exchange(b) \/ Refetch(b) \/ Fetch(b) \/ Verify(b)
         \/ StoreCustody(b) \/ MakeSession(b)
         \/ \E k \in Attempts, sid \in 1..Len(signedIn) : AskDesktop(b, k, sid)
         \/ Mint(b)
<1>1. DOMAIN begun = 1..Len(begun) /\ DOMAIN signedIn = 1..Len(signedIn)
  BY DEF LoginTyped, LoginsTyped
<1>2. \A i : Spellings(i) \subseteq Option(Ids)
  BY DEF Spellings, Option
<1>3. /\ Option(AllIds) = {NULL} \cup AllIds /\ Option(Attempts) = {NULL} \cup Attempts
  BY DEF Option
<1>4. ASSUME \E want \in {NULL} \cup AllIds, k \in {NULL} \cup Attempts : AskLogin(b, want, k)
      PROVE  \E want \in Option(AllIds), k \in Option(Attempts) : AskLogin(b, want, k)
  BY <1>3, <1>4
<1>5. ASSUME NEW cookie \in DOMAIN begun, NEW answer \in DOMAIN begun, NEW ok \in BOOLEAN,
             NEW named \in BOOLEAN, NEW sub \in Spellings(begun[answer].issuer),
             AskCallback(b, cookie, answer, ok, sub, named)
      PROVE  \E d, e \in 1..Len(begun), o, m \in BOOLEAN, s \in Option(Ids) :
               AskCallback(b, d, e, o, s, m)
  BY <1>1, <1>2, <1>5
<1> QED BY <1>1, <1>4, <1>5 DEF ServeBrowser

LEMMA ServedTyped ==
  ASSUME LoginTyped, NEW b \in Browsers, ServeBrowser(b)
  PROVE  LoginTyped'
<1>1. ASSUME NEW want \in Option(AllIds), NEW k \in Option(Attempts), AskLogin(b, want, k)
      PROVE  LoginTyped'
  BY <1>1, AskLoginTyped
<1>2. ASSUME NEW cookie \in 1..Len(begun), NEW answer \in 1..Len(begun), NEW ok \in BOOLEAN,
             NEW named \in BOOLEAN, NEW sub \in Option(Ids),
             AskCallback(b, cookie, answer, ok, sub, named)
      PROVE  LoginTyped'
  BY <1>2, AskCallbackTyped
<1>3. ASSUME NEW k \in Attempts, NEW sid \in 1..Len(signedIn), AskDesktop(b, k, sid)
      PROVE  LoginTyped'
  BY <1>3, AskDesktopTyped
<1>4. CASE Connect(b)
  BY <1>4, ConnectTyped
<1>5. CASE BeginLogin(b)
  BY <1>5, BeginTyped
<1>6. CASE Pick(b)
  BY <1>6, PickTyped
<1>7. CASE Take(b)
  BY <1>7, TakeTyped
<1>8. CASE Exchange(b)
  BY <1>8, ExchangeTyped
<1>9. CASE Refetch(b)
  BY <1>9, RefetchTyped
<1>10. CASE Fetch(b)
  BY <1>10, FetchTyped
<1>11. CASE Verify(b)
  BY <1>11, VerifyTyped
<1>12. CASE StoreCustody(b)
  BY <1>12, CustodyTyped
<1>13. CASE MakeSession(b)
  BY <1>13, MakeTyped
<1>14. CASE Mint(b)
  BY <1>14, MintTyped
<1> QED BY <1>1, <1>2, <1>3, <1>4, <1>5, <1>6, <1>7, <1>8, <1>9, <1>10, <1>11, <1>12, <1>13, <1>14, Served

\* What an administrator's step may be.
LEMMA Asking ==
  ASSUME LoginTyped, AdminNext([id \in Ids |-> Inside(id)])
  PROVE  \E a \in Admins :
           \/ \E id \in Ids, r \in AdminRecord : Asks(a, id, r)
           \/ AdminPrepare(a) \/ AdminConnect(a) \/ AdminApply(a)
           \/ AdminInstall(a, Inside(admin[a].id))
<1>1. PICK a \in Admins :
        \/ \E id \in Ids, i \in Issuers \ {DefaultIssuer}, e \in BOOLEAN : AskCreate(a, id, i, e)
        \/ \E id \in Ids : Known(Settings(id)) /\ \E next \in Changed(Settings(id)) : AskUpdate(a, id, next)
        \/ \E id \in Ids : Known(Settings(id)) /\ AskDelete(a, id)
        \/ AdminPrepare(a)
        \/ AdminConnect(a)
        \/ AdminApply(a)
        \/ AdminInstall(a, [id \in Ids |-> Inside(id)][admin[a].id])
  BY DEF AdminNext
<1>2. ASSUME AdminInstall(a, [id \in Ids |-> Inside(id)][admin[a].id])
      PROVE  AdminInstall(a, Inside(admin[a].id))
  <2>1. admin[a].step = "install"
    BY <1>2 DEF AdminInstall
  <2>2. admin[a].id \in Ids
    BY <2>1, AdminFields DEF LoginTyped, ProvidersTyped
  <2>3. [id \in Ids |-> Inside(id)][admin[a].id] = Inside(admin[a].id)
    BY <2>2
  <2> QED BY <1>2, <2>3
<1> QED BY <1>1, <1>2, CreateAsks, UpdateAsks, DeleteAsks

LEMMA AdministeredTyped ==
  ASSUME LoginTyped, UNCHANGED <<clock, logins>>, AdminNext([id \in Ids |-> Inside(id)])
  PROVE  LoginTyped'
<1>1. PICK a \in Admins :
        \/ \E id \in Ids, r \in AdminRecord : Asks(a, id, r)
        \/ AdminPrepare(a) \/ AdminConnect(a) \/ AdminApply(a)
        \/ AdminInstall(a, Inside(admin[a].id))
  BY Asking
<1>2. \A id : Inside(id) \in SUBSET Browsers
  BY DEF Inside
<1> QED BY <1>1, <1>2, AskedTyped, AdminPrepareTyped, AdminConnectTyped, AdminApplyTyped,
           AdminInstallTyped

LEMMA StillTyped ==
  ASSUME LoginTyped, UNCHANGED loginVars
  PROVE  LoginTyped'
<1>1. UNCHANGED <<clock, rows, people, keys, registry, entries, clients, admin, history,
                  txns, begun, pc, signedIn, handoff, given, refused>>
  BY DEF loginVars, providers, logins
<1> QED BY <1>1, RestOfWorldTyped DEF LoginTyped, ProvidersTyped, LoginsTyped

\* Every reachable state has its shape.
LEMMA TypedStep ==
  ASSUME LoginTyped, [LoginNext]_loginVars
  PROVE  LoginTyped'
<1>1. ASSUME NEW b \in Browsers, ServeBrowser(b) PROVE LoginTyped'
  BY <1>1, ServedTyped
<1>2. ASSUME UNCHANGED <<clock, logins>>, AdminNext([id \in Ids |-> Inside(id)]) PROVE LoginTyped'
  BY <1>2, AdministeredTyped
<1>3. ASSUME UNCHANGED <<clock, logins>>, NEW id \in Ids, GrantRole(id) PROVE LoginTyped'
  BY <1>3, GrantTyped
<1>4. ASSUME UNCHANGED <<clock, logins>>, NEW i \in Issuers, RotateKey(i) PROVE LoginTyped'
  BY <1>4, RotateTyped
<1>5. ASSUME NEW k \in Attempts, Redeem(k) PROVE LoginTyped'
  BY <1>5, RedeemTyped
<1>6. ASSUME NEW p \in people, Reap(p) PROVE LoginTyped'
  BY <1>6, ReapTyped
<1>7. CASE ClockTick
  BY <1>7, TickTyped
<1>8. CASE Restart
  BY <1>8, RestartTyped
<1>9. CASE UNCHANGED loginVars
  BY <1>9, StillTyped
<1> QED BY <1>1, <1>2, <1>3, <1>4, <1>5, <1>6, <1>7, <1>8, <1>9, Steps

\* Whatever requests, administrators and crashes interleave, the rows, the registry,
\* the clients, the transactions and the sessions keep their shape, and what points
\* at one of them finds it (providers.rs, oauth.rs, http/auth.rs).
THEOREM LoginsAreTyped == LoginSpec => []LoginTyped
<1>1. LoginInit => LoginTyped
  BY InitTyped
<1>2. LoginTyped /\ [LoginNext]_loginVars => LoginTyped'
  BY TypedStep
<1> QED BY <1>1, <1>2, PTL DEF LoginSpec

----------------------------------------------------------------------------
(***************************************************************************)
(* What a step does to the requests and the sequences.                     *)
(***************************************************************************)
BegunGrows ==
  /\ Len(begun) <= Len(begun')
  /\ \A n \in 1..Len(begun) : begun'[n] = begun[n]

ClientsGrow ==
  /\ Len(clients) <= Len(clients')
  /\ \A i \in 1..Len(clients) : /\ clients'[i].id = clients[i].id
                                /\ clients'[i].issuer = clients[i].issuer
                                /\ clients'[i].cred = clients[i].cred

SameLogin(s, t) ==
  /\ s.txn = t.txn /\ s.id = t.id /\ s.answer = t.answer /\ s.at = t.at
  /\ s.attempt = t.attempt /\ s.door = t.door

SessionsGrow ==
  /\ Len(signedIn) <= Len(signedIn')
  /\ \A i \in 1..Len(signedIn) : SameLogin(signedIn'[i], signedIn[i])

\* Request b, if it is past its redemption, was already, of the same transaction.
StillRedeeming(b) ==
  pc'[b].step \in Past =>
    /\ pc[b].step \in Past
    /\ pc'[b].cookie = pc[b].cookie /\ pc'[b].answer = pc[b].answer
    /\ pc'[b].client = pc[b].client /\ pc'[b].now = pc[b].now

\* The other requests do not move.
OthersStay(b) == \A c \in Browsers : c # b => pc'[c] = pc[c]

LEMMA ServeOne ==
  ASSUME LoginTyped, NEW b \in Browsers, ServeBrowser(b)
  PROVE  OthersStay(b)
<1>1. \E r : pc' = [pc EXCEPT ![b] = r] \/ pc' = pc
  <2>1. ASSUME NEW want \in Option(AllIds), NEW k \in Option(Attempts), AskLogin(b, want, k)
        PROVE  \E r : pc' = [pc EXCEPT ![b] = r] \/ pc' = pc
    BY <2>1 DEF AskLogin
  <2>2. ASSUME NEW cookie \in 1..Len(begun), NEW answer \in 1..Len(begun), NEW ok \in BOOLEAN,
               NEW named \in BOOLEAN, NEW sub \in Option(Ids),
               AskCallback(b, cookie, answer, ok, sub, named)
        PROVE  \E r : pc' = [pc EXCEPT ![b] = r] \/ pc' = pc
    BY <2>2 DEF AskCallback
  <2>3. ASSUME NEW k \in Attempts, NEW sid \in 1..Len(signedIn), AskDesktop(b, k, sid)
        PROVE  \E r : pc' = [pc EXCEPT ![b] = r] \/ pc' = pc
    BY <2>3 DEF AskDesktop
  <2>4. ASSUME Connect(b) \/ BeginLogin(b) \/ Pick(b) \/ Take(b) \/ Exchange(b)
        PROVE  \E r : pc' = [pc EXCEPT ![b] = r] \/ pc' = pc
    BY <2>4 DEF Connect, BeginLogin, Pick, Take, Exchange, Fail, Go
  <2>5. ASSUME Refetch(b) \/ Fetch(b) \/ Verify(b) \/ StoreCustody(b) \/ MakeSession(b) \/ Mint(b)
        PROVE  \E r : pc' = [pc EXCEPT ![b] = r] \/ pc' = pc
    BY <2>5 DEF Refetch, Fetch, Verify, StoreCustody, MakeSession, Mint, Fail, Go
  <2> QED BY <2>1, <2>2, <2>3, <2>4, <2>5, Served
<1>2. pc \in [Browsers -> Requests]
  BY DEF LoginTyped, LoginsTyped
<1> QED BY <1>1, <1>2 DEF OthersStay

\* Which sequences a request's step moves.
LEMMA ServeMoves ==
  ASSUME LoginTyped, NEW b \in Browsers, ServeBrowser(b)
  PROVE  /\ UNCHANGED <<clock, rows, keys, registry, admin, given>>
         /\ begun' = begun \/ BeginLogin(b)
         /\ signedIn' = signedIn \/ MakeSession(b)
         /\ clients' = clients \/ Connect(b) \/ Refetch(b) \/ Fetch(b)
         /\ entries' = entries \/ Connect(b)
         /\ history'.off = history.off \/ \E d, e, o, n, s : AskCallback(b, d, e, o, s, n)
         /\ refused' = refused \/ Verify(b)
         /\ \A n \in txns' : n \in txns \/ BeginLogin(b)
<1>0. history \in History
  BY DEF LoginTyped, ProvidersTyped
<1> DEFINE P == /\ UNCHANGED <<clock, rows, keys, registry, admin, given>>
                /\ begun' = begun \/ BeginLogin(b)
                /\ signedIn' = signedIn \/ MakeSession(b)
                /\ clients' = clients \/ Connect(b) \/ Refetch(b) \/ Fetch(b)
                /\ entries' = entries \/ Connect(b)
                /\ history'.off = history.off \/ \E d, e, o, n, s : AskCallback(b, d, e, o, s, n)
                /\ refused' = refused \/ Verify(b)
                /\ \A n \in txns' : n \in txns \/ BeginLogin(b)
<1>1. ASSUME NEW want \in Option(AllIds), NEW k \in Option(Attempts), AskLogin(b, want, k)
      PROVE  P
  <2>1. history'.off = history.off
    BY <1>0, <1>1, InputTyped DEF AskLogin
  <2> QED BY <1>1, <2>1 DEF AskLogin
<1>2. ASSUME NEW cookie \in 1..Len(begun), NEW answer \in 1..Len(begun), NEW ok \in BOOLEAN,
             NEW named \in BOOLEAN, NEW sub \in Option(Ids),
             AskCallback(b, cookie, answer, ok, sub, named)
      PROVE  P
  <2>1. \E d, e, o, n, s : AskCallback(b, d, e, o, s, n)
    BY <1>2
  <2> QED BY <1>2, <2>1 DEF AskCallback
<1>3. ASSUME NEW k \in Attempts, NEW sid \in 1..Len(signedIn), AskDesktop(b, k, sid)
      PROVE  P
  <2>1. history'.off = history.off
    BY <1>0, <1>3, InputTyped DEF AskDesktop
  <2> QED BY <1>3, <2>1 DEF AskDesktop
<1>4. CASE Connect(b)
  <2>1. /\ UNCHANGED <<clock, rows, keys, registry, admin, given, begun, signedIn, history, refused>>
        /\ \A n \in txns' : n \in txns
    BY <1>4 DEF Connect
  <2> QED BY <1>4, <2>1
<1>5. CASE BeginLogin(b)
  BY <1>5 DEF BeginLogin, providers
<1>6. CASE Pick(b) \/ Take(b) \/ Exchange(b)
  <2>1. /\ UNCHANGED <<clock, providers, begun, signedIn, given, refused>>
        /\ \A n \in txns' : n \in txns
    BY <1>6 DEF Pick, Take, Taken, Exchange
  <2> QED BY <2>1 DEF providers
<1>7. CASE Refetch(b)
  BY <1>7 DEF Refetch
<1>8. CASE Fetch(b)
  BY <1>8 DEF Fetch
<1>9. CASE Verify(b)
  <2>1. UNCHANGED <<clock, providers, txns, begun, signedIn, given>>
    BY <1>9 DEF Verify
  <2> QED BY <1>9, <2>1 DEF providers
<1>10. CASE StoreCustody(b)
  <2>1. history'.off = history.off
    <3>1. history' = history \/ history' = [history EXCEPT !.taken = history.taken + 1]
      BY <1>10 DEF StoreCustody
    <3> QED BY <1>0, <3>1 DEF History
  <2> QED BY <1>10, <2>1 DEF StoreCustody
<1>11. CASE MakeSession(b)
  <2>1. UNCHANGED <<clock, providers, txns, begun, given, refused>>
    BY <1>11 DEF MakeSession
  <2> QED BY <1>11, <2>1 DEF providers
<1>12. CASE Mint(b)
  BY <1>12 DEF Mint, providers
<1> QED BY <1>1, <1>2, <1>3, <1>4, <1>5, <1>6, <1>7, <1>8, <1>9, <1>10, <1>11, <1>12, Served

LEMMA BeginGrows ==
  ASSUME LoginTyped, NEW b \in Browsers, BeginLogin(b)
  PROVE  /\ BegunGrows /\ Len(begun') = Len(begun) + 1
         /\ txns' = txns \cup {Len(begun) + 1}
  <1>1. begun \in Seq(Txn)
    BY DEF LoginTyped, LoginsTyped
  <1>2. PICK t : begun' = Append(begun, t) /\ txns' = txns \cup {Len(begun) + 1}
    BY DEF BeginLogin
  <1> QED BY <1>1, <1>2 DEF BegunGrows

LEMMA MakeGrows ==
  ASSUME LoginTyped, NEW b \in Browsers, MakeSession(b)
  PROVE  /\ SessionsGrow /\ Len(signedIn') = Len(signedIn) + 1
         /\ \A i \in 1..Len(signedIn) : signedIn'[i] = signedIn[i]
         /\ \A i \in 1..Len(signedIn') : i \in 1..Len(signedIn) \/ i = Len(signedIn) + 1
         /\ Len(signedIn) + 1 \in 1..Len(signedIn')
         /\ signedIn'[Len(signedIn) + 1] = Made(b)
  <1>1. signedIn \in Seq(SessionRecord) /\ Len(signedIn) \in Nat
    BY DEF LoginTyped, LoginsTyped
  <1>2. signedIn' = Append(signedIn, Made(b)) /\ Made(b) \in SessionRecord
    BY MadeFields
  <1>3. /\ Len(signedIn') = Len(signedIn) + 1 /\ signedIn'[Len(signedIn) + 1] = Made(b)
        /\ \A i \in 1..Len(signedIn) : signedIn'[i] = signedIn[i]
        /\ \A i \in 1..Len(signedIn') : i \in 1..Len(signedIn) \/ i = Len(signedIn) + 1
    BY <1>1, <1>2, Appended
  <1>4. Len(signedIn) + 1 \in 1..Len(signedIn')
    BY <1>1, <1>3
  <1> QED BY <1>1, <1>3, <1>4 DEF SessionsGrow, SameLogin

\* A client that is fetched for stays the client it is.
LEMMA FetchKeeps ==
  ASSUME LoginTyped, NEW b \in Browsers, Refetch(b) \/ Fetch(b)
  PROVE  /\ ClientsGrow /\ Len(clients') = Len(clients)
         /\ \A i \in 1..Len(clients) : i # pc[b].client => clients'[i] = clients[i]
<1> DEFINE i == pc[b].client
<1>1. /\ pc[b].step \in Past /\ pc[b].step # "pick"
  BY DEF Refetch, Fetch, Past
<1>2. i \in 1..Len(clients) /\ clients[i] \in ClientRecord /\ clients \in Seq(ClientRecord)
  BY <1>1, Callback DEF LoginTyped, ProvidersTyped
<1>3. PICK d : /\ clients' = clients \/ clients' = [clients EXCEPT ![i] = d]
               /\ d.id = clients[i].id /\ d.issuer = clients[i].issuer /\ d.cred = clients[i].cred
  <2>1. CASE Refetch(b)
    <3> DEFINE d == [clients[i] EXCEPT !.last = pc[b].now, !.busy = TRUE]
    <3>1. clients' = clients \/ clients' = [clients EXCEPT ![i] = d]
      BY <2>1 DEF Refetch
    <3>2. d.id = clients[i].id /\ d.issuer = clients[i].issuer /\ d.cred = clients[i].cred
      BY <1>2 DEF ClientRecord
    <3> HIDE DEF d
    <3> QED BY <3>1, <3>2
  <2>2. CASE Fetch(b)
    <3>1. PICK worked \in BOOLEAN :
            clients' = [clients EXCEPT ![i] = IF worked THEN FetchedKeys(clients[i])
                                              ELSE FetchFailed(clients[i])]
      BY <2>2 DEF Fetch
    <3> DEFINE d == IF worked THEN FetchedKeys(clients[i]) ELSE FetchFailed(clients[i])
    <3>2. d.id = clients[i].id /\ d.issuer = clients[i].issuer /\ d.cred = clients[i].cred
      BY <1>2 DEF ClientRecord, FetchedKeys, FetchFailed
    <3>3. clients' = [clients EXCEPT ![i] = d]
      BY <3>1
    <3> HIDE DEF d
    <3> QED BY <3>2, <3>3
  <2> QED BY <2>1, <2>2
<1> QED BY <1>2, <1>3 DEF ClientsGrow

LEMMA ConnectGrows ==
  ASSUME LoginTyped, NEW b \in Browsers, Connect(b)
  PROVE  /\ ClientsGrow
         /\ \A i \in 1..Len(clients) : clients'[i] = clients[i]
<1>1. /\ clients \in Seq(ClientRecord)
      /\ \/ clients' = clients
         \/ \E c : clients' = Append(clients, c)
  BY DEF Connect, LoginTyped, ProvidersTyped
<1> QED BY <1>1 DEF ClientsGrow

LEMMA AdminGrows ==
  ASSUME LoginTyped, AdminNext([id \in Ids |-> Inside(id)])
  PROVE  /\ ClientsGrow
         /\ \A i \in 1..Len(clients) : clients'[i] = clients[i]
<1>1. /\ clients \in Seq(ClientRecord)
      /\ \/ clients' = clients
         \/ \E c : clients' = Append(clients, c)
  BY DEF AdminNext, AskCreate, AskUpdate, AskDelete, Ask, AdminPrepare, AdminConnect, AdminApply,
         AdminInstall, LoginTyped, ProvidersTyped
<1> QED BY <1>1 DEF ClientsGrow

LEMMA Growing ==
  ASSUME LoginTyped, [LoginNext]_loginVars
  PROVE  BegunGrows /\ SessionsGrow /\ (ClientsGrow \/ Restart)
<1>0. Len(begun) \in Nat /\ Len(signedIn) \in Nat /\ Len(clients) \in Nat
  BY Lengths
<1>1. begun' = begun => BegunGrows
  BY <1>0 DEF BegunGrows
<1>2. signedIn' = signedIn => SessionsGrow
  BY <1>0 DEF SessionsGrow, SameLogin
<1>3. clients' = clients => ClientsGrow
  BY <1>0 DEF ClientsGrow
<1>4. ASSUME NEW b \in Browsers, ServeBrowser(b)
      PROVE  BegunGrows /\ SessionsGrow /\ ClientsGrow
  BY <1>1, <1>2, <1>3, <1>4, ServeMoves, BeginGrows, MakeGrows, FetchKeeps, ConnectGrows
<1>5. ASSUME UNCHANGED <<clock, logins>>, AdminNext([id \in Ids |-> Inside(id)])
      PROVE  BegunGrows /\ SessionsGrow /\ ClientsGrow
  BY <1>1, <1>2, <1>5, AdminGrows DEF logins
<1>6. ASSUME NEW id \in Ids, GrantRole(id), UNCHANGED <<clock, logins>>
      PROVE  BegunGrows /\ SessionsGrow /\ ClientsGrow
  BY <1>1, <1>2, <1>3, <1>6 DEF GrantRole, logins
<1>7. ASSUME NEW i \in Issuers, RotateKey(i), UNCHANGED <<clock, logins>>
      PROVE  BegunGrows /\ SessionsGrow /\ ClientsGrow
  BY <1>1, <1>2, <1>3, <1>7 DEF RotateKey, logins
<1>8. ASSUME NEW k \in Attempts, Redeem(k)
      PROVE  BegunGrows /\ SessionsGrow /\ ClientsGrow
  BY <1>1, <1>2, <1>3, <1>8 DEF Redeem
<1>9. ASSUME NEW p \in people, Reap(p)
      PROVE  BegunGrows /\ SessionsGrow /\ ClientsGrow
  <2>1. begun' = begun /\ clients' = clients
    BY <1>9 DEF Reap
  <2>2. SessionsGrow
    BY <1>0, <1>9, ReapTyped DEF SessionsGrow, SameLogin
  <2> QED BY <1>1, <1>3, <2>1, <2>2
<1>10. CASE ClockTick
  BY <1>1, <1>2, <1>3, <1>10 DEF ClockTick, logins
<1>11. CASE Restart
  BY <1>1, <1>2, <1>11 DEF Restart
<1>12. CASE UNCHANGED loginVars
  BY <1>1, <1>2, <1>3, <1>12 DEF loginVars, logins, providers
<1> QED BY <1>4, <1>5, <1>6, <1>7, <1>8, <1>9, <1>10, <1>11, <1>12, Steps

\* A callback redeems its transaction in Take and nowhere else.
LEMMA Redeems ==
  ASSUME LoginTyped, NEW b \in Browsers, ServeBrowser(b)
  PROVE  StillRedeeming(b) \/ Take(b)
<1>0. pc \in [Browsers -> Requests]
  BY DEF LoginTyped, LoginsTyped
<1>1. ASSUME NEW want \in Option(AllIds), NEW k \in Option(Attempts), AskLogin(b, want, k)
      PROVE  StillRedeeming(b)
  <2>1. pc'[b].step \in {"connect", "idle"}
    BY <1>0, <1>1 DEF AskLogin
  <2> QED BY <2>1 DEF StillRedeeming, Past
<1>2. ASSUME NEW cookie \in 1..Len(begun), NEW answer \in 1..Len(begun), NEW ok \in BOOLEAN,
             NEW named \in BOOLEAN, NEW sub \in Option(Ids),
             AskCallback(b, cookie, answer, ok, sub, named)
      PROVE  StillRedeeming(b)
  BY <1>2, AskCallbackTyped DEF StillRedeeming, Past
<1>3. ASSUME NEW k \in Attempts, NEW sid \in 1..Len(signedIn), AskDesktop(b, k, sid)
      PROVE  StillRedeeming(b)
  <2>1. pc'[b].step = "mint"
    BY <1>0, <1>3 DEF AskDesktop
  <2> QED BY <2>1 DEF StillRedeeming, Past
<1>4. CASE pc'[b] = AtRest
  BY <1>4 DEF AtRest, StillRedeeming, Past
<1>5. CASE Connect(b)
  <2>1. PICK c : pc' = [pc EXCEPT ![b] = Connected(pc[b], c)] \/ pc' = [pc EXCEPT ![b] = AtRest]
    BY <1>5 DEF Connect, Connected
  <2>2. CASE pc' = [pc EXCEPT ![b] = Connected(pc[b], c)]
    <3>1. pc[b] \in Requests /\ pc[b].step = "connect"
      BY <1>0, <1>5 DEF Connect
    <3>2. (pc[b] \in SignIn /\ pc[b].then = "begin") \/ (pc[b] \in Visit /\ pc[b].then = "take")
      BY <3>1, StepTells
    <3>3. Connected(pc[b], c).step \in {"begin", "take"}
      BY <3>2 DEF Connected, SignIn, Visit
    <3>4. pc'[b].step \in {"begin", "take"}
      BY <1>0, <2>2, <3>3
    <3> QED BY <3>4 DEF StillRedeeming, Past
  <2>3. CASE pc' = [pc EXCEPT ![b] = AtRest]
    BY <1>0, <1>4, <2>3
  <2> QED BY <2>1, <2>2, <2>3
<1>6. CASE BeginLogin(b) \/ MakeSession(b) \/ Mint(b)
  BY <1>0, <1>4, <1>6 DEF BeginLogin, MakeSession, Mint
<1>7. CASE Pick(b)
  <2>1. pc[b] \in Visit
    BY <1>7, Callback DEF Pick
  <2>2. CASE \E e : pc' = [pc EXCEPT ![b].step = "connect", ![b].entry = e]
    <3>1. pc'[b].step = "connect"
      BY <1>0, <2>1, <2>2 DEF Visit
    <3> QED BY <3>1 DEF StillRedeeming, Past
  <2> QED BY <1>0, <1>4, <1>7, <2>2 DEF Pick, Fail
<1>9. CASE Exchange(b) \/ Refetch(b) \/ Fetch(b) \/ Verify(b) \/ StoreCustody(b)
  <2>1. pc[b].step \in Past /\ pc[b] \in Visit
    <3>1. pc[b].step \in Past
      BY <1>9 DEF Exchange, Refetch, Fetch, Verify, StoreCustody, Past
    <3> QED BY <3>1, Callback
  <2>3. ASSUME pc' # [pc EXCEPT ![b] = AtRest]
        PROVE  /\ pc'[b].cookie = pc[b].cookie /\ pc'[b].answer = pc[b].answer
               /\ pc'[b].client = pc[b].client /\ pc'[b].now = pc[b].now
    <3>1. CASE Exchange(b)
      BY <1>0, <2>1, <2>3, <3>1 DEF Exchange, Fail, Visit
    <3>2. CASE Refetch(b)
      BY <1>0, <2>1, <2>3, <3>2 DEF Refetch, Visit
    <3>3. CASE Fetch(b)
      BY <1>0, <2>1, <2>3, <3>3 DEF Fetch, Visit
    <3>4. CASE Verify(b)
      BY <1>0, <2>1, <2>3, <3>4 DEF Verify, Fail, Go, Visit
    <3>5. CASE StoreCustody(b)
      BY <1>0, <2>1, <2>3, <3>5 DEF StoreCustody, Fail, Visit
    <3> QED BY <1>9, <3>1, <3>2, <3>3, <3>4, <3>5
  <2>4. CASE pc' = [pc EXCEPT ![b] = AtRest]
    BY <1>0, <1>4, <2>4
  <2> QED BY <2>1, <2>3, <2>4 DEF StillRedeeming
<1> QED BY <1>1, <1>2, <1>3, <1>5, <1>6, <1>7, <1>9, Served

LEMMA Redeemers ==
  ASSUME LoginTyped, [LoginNext]_loginVars
  PROVE  \/ \A b \in Browsers : StillRedeeming(b)
         \/ \E b \in Browsers : /\ Take(b) /\ OthersStay(b)
                                /\ \A c \in Browsers : c # b => StillRedeeming(c)
<1>1. \A c \in Browsers : pc'[c] = pc[c] => StillRedeeming(c)
  BY DEF StillRedeeming
<1>2. ASSUME NEW b \in Browsers, ServeBrowser(b)
      PROVE  \/ \A c \in Browsers : StillRedeeming(c)
             \/ /\ Take(b) /\ OthersStay(b)
                /\ \A c \in Browsers : c # b => StillRedeeming(c)
  BY <1>1, <1>2, ServeOne, Redeems DEF OthersStay
<1>3. CASE Restart
  BY <1>3, RestartTyped DEF StillRedeeming, Past
<1>4. CASE pc' = pc
  BY <1>1, <1>4
<1>5. ASSUME \/ UNCHANGED <<clock, logins>> \/ \E k \in Attempts : Redeem(k)
             \/ \E p \in people : Reap(p)
             \/ ClockTick
             \/ UNCHANGED loginVars
      PROVE  pc' = pc
  BY <1>5 DEF logins, loginVars, Redeem, Reap, ClockTick
<1> QED BY <1>2, <1>3, <1>4, <1>5, Steps

\* A session is made by MakeSession and nowhere else.
LEMMA Makers ==
  ASSUME LoginTyped, [LoginNext]_loginVars
  PROVE  \/ Len(signedIn') = Len(signedIn)
         \/ \E b \in Browsers : MakeSession(b) /\ OthersStay(b)
<1>1. ASSUME NEW b \in Browsers, ServeBrowser(b)
      PROVE  signedIn' = signedIn \/ (MakeSession(b) /\ OthersStay(b))
  BY <1>1, ServeMoves, ServeOne
<1>2. ASSUME NEW p \in people, Reap(p) PROVE Len(signedIn') = Len(signedIn)
  BY <1>2, ReapTyped
<1>3. ASSUME \/ UNCHANGED <<clock, logins>>
             \/ \E k \in Attempts : Redeem(k)
             \/ ClockTick
             \/ Restart
             \/ UNCHANGED loginVars
      PROVE  signedIn' = signedIn
  BY <1>3 DEF logins, loginVars, Redeem, ClockTick, Restart
<1> QED BY <1>1, <1>2, <1>3, Steps

\* A transaction that enters the store is new.
LEMMA TxnsNew ==
  ASSUME LoginTyped, [LoginNext]_loginVars
  PROVE  \A n \in txns' : n \in txns \/ n = Len(begun) + 1
<1>1. ASSUME NEW b \in Browsers, ServeBrowser(b)
      PROVE  \A n \in txns' : n \in txns \/ n = Len(begun) + 1
  BY <1>1, ServeMoves, BeginGrows
<1>2. ASSUME \/ UNCHANGED <<clock, logins>>
             \/ \E k \in Attempts : Redeem(k)
             \/ \E p \in people : Reap(p)
             \/ ClockTick
             \/ Restart
             \/ UNCHANGED loginVars
      PROVE  \A n \in txns' : n \in txns
  BY <1>2 DEF logins, loginVars, Redeem, Reap, ClockTick, Restart
<1> QED BY <1>1, <1>2, Steps

\* What Take leaves.
LEMMA TakeLeaves ==
  ASSUME LoginTyped, NEW b \in Browsers, Take(b)
  PROVE  /\ txns' = txns \ {pc[b].cookie} /\ UNCHANGED <<begun, clients, signedIn>>
         /\ pc[b].cookie \in 1..Len(begun)
         /\ Redeeming(b)' => /\ Redeemable(pc[b])
                             /\ pc'[b].cookie = pc[b].cookie /\ pc'[b].answer = pc[b].answer
                             /\ pc'[b].client = pc[b].client /\ pc'[b].now = pc[b].now
<1>1. pc \in [Browsers -> Requests] /\ pc[b] \in Visit /\ pc[b].cookie \in 1..Len(begun)
  BY Callback DEF Take, LoginTyped, LoginsTyped
<1>2. txns' = txns \ {pc[b].cookie} /\ UNCHANGED <<begun, clients, signedIn>>
  BY DEF Take, Taken, providers
<1>3. CASE Redeemable(pc[b]) /\ Go(b, "exchange")
  <2>1. pc'[b] = [pc[b] EXCEPT !.step = "exchange"]
    BY <1>1, <1>3 DEF Go
  <2>2. /\ pc'[b].cookie = pc[b].cookie /\ pc'[b].answer = pc[b].answer
        /\ pc'[b].client = pc[b].client /\ pc'[b].now = pc[b].now
    BY <1>1, <2>1 DEF Visit
  <2> QED BY <1>1, <1>2, <1>3, <2>2
<1>4. CASE Fail(b)
  <2>1. pc'[b].step = "idle"
    BY <1>1, <1>4 DEF Fail, AtRest
  <2> QED BY <1>1, <1>2, <2>1 DEF Redeeming, Past
<1> QED BY <1>3, <1>4 DEF Take

\* What MakeSession leaves.
LEMMA MakeLeaves ==
  ASSUME LoginTyped, NEW b \in Browsers, MakeSession(b)
  PROVE  /\ UNCHANGED <<begun, clients, txns, given>> /\ Redeeming(b) /\ ~ Redeeming(b)'
         /\ pc[b].cookie \in 1..Len(begun)
<1>1. pc[b].step \in Past /\ pc \in [Browsers -> Requests]
  BY DEF MakeSession, Past, LoginTyped, LoginsTyped
<1>2. pc'[b].step = "idle"
  BY <1>1 DEF MakeSession, AtRest
<1>3. UNCHANGED <<begun, clients, txns, given>>
  BY DEF MakeSession, providers
<1> QED BY <1>1, <1>2, <1>3, Callback DEF Redeeming, Past

\* One transaction makes one session.
LEMMA OnceStep ==
  ASSUME LoginTyped, Once, [LoginNext]_loginVars
  PROVE  Once'
<1>0. /\ \A n \in txns' : n \in txns \/ n = Len(begun) + 1
      /\ \A n \in 1..Len(begun) : n # Len(begun) + 1
      /\ \A i \in 1..Len(signedIn) : /\ signedIn'[i].txn = signedIn[i].txn
                                     /\ signedIn[i].txn \in 1..Len(begun)
      /\ \A b \in Browsers : Redeeming(b) => pc[b].cookie \in 1..Len(begun)
  <2>1. \A n \in 1..Len(begun) : n # Len(begun) + 1
    BY Lengths
  <2>2. \A b \in Browsers : Redeeming(b) => pc[b].cookie \in 1..Len(begun)
    BY Callback DEF Redeeming
  <2> QED BY <2>1, <2>2, TxnsNew, Growing DEF SessionsGrow, SameLogin, LoginTyped, LoginsPoint
<1>1. CASE Len(signedIn') = Len(signedIn) /\ \A b \in Browsers : StillRedeeming(b)
  BY <1>0, <1>1 DEF Once, StillRedeeming, Redeeming
<1>2. CASE Len(signedIn') = Len(signedIn) /\ \E b \in Browsers : /\ Take(b) /\ OthersStay(b)
                                       /\ \A c \in Browsers : c # b => StillRedeeming(c)
  <2>1. PICK b \in Browsers : /\ Take(b) /\ OthersStay(b)
                              /\ \A c \in Browsers : c # b => StillRedeeming(c)
    BY <1>2
  <2>2. /\ txns' = txns \ {pc[b].cookie}
        /\ Redeeming(b)' => pc[b].cookie \in txns /\ pc'[b].cookie = pc[b].cookie
    BY <2>1, TakeLeaves DEF Redeemable
  <2>3. \A c \in Browsers : c # b /\ Redeeming(c)' =>
           Redeeming(c) /\ pc'[c].cookie = pc[c].cookie /\ pc[c].cookie \notin txns
    BY <2>1 DEF StillRedeeming, Redeeming, Once
  <2>4. \A c \in Browsers : Redeeming(c)' => pc'[c].cookie \notin txns'
    BY <2>2, <2>3
  <2>5. \A c, d \in Browsers : Redeeming(c)' /\ Redeeming(d)' /\ pc'[c].cookie = pc'[d].cookie => c = d
    BY <2>2, <2>3 DEF Once
  <2>6. \A i \in 1..Len(signedIn) :
          /\ signedIn[i].txn \notin txns
          /\ \A c \in Browsers : Redeeming(c)' => pc'[c].cookie # signedIn[i].txn
    BY <2>2, <2>3 DEF Once
  <2> QED BY <1>0, <1>2, <2>2, <2>4, <2>5, <2>6 DEF Once
<1>3. ASSUME NEW b \in Browsers, MakeSession(b), OthersStay(b)
      PROVE  Once'
  <2>1. /\ UNCHANGED <<begun, txns>> /\ Redeeming(b) /\ ~ Redeeming(b)'
    BY <1>3, MakeLeaves
  <2>2. \A c \in Browsers : Redeeming(c)' => c # b /\ Redeeming(c) /\ pc'[c] = pc[c]
    BY <1>3, <2>1 DEF OthersStay, Redeeming
  <2> DEFINE n == Len(signedIn) + 1
  <2>3. /\ \A i \in 1..Len(signedIn') : i \in 1..Len(signedIn) \/ i = n
        /\ signedIn'[n].txn = pc[b].cookie
    BY <1>3, MakeGrows, MadeFields
  <2> HIDE DEF n
  <2>4. pc[b].cookie \notin txns /\ \A i \in 1..Len(signedIn) : pc[b].cookie # signedIn[i].txn
    BY <2>1 DEF Once
  <2>5. \A c \in Browsers : Redeeming(c)' => pc'[c].cookie # pc[b].cookie /\ pc'[c].cookie \notin txns'
    BY <2>1, <2>2 DEF Once
  <2>6. \A c, d \in Browsers : Redeeming(c)' /\ Redeeming(d)' /\ pc'[c].cookie = pc'[d].cookie => c = d
    BY <2>2 DEF Once
  <2>7. ASSUME NEW i \in 1..Len(signedIn')
        PROVE  /\ signedIn'[i].txn \notin txns'
               /\ \A c \in Browsers : Redeeming(c)' => pc'[c].cookie # signedIn'[i].txn
               /\ \A j \in 1..Len(signedIn') : signedIn'[i].txn = signedIn'[j].txn => i = j
    <3>1. CASE i \in 1..Len(signedIn)
      BY <1>0, <2>1, <2>2, <2>3, <2>4, <3>1, SMTT(30) DEF Once
    <3>2. CASE i = n
      BY <1>0, <2>1, <2>3, <2>4, <2>5, <3>2
    <3> QED BY <2>3, <3>1, <3>2
  <2> QED BY <2>5, <2>6, <2>7 DEF Once
<1> QED BY <1>1, <1>2, <1>3, Makers, Redeemers

LEMMA CheckedStep ==
  ASSUME LoginTyped, Checked, [LoginNext]_loginVars
  PROVE  Checked'
<1>1. BegunGrows /\ SessionsGrow /\ (ClientsGrow \/ Restart)
  BY Growing
<1>2. \A b \in Browsers : Redeeming(b) => /\ pc[b].cookie \in 1..Len(begun)
                                          /\ pc[b].client \in 1..Len(clients)
  <2>1. \A b \in Browsers : Redeeming(b) => pc[b].step \in {"pick", "take"} \cup Past /\ pc[b].step # "pick"
    BY DEF Redeeming, Past
  <2> QED BY <2>1, Callback
<1>3. ASSUME NEW b \in Browsers, StillRedeeming(b), Redeeming(b)', ClientsGrow
      PROVE  /\ pc'[b].answer = pc'[b].cookie
             /\ begun'[pc'[b].cookie].id = clients'[pc'[b].client].id
             /\ pc'[b].now - begun'[pc'[b].cookie].at < TxnTtl
  <2>1. /\ Redeeming(b)
        /\ pc'[b].cookie = pc[b].cookie /\ pc'[b].answer = pc[b].answer
        /\ pc'[b].client = pc[b].client /\ pc'[b].now = pc[b].now
    BY <1>3 DEF StillRedeeming, Redeeming
  <2>2. begun'[pc[b].cookie] = begun[pc[b].cookie] /\ clients'[pc[b].client].id = clients[pc[b].client].id
    BY <1>1, <1>2, <1>3, <2>1 DEF BegunGrows, ClientsGrow
  <2> QED BY <2>1, <2>2 DEF Checked
<1>4. CASE Restart
  BY <1>4, RestartTyped DEF Checked, Redeeming, Past
<1>5. CASE ClientsGrow /\ \A b \in Browsers : StillRedeeming(b)
  BY <1>3, <1>5 DEF Checked
<1>6. ASSUME ClientsGrow, NEW b \in Browsers, Take(b),
             \A c \in Browsers : c # b => StillRedeeming(c)
      PROVE  Checked'
  <2>1. Redeeming(b)' => /\ pc'[b].answer = pc'[b].cookie
                         /\ begun'[pc'[b].cookie].id = clients'[pc'[b].client].id
                         /\ pc'[b].now - begun'[pc'[b].cookie].at < TxnTtl
    BY <1>6, TakeLeaves DEF Redeemable
  <2> QED BY <1>3, <1>6, <2>1 DEF Checked
<1> QED BY <1>1, <1>4, <1>5, <1>6, Redeemers

LEMMA EarnedStep ==
  ASSUME LoginTyped, Checked, Earned, [LoginNext]_loginVars
  PROVE  Earned'
<1>1. BegunGrows /\ SessionsGrow
  BY Growing
<1>2. \A i \in 1..Len(signedIn) : signedIn[i].txn \in 1..Len(begun)
  BY DEF LoginTyped, LoginsPoint
<1>3. ASSUME NEW i \in 1..Len(signedIn)
      PROVE  /\ signedIn'[i].answer = signedIn'[i].txn
             /\ signedIn'[i].id = begun'[signedIn'[i].txn].id
             /\ signedIn'[i].at - begun'[signedIn'[i].txn].at < TxnTtl
  BY <1>1, <1>2, SMTT(30) DEF BegunGrows, SessionsGrow, SameLogin, Earned
<1>4. CASE Len(signedIn') = Len(signedIn)
  BY <1>3, <1>4 DEF Earned
<1>5. ASSUME NEW b \in Browsers, MakeSession(b)
      PROVE  Earned'
  <2> DEFINE n == Len(signedIn) + 1
  <2>1. Redeeming(b) /\ UNCHANGED <<begun, clients>>
    BY <1>5, MakeLeaves
  <2>2. /\ \A i \in 1..Len(signedIn') : i \in 1..Len(signedIn) \/ i = n
        /\ signedIn'[n].txn = pc[b].cookie /\ signedIn'[n].id = clients[pc[b].client].id
        /\ signedIn'[n].answer = pc[b].answer /\ signedIn'[n].at = pc[b].now
    BY <1>5, MakeGrows, MadeFields
  <2> HIDE DEF n
  <2> QED BY <1>3, <2>1, <2>2 DEF Earned, Checked
<1> QED BY <1>4, <1>5, Makers

----------------------------------------------------------------------------
(***************************************************************************)
(* The desktop attempts.                                                   *)
(***************************************************************************)
MadeThen(sid, k) == sid \in 1..Len(signedIn') /\ signedIn'[sid].attempt = k

\* The handoff forgets, or notes failures.
Forgets ==
  \A k \in Attempts :
    /\ handoff'.logins[k] = handoff.logins[k] \/ handoff'.logins[k] = NULL
    /\ \/ handoff'.outcomes[k] = handoff.outcomes[k] \/ handoff'.outcomes[k] = NULL
       \/ handoff'.outcomes[k].sid = 0

\* What it notes is the attempt's own.
Owns ==
  \A k \in Attempts :
    /\ \/ handoff'.logins[k] = handoff.logins[k] \/ handoff'.logins[k] = NULL
       \/ MadeThen(handoff'.logins[k].sid, k)
    /\ \/ handoff'.outcomes[k] = handoff.outcomes[k] \/ handoff'.outcomes[k] = NULL
       \/ handoff'.outcomes[k].sid = 0
       \/ MadeThen(handoff'.outcomes[k].sid, k)

Mints(b) == pc'[b].step = "mint" =>
               \/ pc'[b] = pc[b]
               \/ MadeThen(pc'[b].sid, pc'[b].attempt)

LEMMA BoundKept ==
  ASSUME LoginTyped, Bound, SessionsGrow, Len(signedIn') \in Nat, Owns, given' = given,
         \A b \in Browsers : Mints(b)
  PROVE  Bound'
<1>1. \A sid, k : MadeFor(sid, k) => MadeThen(sid, k)
  <2> TAKE sid, k
  <2>1. SUFFICES ASSUME MadeFor(sid, k) PROVE MadeThen(sid, k)
    OBVIOUS
  <2>2. sid \in 1..Len(signedIn) /\ signedIn[sid].attempt = k /\ Len(signedIn) \in Nat
    BY <2>1, Lengths DEF MadeFor
  <2>3. SameLogin(signedIn'[sid], signedIn[sid]) /\ Len(signedIn) <= Len(signedIn')
    BY <2>2 DEF SessionsGrow
  <2> QED BY <2>2, <2>3 DEF MadeThen, SameLogin
<1>2. ASSUME NEW k \in Attempts
      PROVE  /\ handoff'.logins[k] # NULL => MadeThen(handoff'.logins[k].sid, k)
             /\ handoff'.outcomes[k] # NULL /\ handoff'.outcomes[k].sid # 0 =>
                  MadeThen(handoff'.outcomes[k].sid, k)
  <2>1. /\ handoff.logins[k] # NULL => MadeThen(handoff.logins[k].sid, k)
        /\ handoff.outcomes[k] # NULL /\ handoff.outcomes[k].sid # 0 =>
              MadeThen(handoff.outcomes[k].sid, k)
    BY <1>1 DEF Bound
  <2> QED BY <2>1 DEF Owns
<1>3. \A g \in given' : g.sid # 0 => MadeThen(g.sid, g.attempt)
  BY <1>1 DEF Bound
<1>4. \A b \in Browsers : pc'[b].step = "mint" => MadeThen(pc'[b].sid, pc'[b].attempt)
  BY <1>1 DEF Bound, Mints
<1> QED BY <1>2, <1>3, <1>4 DEF Bound, MadeFor, MadeThen

LEMMA FailForgets ==
  ASSUME LoginTyped, NEW b \in Browsers, pc[b].step \in {"pick", "take"} \cup Past, Fail(b)
  PROVE  Forgets
<1>1. pc[b].attempt \in Option(Attempts) /\ pc[b].now \in Nat /\ handoff \in Held
  BY Callback, VisitFields DEF LoginTyped, LoginsTyped
<1> QED BY <1>1, FailureNotes DEF Fail, Forgets

LEMMA HandoffMoves ==
  ASSUME LoginTyped, NEW b \in Browsers, ServeBrowser(b)
  PROVE  \/ Forgets /\ (signedIn' = signedIn)
         \/ MakeSession(b)
         \/ Mint(b)
<1>0. handoff \in Held /\ clock \in Nat /\ (handoff' = handoff => Forgets)
  BY DEF LoginTyped, LoginsTyped, Forgets
<1>1. ASSUME NEW want \in Option(AllIds), NEW k \in Option(Attempts), AskLogin(b, want, k)
      PROVE  Forgets
  <2>1. handoff' = handoff \/ handoff' \in NoteFailure(handoff, k, clock)
    BY <1>1 DEF AskLogin
  <2> QED BY <1>0, <2>1, FailureNotes DEF Forgets
<1>2. CASE Connect(b)
  <2>1. handoff' = handoff \/ \E at \in {clock, pc[b].now} : handoff' \in NoteFailure(handoff, pc[b].attempt, at)
    BY <1>2 DEF Connect
  <2>2. pc[b].attempt \in Option(Attempts) /\ pc[b].now \in Nat
    <3>1. pc[b] \in Requests /\ pc[b].step = "connect"
      BY <1>2 DEF Connect, LoginTyped, LoginsTyped
    <3>2. pc[b] \in SignIn \/ pc[b] \in Visit
      BY <3>1, StepTells
    <3> QED BY <3>2, VisitFields DEF SignIn
  <2>3. handoff' = handoff => Forgets
    BY <1>0
  <2>4. ASSUME NEW at \in {clock, pc[b].now}, handoff' \in NoteFailure(handoff, pc[b].attempt, at)
        PROVE  Forgets
    <3>1. at \in Nat
      BY <1>0, <2>2
    <3> QED BY <1>0, <2>2, <2>4, <3>1, FailureNotes DEF Forgets
  <2>5. signedIn' = signedIn
    BY <1>2 DEF Connect
  <2> QED BY <2>1, <2>3, <2>4, <2>5
<1>3. CASE Pick(b) \/ Take(b) \/ Exchange(b) \/ Verify(b) \/ StoreCustody(b)
  <2>1. pc[b].step \in {"pick", "take"} \cup Past
    BY <1>3 DEF Pick, Take, Exchange, Verify, StoreCustody, Past
  <2>2. handoff' = handoff \/ Fail(b)
    BY <1>3 DEF Pick, Take, Exchange, Verify, StoreCustody
  <2> QED BY <1>0, <1>3, <2>1, <2>2, FailForgets DEF Pick, Take, Exchange, Verify, StoreCustody
<1>4. ASSUME NEW cookie \in 1..Len(begun), NEW answer \in 1..Len(begun), NEW ok \in BOOLEAN,
             NEW named \in BOOLEAN, NEW sub \in Option(Ids),
             AskCallback(b, cookie, answer, ok, sub, named)
      PROVE  handoff' = handoff
  BY <1>4 DEF AskCallback
<1>5. ASSUME NEW k \in Attempts, NEW sid \in 1..Len(signedIn), AskDesktop(b, k, sid)
      PROVE  handoff' = handoff
  BY <1>5 DEF AskDesktop
<1>6. CASE BeginLogin(b) \/ Refetch(b) \/ Fetch(b)
  BY <1>0, <1>6 DEF BeginLogin, Refetch, Fetch
<1>7. signedIn' = signedIn \/ MakeSession(b)
  BY ServeMoves
<1> QED BY <1>0, <1>1, <1>2, <1>3, <1>4, <1>5, <1>6, <1>7, Served

\* A request asks for a token only of the session its attempt's login made.
LEMMA MintsOwn ==
  ASSUME LoginTyped, Bound, NEW b \in Browsers, ServeBrowser(b), SessionsGrow,
         Len(signedIn') \in Nat
  PROVE  Mints(b)
<1>0. pc \in [Browsers -> Requests]
  BY DEF LoginTyped, LoginsTyped
<1>1. ASSUME NEW want \in Option(AllIds), NEW k \in Option(Attempts), AskLogin(b, want, k)
      PROVE  Mints(b)
  <2>1. pc'[b] = pc[b] \/ pc'[b].step = "connect"
    BY <1>0, <1>1 DEF AskLogin
  <2> QED BY <2>1 DEF Mints
<1>2. ASSUME NEW cookie \in 1..Len(begun), NEW answer \in 1..Len(begun), NEW ok \in BOOLEAN,
             NEW named \in BOOLEAN, NEW sub \in Option(Ids),
             AskCallback(b, cookie, answer, ok, sub, named)
      PROVE  Mints(b)
  BY <1>2, AskCallbackTyped DEF Mints
<1>3. ASSUME NEW k \in Attempts, NEW sid \in 1..Len(signedIn), AskDesktop(b, k, sid)
      PROVE  Mints(b)
  <2>1. pc'[b].sid = sid /\ pc'[b].attempt = k
    BY <1>0, <1>3 DEF AskDesktop
  <2>2. handoff.logins[k] # NULL /\ handoff.logins[k].sid = sid
    BY <1>3, LoginAssumption DEF AskDesktop, Binds, Fresh
  <2>3. MadeFor(sid, k)
    BY <2>2 DEF Bound
  <2>4. signedIn' = signedIn
    BY <1>3 DEF AskDesktop
  <2>5. MadeThen(sid, k)
    BY <2>3, <2>4 DEF MadeFor, MadeThen
  <2> QED BY <2>1, <2>5 DEF Mints
<1>4. CASE pc'[b] = AtRest
  BY <1>4 DEF AtRest, Mints
<1>5. CASE Connect(b)
  <2>1. PICK c : pc' = [pc EXCEPT ![b] = Connected(pc[b], c)] \/ pc' = [pc EXCEPT ![b] = AtRest]
    BY <1>5 DEF Connect, Connected
  <2>2. CASE pc' = [pc EXCEPT ![b] = Connected(pc[b], c)]
    <3>1. pc[b] \in Requests /\ pc[b].step = "connect"
      BY <1>0, <1>5 DEF Connect
    <3>2. (pc[b] \in SignIn /\ pc[b].then = "begin") \/ (pc[b] \in Visit /\ pc[b].then = "take")
      BY <3>1, StepTells
    <3>3. Connected(pc[b], c).step \in {"begin", "take"}
      BY <3>2 DEF Connected, SignIn, Visit
    <3>4. pc'[b].step \in {"begin", "take"}
      BY <1>0, <2>2, <3>3
    <3> QED BY <3>4 DEF Mints
  <2>3. CASE pc' = [pc EXCEPT ![b] = AtRest]
    BY <1>0, <1>4, <2>3
  <2> QED BY <2>1, <2>2, <2>3
<1>6. CASE BeginLogin(b) \/ MakeSession(b) \/ Mint(b)
  BY <1>0, <1>4, <1>6 DEF BeginLogin, MakeSession, Mint
<1>7. CASE Pick(b) \/ Take(b) \/ Exchange(b) \/ Refetch(b) \/ Fetch(b) \/ Verify(b) \/ StoreCustody(b)
  <2>1. pc[b] \in Visit
    <3>1. pc[b].step \in {"pick", "take"} \cup Past
      BY <1>7 DEF Pick, Take, Exchange, Refetch, Fetch, Verify, StoreCustody, Past
    <3> QED BY <3>1, Callback
  <2>2. ASSUME pc' # [pc EXCEPT ![b] = AtRest]
        PROVE  pc'[b].step # "mint"
    <3>1. CASE Pick(b)
      BY <1>0, <2>1, <2>2, <3>1 DEF Pick, Fail, Visit
    <3>2. CASE Take(b)
      BY <1>0, <2>1, <2>2, <3>2 DEF Take, Fail, Go, Visit
    <3>3. CASE Exchange(b)
      BY <1>0, <2>1, <2>2, <3>3 DEF Exchange, Fail, Visit
    <3>4. CASE Refetch(b) \/ Fetch(b)
      BY <1>0, <2>1, <2>2, <3>4 DEF Refetch, Fetch, Visit
    <3>5. CASE Verify(b)
      BY <1>0, <2>1, <2>2, <3>5 DEF Verify, Fail, Go, Visit
    <3>6. CASE StoreCustody(b)
      BY <1>0, <2>1, <2>2, <3>6 DEF StoreCustody, Fail, Visit
    <3> QED BY <1>7, <3>1, <3>2, <3>3, <3>4, <3>5, <3>6
  <2>3. CASE pc' = [pc EXCEPT ![b] = AtRest]
    BY <1>0, <1>4, <2>3
  <2> QED BY <2>2, <2>3 DEF Mints
<1> QED BY <1>1, <1>2, <1>3, <1>5, <1>6, <1>7, Served

\* An attempt's outcome is its own session.
LEMMA BoundStep ==
  ASSUME LoginTyped, Bound, [LoginNext]_loginVars
  PROVE  Bound'
<1>0. SessionsGrow /\ Len(signedIn') \in Nat /\ Len(signedIn) \in Nat /\ handoff \in Held
  BY Growing, TypedStep, Lengths DEF LoginTyped, LoginsTyped
<1>1. ASSUME NEW b \in Browsers, ServeBrowser(b)
      PROVE  Bound'
  <2>1. Owns
    <3>1. CASE Forgets
      BY <3>1 DEF Forgets, Owns
    <3>2. CASE MakeSession(b)
      <4> DEFINE n == Len(signedIn) + 1
                 k == begun[pc[b].cookie].attempt
      <4>1. /\ n \in 1..Len(signedIn') /\ signedIn'[n].attempt = k
        BY <3>2, MakeGrows, MadeFields
      <4>2. /\ pc[b].now \in Nat /\ k \in Option(Attempts)
        <5>1. pc[b].step \in Past
          BY <3>2 DEF MakeSession, Past
        <5> QED BY <5>1, Callback, VisitFields, TxnFields
      <4>3. handoff' = handoff \/ (k # NULL /\ handoff' \in NoteLogin(handoff, k, n, pc[b].now))
        BY <3>2 DEF MakeSession
      <4>4. n \in Nat /\ (k # NULL => k \in Attempts) /\ MadeThen(n, k)
        BY <1>0, <4>1, <4>2 DEF Option, MadeThen
      <4> HIDE DEF n, k
      <4>5. CASE handoff' = handoff
        BY <4>5 DEF Owns
      <4>6. CASE k # NULL /\ handoff' \in NoteLogin(handoff, k, n, pc[b].now)
        <5>1. \A j \in Attempts :
                /\ \/ handoff'.logins[j] = handoff.logins[j] \/ handoff'.logins[j] = NULL
                   \/ j = k /\ handoff'.logins[j].sid = n
                /\ handoff'.outcomes[j] = handoff.outcomes[j]
          BY <1>0, <4>2, <4>4, <4>6, LoginNotes
        <5> QED BY <4>4, <5>1 DEF Owns
      <4> QED BY <4>3, <4>5, <4>6
    <3>3. CASE Mint(b)
      <4>1. pc[b] \in Minting /\ pc[b].now \in Nat /\ pc[b].sid \in Nat /\ pc[b].attempt \in Attempts
        <5>1. pc[b] \in Requests /\ pc[b].step = "mint"
          BY <3>3 DEF Mint, LoginTyped, LoginsTyped
        <5>2. pc[b] \in Minting
          BY <5>1, StepTells
        <5> QED BY <5>2 DEF Minting
      <4>2. MadeFor(pc[b].sid, pc[b].attempt) /\ signedIn' = signedIn
        BY <3>3 DEF Mint, Bound
      <4>3. MadeThen(pc[b].sid, pc[b].attempt)
        BY <4>2 DEF MadeFor, MadeThen
      <4>4. PICK end \in {0, pc[b].sid} : handoff' \in Finish(handoff, pc[b].attempt, end, pc[b].now)
        BY <3>3 DEF Mint
      <4>5. \A j \in Attempts :
              /\ handoff'.logins[j] = handoff.logins[j] \/ handoff'.logins[j] = NULL
              /\ \/ handoff'.outcomes[j] = handoff.outcomes[j] \/ handoff'.outcomes[j] = NULL
                 \/ j = pc[b].attempt /\ handoff'.outcomes[j].sid = end
        <5> DEFINE k == pc[b].attempt
                   at == pc[b].now
                   h == handoff'
        <5>1. end \in Nat /\ k \in Attempts /\ at \in Nat /\ h \in Finish(handoff, k, end, at)
          BY <4>1, <4>4
        <5>2. \A j \in Attempts :
                /\ h.logins[j] = handoff.logins[j] \/ h.logins[j] = NULL
                /\ \/ h.outcomes[j] = handoff.outcomes[j] \/ h.outcomes[j] = NULL
                   \/ j = k /\ h.outcomes[j].sid = end
          <6> HIDE DEF k, at, h
          <6> QED BY <1>0, <5>1, FinishNotes
        <5> QED BY <5>2
      <4> QED BY <4>3, <4>5 DEF Owns
    <3> QED BY <1>1, <3>1, <3>2, <3>3, HandoffMoves
  <2>2. given' = given /\ OthersStay(b) /\ Mints(b)
    BY <1>0, <1>1, ServeMoves, ServeOne, MintsOwn
  <2>3. \A c \in Browsers : Mints(c)
    BY <2>2 DEF OthersStay, Mints
  <2> QED BY <1>0, <2>1, <2>2, <2>3, BoundKept
<1>2. ASSUME NEW k \in Attempts, Redeem(k)
      PROVE  Bound'
  <2>1. \A j \in Attempts :
              /\ handoff'.logins[j] = handoff.logins[j]
              /\ handoff'.outcomes[j] = handoff.outcomes[j] \/ handoff'.outcomes[j] = NULL
    BY <1>2, RedeemTyped
  <2>2. \A g \in given' : g.sid # 0 => MadeFor(g.sid, g.attempt)
    <3> DEFINE end == handoff.outcomes[k]
               new == [attempt |-> k, sid |-> end.sid]
    <3>1. given' = given \/ given' = given \cup {new}
      BY <1>2 DEF Redeem
    <3>2. new.attempt = k /\ new.sid = end.sid /\ end # NULL
      BY <1>2 DEF Redeem
    <3>3. new.sid # 0 => MadeFor(new.sid, new.attempt)
      BY <3>2 DEF Bound
    <3> HIDE DEF new
    <3> QED BY <3>1, <3>3 DEF Bound
  <2>3. signedIn' = signedIn /\ pc' = pc
    BY <1>2 DEF Redeem
  <2> QED BY <2>1, <2>2, <2>3 DEF Bound, MadeFor
<1>3. CASE Restart
  <2>1. /\ handoff' = EmptyHeld /\ given' = given
        /\ \A b \in Browsers : pc'[b].step = "idle"
    BY <1>3, RestartTyped DEF Restart
  <2>2. Owns /\ \A b \in Browsers : Mints(b)
    BY <2>1, EmptyIsHeld DEF Owns, Mints
  <2> QED BY <1>0, <2>1, <2>2, BoundKept
<1>4. ASSUME \/ UNCHANGED <<clock, logins>>
             \/ \E p \in people : Reap(p)
             \/ ClockTick
             \/ UNCHANGED loginVars
      PROVE  Bound'
  <2>1. handoff' = handoff /\ given' = given /\ pc' = pc
    BY <1>4 DEF logins, loginVars, Reap, ClockTick
  <2>2. Owns /\ \A b \in Browsers : Mints(b)
    BY <2>1 DEF Owns, Mints
  <2> QED BY <1>0, <2>1, <2>2, BoundKept
<1> QED BY <1>1, <1>2, <1>3, <1>4, Steps

----------------------------------------------------------------------------
(***************************************************************************)
(* The doors.                                                              *)
(***************************************************************************)
\* The steps of a callback past the door.
Within == {"connect", "take"} \cup Past

LEMMA InsideVisit ==
  ASSUME LoginTyped, NEW b \in Browsers, pc[b].step \in Within, pc[b].cookie # 0
  PROVE  pc[b] \in Visit /\ pc[b].cookie \in 1..Len(begun)
<1>1. pc[b] \in Requests /\ Points(b)
  BY DEF LoginTyped, LoginsTyped, LoginsPoint
<1>2. pc[b] \in Visit
  <2>1. pc[b] \in Visit \/ pc[b] \in SignIn
    BY <1>1, StepTells DEF Within
  <2> QED BY <2>1 DEF SignIn
<1> QED BY <1>1, <1>2 DEF Points

\* A request gets to connect, or to redeem, for its own login, from there, or past
\* the door.
LEMMA Knocks ==
  ASSUME LoginTyped, NEW b \in Browsers, ServeBrowser(b), pc'[b].step \in {"connect", "take"}
  PROVE  \/ pc'[b].cookie = 0
         \/ pc[b].step = "connect" /\ pc'[b].cookie = pc[b].cookie
         \/ /\ Enabled(begun[pc[b].cookie].id)
            /\ pc'[b].cookie = pc[b].cookie /\ pc[b].cookie \in 1..Len(begun)
<1> DEFINE P == \/ pc'[b].cookie = 0
                \/ pc[b].step = "connect" /\ pc'[b].cookie = pc[b].cookie
                \/ /\ Enabled(begun[pc[b].cookie].id)
                   /\ pc'[b].cookie = pc[b].cookie /\ pc[b].cookie \in 1..Len(begun)
<1>0. pc \in [Browsers -> Requests]
  BY DEF LoginTyped, LoginsTyped
<1>1. ASSUME NEW want \in Option(AllIds), NEW k \in Option(Attempts), AskLogin(b, want, k)
      PROVE  P
  <2>1. pc' = pc \/ pc'[b].cookie = 0
    BY <1>0, <1>1 DEF AskLogin
  <2>2. pc' # pc
    BY <1>1 DEF AskLogin
  <2> QED BY <2>1, <2>2
<1>2. ASSUME NEW cookie \in 1..Len(begun), NEW answer \in 1..Len(begun), NEW ok \in BOOLEAN,
             NEW named \in BOOLEAN, NEW sub \in Option(Ids),
             AskCallback(b, cookie, answer, ok, sub, named)
      PROVE  P
  BY <1>2, AskCallbackTyped
<1>3. ASSUME NEW k \in Attempts, NEW sid \in 1..Len(signedIn), AskDesktop(b, k, sid)
      PROVE  P
  <2>1. pc'[b].step = "mint"
    BY <1>0, <1>3 DEF AskDesktop
  <2> QED BY <2>1
<1>4. pc' # [pc EXCEPT ![b] = AtRest]
  <2>1. AtRest.step = "idle"
    BY DEF AtRest
  <2> QED BY <1>0, <2>1
<1>5. CASE Connect(b)
  <2>1. PICK c : pc' = [pc EXCEPT ![b] = Connected(pc[b], c)]
    BY <1>4, <1>5 DEF Connect, Connected
  <2>2. pc[b] \in Requests /\ pc[b].step = "connect"
    BY <1>0, <1>5 DEF Connect
  <2>3. pc[b] \in SignIn \/ pc[b] \in Visit
    BY <2>2, StepTells
  <2>4. Connected(pc[b], c).cookie = pc[b].cookie
    BY <2>3 DEF Connected, SignIn, Visit
  <2>5. pc'[b].cookie = pc[b].cookie
    BY <1>0, <2>1, <2>4
  <2> QED BY <2>2, <2>5
<1>6. CASE BeginLogin(b) \/ MakeSession(b) \/ Mint(b)
  BY <1>4, <1>6 DEF BeginLogin, MakeSession, Mint
<1>7. CASE Pick(b)
  <2>1. pc[b] \in Visit /\ pc[b].cookie \in 1..Len(begun)
    BY <1>7, Callback DEF Pick
  <2>2. /\ Enabled(begun[pc[b].cookie].id)
        /\ pc' = [pc EXCEPT ![b].step = "connect", ![b].entry = registry[begun[pc[b].cookie].id]]
    BY <1>4, <1>7 DEF Pick, Fail, Admits
  <2>3. pc'[b].cookie = pc[b].cookie
    BY <1>0, <2>1, <2>2 DEF Visit
  <2> QED BY <2>1, <2>2, <2>3
<1>8. CASE Take(b) \/ Exchange(b) \/ Refetch(b) \/ Fetch(b) \/ Verify(b) \/ StoreCustody(b)
  <2>1. pc[b] \in Visit
    <3>1. pc[b].step \in {"pick", "take"} \cup Past
      BY <1>8 DEF Take, Exchange, Refetch, Fetch, Verify, StoreCustody, Past
    <3> QED BY <3>1, Callback
  <2>2. pc'[b].step \notin {"connect", "take"}
    <3>1. CASE Take(b)
      BY <1>0, <1>4, <2>1, <3>1 DEF Take, Fail, Go, Visit
    <3>2. CASE Exchange(b)
      BY <1>0, <1>4, <2>1, <3>2 DEF Exchange, Fail, Visit
    <3>3. CASE Refetch(b) \/ Fetch(b)
      BY <1>0, <1>4, <2>1, <3>3 DEF Refetch, Fetch, Visit
    <3>4. CASE Verify(b)
      BY <1>0, <1>4, <2>1, <3>4 DEF Verify, Fail, Go, Visit
    <3>5. CASE StoreCustody(b)
      BY <1>0, <1>4, <2>1, <3>5 DEF StoreCustody, Fail, Visit
    <3> QED BY <1>8, <3>1, <3>2, <3>3, <3>4, <3>5
  <2> QED BY <2>2
<1> QED BY <1>1, <1>2, <1>3, <1>5, <1>6, <1>7, <1>8, Served

\* Nobody gets past the door of a provider that is not enabled.
LEMMA Enters ==
  ASSUME LoginTyped, NEW b \in Browsers, ServeBrowser(b), NEW id
  PROVE  Inside(id)' \subseteq Inside(id) \/ Enabled(id)
<1>0. BegunGrows /\ [LoginNext]_loginVars /\ OthersStay(b)
  <2>1. [LoginNext]_loginVars
    BY DEF LoginNext
  <2> QED BY <2>1, Growing, ServeOne
<1>1. SUFFICES ASSUME NEW c \in Browsers, c \in Inside(id)', ~ Enabled(id)
               PROVE  c \in Inside(id)
  BY DEF Inside
<1>2. pc'[c].step \in Within /\ pc'[c].cookie # 0 /\ begun'[pc'[c].cookie].id = id
  BY <1>1 DEF Inside, Within, Past
<1>3. ASSUME pc[c].step \in Within, pc'[c].cookie = pc[c].cookie
      PROVE  c \in Inside(id)
  <2>1. pc[c].cookie \in 1..Len(begun) /\ pc[c].cookie # 0
    BY <1>2, <1>3, InsideVisit
  <2>2. begun'[pc[c].cookie] = begun[pc[c].cookie]
    BY <1>0, <2>1 DEF BegunGrows
  <2> QED BY <1>2, <1>3, <2>1, <2>2 DEF Inside, Within, Past
<1>4. CASE c # b
  <2>1. pc'[c] = pc[c]
    BY <1>0, <1>4 DEF OthersStay
  <2> QED BY <1>2, <1>3, <2>1
<1>5. CASE c = b /\ pc'[b].step \in Past
  <2>1. StillRedeeming(b) \/ Take(b)
    BY Redeems
  <2>2. CASE StillRedeeming(b)
    BY <1>3, <1>5, <2>2 DEF StillRedeeming, Within
  <2>3. CASE Take(b)
    <3>1. pc'[b].cookie = pc[b].cookie /\ pc[b].step = "take"
      BY <1>5, <2>3, TakeLeaves DEF Redeeming, Take
    <3> QED BY <1>3, <1>5, <3>1 DEF Within
  <2> QED BY <2>1, <2>2, <2>3
<1>6. CASE c = b /\ pc'[b].step \in {"connect", "take"}
  <2>1. ASSUME Enabled(begun[pc[b].cookie].id), pc'[b].cookie = pc[b].cookie,
               pc[b].cookie \in 1..Len(begun)
        PROVE  FALSE
    <3>1. begun'[pc[b].cookie] = begun[pc[b].cookie]
      BY <1>0, <2>1 DEF BegunGrows
    <3> QED BY <1>1, <1>2, <1>6, <2>1, <3>1
  <2> QED BY <1>2, <1>3, <1>6, <2>1, Knocks DEF Within
<1> QED BY <1>2, <1>4, <1>5, <1>6 DEF Within

\* What is served is served by an administrator's leave.
LEMMA ServeSettings ==
  ASSUME LoginTyped, NEW b \in Browsers, ServeBrowser(b), NEW id \in AllIds
  PROVE  Settings(id)' = Settings(id)
<1>1. /\ registry' = registry /\ entries \in Seq(EntryRecord) /\ registry[id] \in 0..Len(entries)
      /\ Len(entries) \in Nat
  BY ServeMoves, Lengths DEF LoginTyped, ProvidersTyped, EntriesPoint
<1>2. entries' = entries \/ \E i, n : entries' = [entries EXCEPT ![i].client = n]
  BY ServeMoves DEF Connect
<1>3. \A j \in 1..Len(entries) : entries'[j].settings = entries[j].settings
  <2> TAKE j \in 1..Len(entries)
  <2>1. CASE entries' = entries
    BY <2>1
  <2>2. ASSUME NEW i, NEW n, entries' = [entries EXCEPT ![i].client = n]
        PROVE  entries'[j].settings = entries[j].settings
    <3>1. entries[j] \in EntryRecord /\ j \in DOMAIN entries
      BY <1>1
    <3> QED BY <2>2, <3>1 DEF EntryRecord
  <2> QED BY <1>2, <2>1, <2>2
<1>4. registry[id] # 0 => registry[id] \in 1..Len(entries)
  BY <1>1
<1> QED BY <1>1, <1>3, <1>4 DEF Settings

\* An administrator's steps before the row is written.
LEMMA AdminDoors ==
  ASSUME LoginTyped, AdminNext([id \in Ids |-> Inside(id)])
  PROVE  \/ UNCHANGED <<rows, people, registry, entries>> /\ history'.off = history.off
         \/ \E a \in Admins : AdminApply(a) \/ AdminInstall(a, Inside(admin[a].id))
<1>0. history \in History
  BY DEF LoginTyped, ProvidersTyped
<1>1. PICK a \in Admins :
        \/ \E id \in Ids, r \in AdminRecord : Asks(a, id, r)
        \/ AdminPrepare(a) \/ AdminConnect(a) \/ AdminApply(a)
        \/ AdminInstall(a, Inside(admin[a].id))
  BY Asking
<1>2. ASSUME NEW id \in Ids, NEW r \in AdminRecord, Asks(a, id, r)
      PROVE  UNCHANGED <<rows, people, registry, entries>> /\ history'.off = history.off
  <2>1. Ask(a, r)
    BY <1>2 DEF Asks
  <2> QED BY <1>0, <2>1, AskNotes DEF Ask
<1>3. CASE AdminConnect(a)
  BY <1>3 DEF AdminConnect
<1>4. CASE AdminPrepare(a)
  BY <1>4 DEF AdminPrepare
<1> QED BY <1>1, <1>2, <1>3, <1>4

LEMMA DoorsStep ==
  ASSUME LoginTyped, Doors, [LoginNext]_loginVars
  PROVE  Doors'
<1>0. /\ history \in History /\ Ids \subseteq AllIds /\ history.off \in [Ids -> Option(SUBSET Browsers)]
      /\ history.taken \in Nat
  <2>1. history \in History
    BY DEF LoginTyped, ProvidersTyped
  <2> QED BY <2>1 DEF History, AllIds
<1>1. ASSUME \A id \in Ids : /\ history'.off[id] = history.off[id]
                             /\ Settings(id)' = Settings(id)
                             /\ Inside(id)' \subseteq Inside(id) \/ Enabled(id)
      PROVE  Doors'
  <2> SUFFICES ASSUME NEW id \in Ids, Closed(id)'
               PROVE  ~ Enabled(id)' /\ Inside(id)' \subseteq history'.off[id]
    BY DEF Doors
  <2>1. Closed(id) /\ ~ Enabled(id) /\ Inside(id) \subseteq history.off[id]
    BY <1>1 DEF Closed, Doors
  <2> QED BY <1>1, <2>1 DEF Enabled
<1>2. ASSUME history'.off = history.off, UNCHANGED <<registry, entries, pc, begun>>
      PROVE  Doors'
  BY <1>1, <1>2 DEF Settings, Inside
<1>3. ASSUME NEW b \in Browsers, ServeBrowser(b)
      PROVE  Doors'
  <2>1. \A id \in Ids : Settings(id)' = Settings(id) /\ (Inside(id)' \subseteq Inside(id) \/ Enabled(id))
    BY <1>0, <1>3, ServeSettings, Enters
  <2>2. CASE history'.off = history.off
    BY <1>1, <2>1, <2>2
  <2>3. ASSUME NEW d, NEW e, NEW o, NEW s, NEW n, AskCallback(b, d, e, o, s, n)
        PROVE  Doors'
    <3> DEFINE off == [id \in Ids |-> IF history.off[id] = NULL THEN NULL ELSE history.off[id] \ {b}]
    <3>1. history'.off = off
      <4>1. history' = [[history EXCEPT !.off = off] EXCEPT !.inputs = @ + 1]
        BY <1>0, <2>3 DEF AskCallback, Input
      <4> HIDE DEF off
      <4> QED BY <1>0, <4>1 DEF History
    <3>2. pc'[b].step = "pick"
      <4>1. pc \in [Browsers -> Requests]
        BY DEF LoginTyped, LoginsTyped
      <4> QED BY <2>3, <4>1 DEF AskCallback
    <3> SUFFICES ASSUME NEW id \in Ids, Closed(id)'
                 PROVE  ~ Enabled(id)' /\ Inside(id)' \subseteq history'.off[id]
      BY DEF Doors
    <3>3. history.off[id] # NULL /\ history'.off[id] = history.off[id] \ {b}
      BY <3>1 DEF Closed
    <3>4. ~ Enabled(id) /\ Inside(id) \subseteq history.off[id]
      BY <3>3 DEF Doors, Closed
    <3>5. b \notin Inside(id)'
      BY <3>2 DEF Inside
    <3>6. ~ Enabled(id)' /\ Inside(id)' \subseteq Inside(id)
      BY <2>1, <3>4 DEF Enabled
    <3> QED BY <3>3, <3>4, <3>5, <3>6
  <2> QED BY <1>3, <2>2, <2>3, ServeMoves
<1>4. ASSUME UNCHANGED <<clock, logins>>, NEW a \in Admins, AdminApply(a)
      PROVE  Doors'
  <2> DEFINE r == admin[a]
             off == [history.off EXCEPT ![r.id] = IF r.next.enabled THEN NULL ELSE @]
  <2>1. \A id \in Ids : history'.off[id] = history.off[id] \/ history'.off[id] = NULL
    <3>1. CASE history' = history
      BY <3>1
    <3>2. ASSUME NEW m, history' = [history EXCEPT !.checked = m, !.off = off]
          PROVE  \A id \in Ids : history'.off[id] = history.off[id] \/ history'.off[id] = NULL
      <4>1. \A id \in Ids : off[id] = history.off[id] \/ off[id] = NULL
        BY <1>0
      <4> HIDE DEF off
      <4>2. history'.off = off
        BY <1>0, <3>2 DEF History
      <4> QED BY <4>1, <4>2
    <3>3. history' = history \/ \E m : history' = [history EXCEPT !.checked = m, !.off = off]
      <4>1. CASE history' # history
        <5> DEFINE m == [history.checked EXCEPT ![r.id] =
                           IF rows[r.id] # NULL => rows[r.id].issuer # r.next.issuer THEN r.seen ELSE @]
        <5>1. history' = [history EXCEPT !.checked = m, !.off = off]
          BY <1>0, <1>4, <4>1 DEF AdminApply, History
        <5> QED BY <5>1
      <4> QED BY <4>1
    <3> QED BY <3>1, <3>2, <3>3
  <2>2. UNCHANGED <<registry, entries, pc, begun>>
    BY <1>4 DEF AdminApply, logins
  <2>3. \A id \in Ids : Settings(id)' = Settings(id) /\ Inside(id)' = Inside(id)
    BY <2>2 DEF Settings, Inside
  <2> QED BY <2>1, <2>3 DEF Doors, Closed, Enabled
<1>5. ASSUME UNCHANGED <<clock, logins>>, NEW a \in Admins, AdminInstall(a, Inside(admin[a].id))
      PROVE  Doors'
  <2>1. /\ admin[a] \in AdminRecord /\ admin[a].id \in Ids /\ admin[a].next \in GoodSettings
        /\ admin[a].client \in Nat
    BY <1>5, AdminFields DEF LoginTyped, ProvidersTyped, AdminInstall
  <2>2. PICK i \in Ids : i = admin[a].id
    BY <2>1
  <2>3. PICK v \in GoodSettings : v = admin[a].next
    BY <2>1
  <2> DEFINE m == IF v.enabled THEN NULL ELSE IF history.off[i] = NULL THEN Inside(i) ELSE history.off[i]
             n == Len(entries) + 1
             e == Entry(i, v, admin[a].client)
  <2>4. /\ history'.off = [history.off EXCEPT ![i] = m]
        /\ registry' = [registry EXCEPT ![i] = n] /\ entries' = Append(entries, e)
        /\ UNCHANGED <<pc, begun>>
    <3>1. history' = [history EXCEPT !.off = [history.off EXCEPT ![i] = m]]
      BY <1>0, <1>5, <2>2, <2>3 DEF AdminInstall, History
    <3> HIDE DEF m
    <3>2. history'.off = [history.off EXCEPT ![i] = m]
      BY <1>0, <3>1 DEF History
    <3> QED BY <1>5, <2>2, <2>3, <3>2 DEF AdminInstall, logins
  <2>5. e \in EntryRecord /\ e.settings = v
    BY <2>1 DEF Entry, EntryRecord, AllIds
  <2> HIDE DEF e
  <2>6. /\ entries \in Seq(EntryRecord) /\ registry \in [AllIds -> Nat] /\ Len(entries) \in Nat
        /\ \A id \in AllIds : registry[id] # 0 => registry[id] \in 1..Len(entries)
    BY Lengths DEF LoginTyped, ProvidersTyped, EntriesPoint
  <2>7. n # 0 /\ entries'[n] = e /\ \A j \in 1..Len(entries) : entries'[j] = entries[j]
    BY <2>4, <2>5, <2>6
  <2>8. registry'[i] = n /\ history'.off[i] = m
    BY <1>0, <2>4, <2>6
  <2>9. Settings(i)' = v
    <3> HIDE DEF n
    <3> QED BY <2>5, <2>7, <2>8 DEF Settings
  <2>10. \A id : Inside(id)' = Inside(id)
    BY <2>4 DEF Inside
  <2> SUFFICES ASSUME NEW id \in Ids, Closed(id)'
               PROVE  ~ Enabled(id)' /\ Inside(id)' \subseteq history'.off[id]
    BY DEF Doors
  <2>11. CASE id = i
    <3>1. ~ v.enabled /\ Inside(i) \subseteq m
      <4>1. ~ v.enabled
        BY <2>8, <2>11 DEF Closed
      <4> QED BY <4>1 DEF Doors, Closed
    <3> QED BY <2>8, <2>9, <2>10, <2>11, <3>1 DEF Enabled
  <2>12. CASE id # i
    <3>1. registry'[id] = registry[id] /\ (registry[id] # 0 => entries'[registry[id]] = entries[registry[id]])
      BY <1>0, <2>4, <2>6, <2>7, <2>12
    <3>2. history'.off[id] = history.off[id]
      BY <1>0, <2>4, <2>12
    <3>3. Settings(id)' = Settings(id)
      BY <3>1 DEF Settings
    <3> QED BY <2>10, <3>2, <3>3 DEF Doors, Closed, Enabled
  <2> QED BY <2>11, <2>12
<1>6. CASE Restart
  <2> DEFINE off == [id \in Ids |-> IF rows[id] # NULL /\ ~rows[id].enabled THEN {} ELSE NULL]
  <2>1. history'.off = off
    <3>1. history' = [[history EXCEPT !.off = off] EXCEPT !.inputs = @ + 1]
      BY <1>6 DEF Restart, Input
    <3> HIDE DEF off
    <3> QED BY <1>0, <3>1 DEF History
  <2>2. /\ \A b \in Browsers : pc'[b].step = "idle"
        /\ \A id \in Ids : Settings(id)' = rows[id]
    BY <1>6, RestartTyped DEF Restart
  <2>3. \A id \in Ids : Inside(id)' = {}
    BY <2>2 DEF Inside
  <2> QED BY <2>1, <2>2, <2>3 DEF Doors, Closed, Enabled
<1>7. ASSUME NEW h, h.off = history.off, h \in History, h.inputs = history.inputs, Input(h)
      PROVE  history'.off = history.off
  BY <1>0, <1>7, InputTyped
<1>8. ASSUME NEW id \in Ids, GrantRole(id), UNCHANGED <<clock, logins>>
      PROVE  Doors'
  <2> DEFINE n == history.taken + 1
             h == [history EXCEPT !.taken = n]
  <2>0. n \in Nat
    BY <1>0
  <2> HIDE DEF n
  <2>1. h \in History /\ h.off = history.off /\ h.inputs = history.inputs
    BY <1>0, <2>0 DEF History
  <2>2. Input(h)
    BY <1>8 DEF GrantRole, n
  <2> HIDE DEF h
  <2> QED BY <1>2, <1>7, <1>8, <2>1, <2>2 DEF GrantRole, logins
<1>9. ASSUME NEW i \in Issuers, RotateKey(i), UNCHANGED <<clock, logins>>
      PROVE  Doors'
  BY <1>0, <1>2, <1>7, <1>9 DEF RotateKey, logins
<1>10. ASSUME NEW k \in Attempts, Redeem(k)
      PROVE  Doors'
  BY <1>0, <1>2, <1>7, <1>10 DEF Redeem
<1>11. ASSUME NEW p \in people, Reap(p)
      PROVE  Doors'
  BY <1>0, <1>2, <1>7, <1>11 DEF Reap
<1>12. CASE ClockTick
  BY <1>0, <1>2, <1>7, <1>12 DEF ClockTick, logins
<1>13. CASE UNCHANGED loginVars
  BY <1>2, <1>13 DEF loginVars, logins, providers
<1>14. ASSUME AdminNext([id \in Ids |-> Inside(id)]), UNCHANGED <<clock, logins>>
      PROVE  Doors'
  BY <1>2, <1>4, <1>5, <1>14, AdminDoors DEF logins
<1> QED BY <1>3, <1>6, <1>8, <1>9, <1>10, <1>11, <1>12, <1>13, <1>14, Steps

\* Nobody is let in through a closed door.
LEMMA HoldsStep ==
  ASSUME LoginTyped, Checked, Doors, DisableHolds, [LoginNext]_loginVars
  PROVE  DisableHolds'
<1>1. SessionsGrow /\ signedIn \in Seq(SessionRecord) /\ signedIn' \in Seq(SessionRecord)
      /\ DOMAIN signedIn = 1..Len(signedIn) /\ DOMAIN signedIn' = 1..Len(signedIn')
  BY Growing, TypedStep DEF LoginTyped, LoginsTyped
<1>2. \A i \in 1..Len(signedIn) : signedIn'[i].door # "shut"
  BY <1>1 DEF SessionsGrow, SameLogin, DisableHolds
<1>3. CASE Len(signedIn') = Len(signedIn)
  BY <1>1, <1>2, <1>3 DEF DisableHolds
<1>4. ASSUME NEW b \in Browsers, MakeSession(b)
      PROVE  DisableHolds'
  <2> DEFINE id == clients[pc[b].client].id
             n == Len(signedIn) + 1
  <2>1. /\ \A i \in 1..Len(signedIn') : i \in 1..Len(signedIn) \/ i = n
        /\ signedIn'[n] = Made(b)
    BY <1>4, MakeGrows
  <2>2. pc[b].step = "create" /\ Redeeming(b) /\ pc[b].cookie \in 1..Len(begun)
    BY <1>4, MakeLeaves DEF MakeSession
  <2>3. begun[pc[b].cookie].id = id /\ pc[b].cookie # 0
    BY <2>2, Lengths DEF Checked
  <2>4. b \in Inside(id)
    BY <2>2, <2>3 DEF Inside
  <2> HIDE DEF id
  <2>5. id \in Ids /\ history.off[id] # NULL => b \in history.off[id]
    BY <2>4 DEF Doors, Closed
  <2>6. Made(b).door # "shut"
    BY <2>5 DEF Made, id
  <2> HIDE DEF n
  <2> QED BY <1>1, <1>2, <2>1, <2>6 DEF DisableHolds
<1> QED BY <1>3, <1>4, Makers

\* The sessions as a login's first state has them.
LEMMA SessionsBegin ==
  ASSUME LoginInit
  PROVE  LoginTyped /\ SessionsInv
<1>1. /\ LoginTyped
      /\ \A b \in Browsers : pc[b] = AtRest
      /\ Len(begun) = 1 /\ begun[1].id = Default /\ begun[1].at = 0
      /\ Len(signedIn) = 1
      /\ signedIn[1] = [txn |-> 1, id |-> Default, answer |-> 1, at |-> 0, custody |-> 1,
                        attempt |-> NULL, live |-> TRUE, door |-> "open"]
  BY InitTyped
<1>2. \A b \in Browsers : pc[b].step = "idle"
  BY <1>1 DEF AtRest
<1>3. 1..Len(signedIn) = {1} /\ DOMAIN signedIn = {1} /\ signedIn[1].txn = 1
      /\ signedIn[1].id = Default /\ signedIn[1].answer = 1 /\ signedIn[1].at = 0
      /\ signedIn[1].door = "open"
  <2>1. DOMAIN signedIn = 1..Len(signedIn)
    BY <1>1 DEF LoginTyped, LoginsTyped
  <2> QED BY <1>1, <2>1
<1>4. txns = {} /\ handoff = EmptyHeld /\ given = {} /\ history.off = [id \in Ids |-> NULL]
  BY DEF LoginInit, ProvidersInit
<1>5. Once
  BY <1>2, <1>3, <1>4 DEF Once, Redeeming, Past
<1>6. Checked
  BY <1>2 DEF Checked, Redeeming, Past
<1>7. Earned
  BY <1>1, <1>3, LoginAssumption DEF Earned
<1>8. Bound
  BY <1>2, <1>4, EmptyIsHeld DEF Bound
<1>9. Doors
  BY <1>4 DEF Doors, Closed
<1>10. DisableHolds
  BY <1>3 DEF DisableHolds
<1> QED BY <1>1, <1>5, <1>6, <1>7, <1>8, <1>9, <1>10 DEF SessionsInv

SessionsIInv == LoginTyped /\ SessionsInv

LEMMA SessionsHold == LoginSpec => []SessionsIInv
<1>1. LoginInit => SessionsIInv
  BY SessionsBegin DEF SessionsIInv
<1>2. SessionsIInv /\ [LoginNext]_loginVars => SessionsIInv'
  BY TypedStep, OnceStep, CheckedStep, EarnedStep, BoundStep, DoorsStep, HoldsStep
  DEF SessionsIInv, SessionsInv
<1> QED BY <1>1, <1>2, PTL DEF LoginSpec

\* Whatever callbacks race, repeat, mix cookies and answers, or outlive a restart, a
\* session comes from one transaction, from the answer to it and in time
\* (oauth.rs complete_login), and what a desktop application collects is the
\* session of its own attempt (http/desktop.rs).
THEOREM SessionsComeFromLogins == LoginSpec => []LoginsAreEarned
<1>1. SessionsIInv => LoginsAreEarned
  <2> SUFFICES ASSUME SessionsIInv PROVE LoginsAreEarned
    OBVIOUS
  <2>1. DOMAIN signedIn = 1..Len(signedIn)
    BY DEF SessionsIInv, LoginTyped, LoginsTyped
  <2>2. SessionsAreEarned
    BY <2>1 DEF SessionsIInv, SessionsInv, Once, Earned, SessionsAreEarned
  <2>3. HandoffIsOwn
    BY DEF SessionsIInv, SessionsInv, Bound, MadeFor, HandoffIsOwn
  <2> QED BY <2>2, <2>3 DEF LoginsAreEarned
<1> QED BY <1>1, SessionsHold, PTL

\* A provider that was disabled or deleted lets in only the callbacks that were past
\* its door when the administrator was answered, however many administrators,
\* restarts and late connections there are (providers.rs client_for_callback).
THEOREM ClosedProvidersStayClosed == LoginSpec => []DisableHolds
<1>1. SessionsIInv => DisableHolds
  BY DEF SessionsIInv, SessionsInv
<1> QED BY <1>1, SessionsHold, PTL

----------------------------------------------------------------------------
(***************************************************************************)
(* The clients.                                                            *)
(***************************************************************************)
\* A new client of the provider id with settings s.
Builds(c, id, s) ==
  /\ c \in ClientRecord /\ clients' = Append(clients, c) /\ ~ c.busy /\ c.key = keys[c.issuer]
  /\ ClientFits(c, id, s)

LEMMA ConnectBuilds ==
  ASSUME LoginTyped, NEW b \in Browsers, Connect(b)
  PROVE  \/ UNCHANGED <<entries, clients>>
         \/ \E c : \E j \in 1..Len(entries) :
              /\ Builds(c, entries[j].id, entries[j].settings)
              /\ Len(entries') = Len(entries)
              /\ entries'[j].client = Len(clients) + 1
              /\ \A i \in 1..Len(entries) :
                   /\ entries'[i].id = entries[i].id /\ entries'[i].settings = entries[i].settings
                   /\ i # j => entries'[i] = entries[i]
<1> DEFINE r == pc[b]
           e == entries[r.entry]
           n == Len(clients) + 1
<1>1. /\ keys \in [Issuers -> Nat] /\ clients \in Seq(ClientRecord) /\ entries \in Seq(EntryRecord)
      /\ r.step = "connect" /\ Points(b)
  BY DEF Connect, LoginTyped, LoginsTyped, ProvidersTyped, LoginsPoint
<1>2. r.entry \in 1..Len(entries) /\ e \in EntryRecord /\ Len(clients) \in Nat
  <2>1. r.entry \in 1..Len(entries)
    BY <1>1 DEF Points
  <2> QED BY <2>1, Lengths
<1>3. CASE UNCHANGED <<entries, clients>>
  BY <1>3
<1>4. CASE /\ clients' = Append(clients, Built(e.id, e.settings))
           /\ entries' = [entries EXCEPT ![r.entry].client = n]
  <2> DEFINE f == [e EXCEPT !.client = n]
             c == Built(e.id, e.settings)
  <2>1. Builds(c, e.id, e.settings)
    <3>1. e.id \in AllIds /\ e.settings \in GoodSettings
      BY <1>2, EntryFields
    <3>2. /\ c \in ClientRecord /\ ~ c.busy /\ c.key = keys[c.issuer]
          /\ ClientFits(c, e.id, e.settings)
      BY <1>1, <3>1, BuiltRecord
    <3> HIDE DEF c
    <3> QED BY <1>4, <3>2 DEF Builds, c
  <2>2. n \in Nat
    BY <1>2
  <2> HIDE DEF n
  <2>3. f \in EntryRecord /\ f.id = e.id /\ f.client = n /\ f.settings = e.settings
    BY <1>2, <2>2 DEF EntryRecord
  <2>4. entries' = [entries EXCEPT ![r.entry] = f]
    BY <1>4
  <2> HIDE DEF f, c
  <2>5. /\ Len(entries') = Len(entries) /\ entries'[r.entry] = f
        /\ \A i \in 1..Len(entries) : i # r.entry => entries'[i] = entries[i]
    BY <1>1, <1>2, <2>3, <2>4, Replaced
  <2>6. PICK j \in 1..Len(entries) : j = r.entry
    BY <1>2
  <2>7. entries'[j].client = Len(clients) + 1
    BY <2>3, <2>5, <2>6 DEF n
  <2>8. \A i \in 1..Len(entries) :
          /\ entries'[i].id = entries[i].id /\ entries'[i].settings = entries[i].settings
          /\ i # j => entries'[i] = entries[i]
    BY <2>3, <2>5, <2>6
  <2>9. Builds(c, entries[j].id, entries[j].settings)
    BY <2>1, <2>6
  <2> QED BY <2>5, <2>7, <2>8, <2>9
<1> QED BY <1>3, <1>4 DEF Connect

LEMMA AdminBuilds ==
  ASSUME LoginTyped, NEW a \in Admins, AdminConnect(a)
  PROVE  /\ UNCHANGED <<rows, people, keys, registry, entries, history>>
         /\ admin[a] \in AdminRecord /\ admin[a].step = "connect"
         /\ \A b \in Admins : b # a => admin'[b] = admin[b]
         /\ \/ admin'[a] = NoRequest /\ UNCHANGED clients
            \/ /\ \E c : Builds(c, admin[a].id, admin[a].next)
               /\ admin'[a] \in AdminRecord /\ admin'[a].step = "apply"
               /\ admin'[a].client = Len(clients) + 1
               /\ admin'[a].id = admin[a].id /\ admin'[a].next = admin[a].next
               /\ admin'[a].seen = admin[a].seen /\ admin'[a].fresh = admin[a].fresh
<1> DEFINE r == admin[a]
           n == Len(clients) + 1
           c == Built(r.id, r.next)
<1>1. /\ admin \in [Admins -> {NoRequest} \cup AdminRecord] /\ r.step = "connect"
      /\ keys \in [Issuers -> Nat] /\ Len(clients) \in Nat
      /\ UNCHANGED <<rows, people, keys, registry, entries, history>>
  BY Lengths DEF AdminConnect, LoginTyped, ProvidersTyped
<1>2. r \in AdminRecord /\ r.id \in AllIds /\ r.next \in GoodSettings
  BY <1>1, AdminFields DEF AllIds
<1>3. CASE clients' = Append(clients, c)
           /\ admin' = [admin EXCEPT ![a].step = "apply", ![a].client = Len(clients) + 1]
  <2> DEFINE q == [r EXCEPT !.step = "apply", !.client = n]
  <2>1. n \in Nat
    BY <1>1
  <2> HIDE DEF n
  <2>2. /\ q \in AdminRecord /\ q.client = n /\ q.id = r.id /\ q.next = r.next /\ q.seen = r.seen
        /\ q.step = "apply" /\ q.fresh = r.fresh
    BY <1>1, <1>2, <2>1 DEF AdminRecord
  <2>3. admin' = [admin EXCEPT ![a] = q]
    BY <1>3 DEF n
  <2> HIDE DEF q
  <2>4. admin'[a] = q /\ \A b \in Admins : b # a => admin'[b] = admin[b]
    BY <1>1, <2>2, <2>3, AdminMoves
  <2>5. c \in ClientRecord /\ ~ c.busy /\ c.key = keys[c.issuer] /\ ClientFits(c, r.id, r.next)
    BY <1>1, <1>2, BuiltRecord
  <2> HIDE DEF c
  <2>6. Builds(c, r.id, r.next)
    BY <1>3, <2>5 DEF Builds
  <2> QED BY <1>1, <1>2, <2>2, <2>4, <2>6 DEF n
<1>4. CASE admin' = [admin EXCEPT ![a] = NoRequest] /\ UNCHANGED clients
  BY <1>1, <1>2, <1>4, AdminMoves
<1> QED BY <1>3, <1>4 DEF AdminConnect

LEMMA BuildsGrow ==
  ASSUME LoginTyped, NEW c, NEW id, NEW s, Builds(c, id, s)
  PROVE  /\ Len(clients') = Len(clients) + 1 /\ Len(clients) \in Nat
         /\ clients'[Len(clients) + 1] = c
         /\ \A i \in 1..Len(clients) : clients'[i] = clients[i]
         /\ \A i \in 1..Len(clients') : i \in 1..Len(clients) \/ i = Len(clients) + 1
         /\ ClientsGrow
<1>1. clients \in Seq(ClientRecord) /\ Len(clients) \in Nat
  BY DEF LoginTyped, ProvidersTyped
<1>2. c \in ClientRecord /\ clients' = Append(clients, c)
  BY DEF Builds
<1>3. /\ Len(clients') = Len(clients) + 1 /\ clients'[Len(clients')] = c
      /\ \A i \in 1..Len(clients) : clients'[i] = clients[i]
      /\ \A i \in 1..Len(clients') : i \in 1..Len(clients) \/ i = Len(clients')
  BY <1>1, <1>2, Appended
<1> QED BY <1>1, <1>3 DEF ClientsGrow

\* Applying a request: the row is written, or nothing is.
LEMMA AdminApplies ==
  ASSUME LoginTyped, NEW a \in Admins, AdminApply(a)
  PROVE  /\ UNCHANGED <<people, keys, registry, entries, clients>>
         /\ admin[a] \in AdminRecord /\ admin[a].step = "apply"
         /\ \A b \in Admins : b # a => admin'[b] = admin[b]
         /\ \/ admin'[a] = NoRequest /\ UNCHANGED <<rows, history>>
            \/ /\ Writes(admin[a]) /\ rows' = [rows EXCEPT ![admin[a].id] = Written(admin[a])]
               /\ admin'[a] \in AdminRecord /\ admin'[a].step = "install"
               /\ admin'[a].client = admin[a].client /\ admin'[a].id = admin[a].id
               /\ admin'[a].next = admin[a].next
               /\ history'.taken = history.taken /\ history'.crossed = history.crossed
               /\ history'.checked = [history.checked EXCEPT ![admin[a].id] =
                                        IF Unsettled(admin[a]) THEN admin[a].seen ELSE @]
<1> DEFINE r == admin[a]
<1>1. /\ admin \in [Admins -> {NoRequest} \cup AdminRecord] /\ r.step = "apply"
      /\ history \in History /\ UNCHANGED <<people, keys, registry, entries, clients>>
  BY DEF AdminApply, LoginTyped, ProvidersTyped
<1>2. r \in AdminRecord /\ r.id \in Ids /\ r.seen \in Nat
  BY <1>1, AdminFields
<1>3. CASE admin' = [admin EXCEPT ![a] = NoRequest] /\ UNCHANGED <<rows, history>>
  <2>1. admin'[a] = NoRequest /\ \A b \in Admins : b # a => admin'[b] = admin[b]
    BY <1>1, <1>3, AdminMoves
  <2> QED BY <1>1, <1>2, <1>3, <2>1
<1>4. CASE /\ Writes(r) /\ rows' = [rows EXCEPT ![r.id] = Written(r)]
           /\ admin' = [admin EXCEPT ![a].step = "install"]
           /\ history' = [history EXCEPT
                !.checked[r.id] = IF rows[r.id] # NULL => rows[r.id].issuer # r.next.issuer
                                  THEN r.seen ELSE @,
                !.off[r.id] = IF r.next.enabled THEN NULL ELSE @]
  <2> DEFINE q == [r EXCEPT !.step = "install"]
             k == [history.checked EXCEPT ![r.id] = IF Unsettled(r) THEN r.seen ELSE @]
             o == [history.off EXCEPT ![r.id] = IF r.next.enabled THEN NULL ELSE @]
  <2>1. /\ q \in AdminRecord /\ q.client = r.client /\ q.id = r.id /\ q.next = r.next
        /\ q.step = "install"
    BY <1>1, <1>2 DEF AdminRecord
  <2>2. admin' = [admin EXCEPT ![a] = q]
    BY <1>4
  <2>3. history' = [history EXCEPT !.checked = k, !.off = o]
    BY <1>1, <1>4 DEF History, Unsettled
  <2> HIDE DEF q, k, o
  <2>4. admin'[a] = q /\ \A b \in Admins : b # a => admin'[b] = admin[b]
    BY <1>1, <2>1, <2>2, AdminMoves
  <2>5. history'.checked = k /\ history'.taken = history.taken /\ history'.crossed = history.crossed
    BY <1>1, <2>3 DEF History
  <2> QED BY <1>1, <1>2, <1>4, <2>1, <2>4, <2>5 DEF k
<1> QED BY <1>3, <1>4 DEF AdminApply

\* Installing an entry: it is what the registry serves from now on.
LEMMA AdminInstalls ==
  ASSUME LoginTyped, NEW a \in Admins, NEW inside, AdminInstall(a, inside)
  PROVE  /\ UNCHANGED <<rows, people, keys, clients>>
         /\ admin[a] \in AdminRecord /\ admin[a].step = "install" /\ admin[a].id \in Ids
         /\ admin'[a] = NoRequest /\ \A b \in Admins : b # a => admin'[b] = admin[b]
         /\ Len(entries') = Len(entries) + 1 /\ Len(entries) \in Nat
         /\ \A i \in 1..Len(entries) : entries'[i] = entries[i]
         /\ \A i \in 1..Len(entries') : i \in 1..Len(entries) \/ i = Len(entries) + 1
         /\ entries'[Len(entries) + 1] = Entry(admin[a].id, admin[a].next, admin[a].client)
         /\ registry' = [registry EXCEPT ![admin[a].id] = Len(entries) + 1]
         /\ history'.taken = history.taken /\ history'.checked = history.checked
         /\ history'.crossed = history.crossed
<1> DEFINE r == admin[a]
           e == Entry(r.id, r.next, r.client)
           o == [history.off EXCEPT ![r.id] =
                   IF r.next.enabled THEN NULL ELSE IF @ = NULL THEN inside ELSE @]
<1>1. /\ admin \in [Admins -> {NoRequest} \cup AdminRecord] /\ r.step = "install"
      /\ history \in History /\ entries \in Seq(EntryRecord) /\ Len(entries) \in Nat
      /\ entries' = Append(entries, e) /\ registry' = [registry EXCEPT ![r.id] = Len(entries) + 1]
      /\ admin' = [admin EXCEPT ![a] = NoRequest]
      /\ UNCHANGED <<rows, people, keys, clients>>
  BY Lengths DEF AdminInstall, LoginTyped, ProvidersTyped
<1>2. /\ r \in AdminRecord /\ r.id \in Ids /\ r.id \in AllIds /\ r.next \in GoodSettings /\ r.client \in Nat
  BY <1>1, AdminFields DEF AllIds
<1>3. e \in EntryRecord
  BY <1>2 DEF Entry, EntryRecord
<1>4. history' = [history EXCEPT !.off = o]
  BY <1>1 DEF AdminInstall, History
<1> HIDE DEF e, o
<1>5. /\ Len(entries') = Len(entries) + 1 /\ entries'[Len(entries) + 1] = e
      /\ \A i \in 1..Len(entries) : entries'[i] = entries[i]
      /\ \A i \in 1..Len(entries') : i \in 1..Len(entries) \/ i = Len(entries) + 1
  BY <1>1, <1>3, Appended
<1>6. admin'[a] = NoRequest /\ \A b \in Admins : b # a => admin'[b] = admin[b]
  BY <1>1, AdminMoves
<1>7. history'.taken = history.taken /\ history'.checked = history.checked
      /\ history'.crossed = history.crossed
  BY <1>1, <1>4 DEF History
<1> QED BY <1>1, <1>2, <1>5, <1>6, <1>7 DEF e

LEMMA AskedFields ==
  ASSUME LoginTyped, NEW a \in Admins, NEW id \in Ids, NEW r \in AdminRecord, Asks(a, id, r)
  PROVE  /\ UNCHANGED <<rows, people, keys, registry, entries, clients>>
         /\ admin'[a] = r /\ \A b \in Admins : b # a => admin'[b] = admin[b]
         /\ history'.taken = history.taken /\ history'.checked = history.checked
         /\ history'.crossed = Crossed(a, id)
         /\ history.crossed \subseteq history'.crossed
         /\ admin[a].step = "idle"
<1>1. /\ history \in History /\ admin \in [Admins -> {NoRequest} \cup AdminRecord]
      /\ admin' = [admin EXCEPT ![a] = r] /\ Ask(a, r) /\ r.id = id
      /\ UNCHANGED <<rows, people, keys, registry, entries, clients>> /\ admin[a].step = "idle"
  BY DEF Asks, Ask, LoginTyped, ProvidersTyped
<1>2. /\ history'.taken = history.taken /\ history'.checked = history.checked
      /\ history'.crossed = Crossed(a, id)
  BY <1>1, AskNotes
<1>3. history.crossed \subseteq history'.crossed
  BY <1>2 DEF Crossed
<1> QED BY <1>1, <1>2, <1>3, AdminMoves

\* The ids that were crossed stay so.
LEMMA CrossedGrows ==
  ASSUME LoginTyped, [LoginNext]_loginVars
  PROVE  /\ history.crossed \subseteq history'.crossed
         /\ UNCHANGED admin => history'.crossed = history.crossed
<1>0. history \in History
  BY DEF LoginTyped, ProvidersTyped
<1> DEFINE P == history'.crossed = history.crossed
<1>1. ASSUME NEW h \in History, h.inputs = history.inputs, h.crossed = history.crossed, Input(h)
      PROVE  P
  BY <1>0, <1>1, InputTyped
<1>2. Input(history) => P
  BY <1>0, <1>1
<1>3. ASSUME NEW o \in [Ids -> Option(SUBSET Browsers)], Input([history EXCEPT !.off = o]) PROVE P
  <2> DEFINE h == [history EXCEPT !.off = o]
  <2>1. h \in History /\ h.inputs = history.inputs /\ h.crossed = history.crossed
    BY <1>0 DEF History
  <2> HIDE DEF h
  <2>2. Input(h)
    BY <1>3 DEF h
  <2> QED BY <1>1, <2>1, <2>2
<1>4. ASSUME NEW n \in Nat, Input([history EXCEPT !.taken = n]) PROVE P
  <2> DEFINE h == [history EXCEPT !.taken = n]
  <2>1. h \in History /\ h.inputs = history.inputs /\ h.crossed = history.crossed
    BY <1>0 DEF History
  <2> HIDE DEF h
  <2>2. Input(h)
    BY <1>4 DEF h
  <2> QED BY <1>1, <2>1, <2>2
<1>5. ASSUME NEW b \in Browsers, ServeBrowser(b) PROVE P
  <2>1. ASSUME NEW want \in Option(AllIds), NEW k \in Option(Attempts), AskLogin(b, want, k)
        PROVE  P
    BY <1>2, <2>1 DEF AskLogin
  <2>2. ASSUME NEW cookie \in 1..Len(begun), NEW answer \in 1..Len(begun), NEW ok \in BOOLEAN,
               NEW named \in BOOLEAN, NEW sub \in Option(Ids),
               AskCallback(b, cookie, answer, ok, sub, named)
        PROVE  P
    <3> DEFINE o == [id \in Ids |-> IF history.off[id] = NULL THEN NULL ELSE history.off[id] \ {b}]
    <3>1. Input([history EXCEPT !.off = o])
      BY <2>2 DEF AskCallback
    <3>2. o \in [Ids -> Option(SUBSET Browsers)]
      BY <1>0 DEF History, Option
    <3> HIDE DEF o
    <3> QED BY <1>3, <3>1, <3>2
  <2>3. ASSUME NEW k \in Attempts, NEW sid \in 1..Len(signedIn), AskDesktop(b, k, sid)
        PROVE  P
    BY <1>2, <2>3 DEF AskDesktop
  <2>4. Connect(b) \/ Refetch(b) \/ Fetch(b) => P
    BY DEF Connect, Refetch, Fetch
  <2>5. BeginLogin(b) \/ Pick(b) \/ Take(b) \/ Exchange(b) \/ Verify(b) \/ MakeSession(b) \/ Mint(b) => P
    BY DEF BeginLogin, Pick, Take, Exchange, Verify, MakeSession, Mint, providers
  <2>6. StoreCustody(b) => P
    BY <1>0 DEF StoreCustody, History
  <2> QED BY <1>5, <2>1, <2>2, <2>3, <2>4, <2>5, <2>6, Served
<1>6. ASSUME AdminNext([id \in Ids |-> Inside(id)])
      PROVE  /\ history.crossed \subseteq history'.crossed
             /\ UNCHANGED admin => P
  <2>1. PICK a \in Admins :
          \/ \E id \in Ids, r \in AdminRecord : Asks(a, id, r)
          \/ AdminPrepare(a) \/ AdminConnect(a) \/ AdminApply(a)
          \/ AdminInstall(a, Inside(admin[a].id))
    BY <1>6, Asking
  <2>2. ASSUME NEW id \in Ids, NEW r \in AdminRecord, Asks(a, id, r)
        PROVE  history.crossed \subseteq history'.crossed /\ admin' # admin
    <3>1. admin'[a] = r /\ admin[a].step = "idle" /\ history.crossed \subseteq history'.crossed
      BY <2>2, AskedFields
    <3>2. r.step # "idle"
      BY <2>2 DEF Asks
    <3> QED BY <3>1, <3>2
  <2>3. AdminPrepare(a) \/ AdminConnect(a) => P
    BY DEF AdminPrepare, AdminConnect
  <2>4. AdminApply(a) => P
    BY AdminApplies
  <2>5. AdminInstall(a, Inside(admin[a].id)) => P
    BY AdminInstalls
  <2> QED BY <2>1, <2>2, <2>3, <2>4, <2>5
<1>7. ASSUME NEW id \in Ids, GrantRole(id) PROVE P
  <2>1. history.taken + 1 \in Nat
    BY <1>0 DEF History
  <2> QED BY <1>4, <1>7, <2>1 DEF GrantRole
<1>8. CASE Restart
  <2> DEFINE o == [id \in Ids |-> IF rows[id] # NULL /\ ~rows[id].enabled THEN {} ELSE NULL]
  <2>1. Input([history EXCEPT !.off = o])
    BY <1>8 DEF Restart
  <2>2. o \in [Ids -> Option(SUBSET Browsers)]
    BY DEF Option
  <2> HIDE DEF o
  <2> QED BY <1>3, <2>1, <2>2
<1>9. ASSUME \/ \E i \in Issuers : RotateKey(i)
             \/ \E k \in Attempts : Redeem(k)
             \/ \E p \in people : Reap(p)
             \/ ClockTick
      PROVE  P
  BY <1>2, <1>9 DEF RotateKey, Redeem, Reap, ClockTick
<1>10. UNCHANGED loginVars => P
  BY DEF loginVars, providers
<1> QED BY <1>5, <1>6, <1>7, <1>8, <1>9, <1>10, Steps

\* A request that has nothing to do with its client's keys.
Calm(b) == pc[b].step # "fetch" /\ pc'[b].step \notin {"refetch", "fetch", "verify"}

LEMMA Calms ==
  ASSUME LoginTyped, NEW b \in Browsers, ServeBrowser(b)
  PROVE  Calm(b) \/ Exchange(b) \/ Refetch(b) \/ Fetch(b)
<1>0. pc \in [Browsers -> Requests]
  BY DEF LoginTyped, LoginsTyped
<1>1. ASSUME NEW want \in Option(AllIds), NEW k \in Option(Attempts), AskLogin(b, want, k)
      PROVE  Calm(b)
  <2>1. pc[b].step = "idle" /\ (pc' = pc \/ pc'[b].step = "connect")
    BY <1>0, <1>1 DEF AskLogin
  <2> QED BY <2>1 DEF Calm
<1>2. ASSUME NEW cookie \in 1..Len(begun), NEW answer \in 1..Len(begun), NEW ok \in BOOLEAN,
             NEW named \in BOOLEAN, NEW sub \in Option(Ids),
             AskCallback(b, cookie, answer, ok, sub, named)
      PROVE  Calm(b)
  <2>1. pc[b].step = "idle"
    BY <1>2 DEF AskCallback
  <2> QED BY <1>2, <2>1, AskCallbackTyped DEF Calm
<1>3. ASSUME NEW k \in Attempts, NEW sid \in 1..Len(signedIn), AskDesktop(b, k, sid)
      PROVE  Calm(b)
  <2>1. pc[b].step = "idle" /\ pc'[b].step = "mint"
    BY <1>0, <1>3 DEF AskDesktop
  <2> QED BY <2>1 DEF Calm
<1>4. pc' = [pc EXCEPT ![b] = AtRest] /\ pc[b].step # "fetch" => Calm(b)
  <2>1. AtRest.step = "idle"
    BY DEF AtRest
  <2> QED BY <1>0, <2>1 DEF Calm
<1>5. CASE Connect(b)
  <2>1. PICK c : pc' = [pc EXCEPT ![b] = Connected(pc[b], c)] \/ pc' = [pc EXCEPT ![b] = AtRest]
    BY <1>5 DEF Connect, Connected
  <2>2. pc[b] \in Requests /\ pc[b].step = "connect"
    BY <1>0, <1>5 DEF Connect
  <2>3. CASE pc' = [pc EXCEPT ![b] = Connected(pc[b], c)]
    <3>1. (pc[b] \in SignIn /\ pc[b].then = "begin") \/ (pc[b] \in Visit /\ pc[b].then = "take")
      BY <2>2, StepTells
    <3>2. Connected(pc[b], c).step \in {"begin", "take"}
      BY <3>1 DEF Connected, SignIn, Visit
    <3>3. pc'[b].step \in {"begin", "take"}
      BY <1>0, <2>3, <3>2
    <3> QED BY <2>2, <3>3 DEF Calm
  <2> QED BY <1>4, <2>1, <2>2, <2>3
<1>6. CASE BeginLogin(b) \/ MakeSession(b) \/ Mint(b)
  BY <1>4, <1>6 DEF BeginLogin, MakeSession, Mint
<1>7. CASE Pick(b) \/ Take(b) \/ Verify(b) \/ StoreCustody(b)
  <2>1. pc[b] \in Visit /\ pc[b].step # "fetch"
    <3>1. pc[b].step \in {"pick", "take"} \cup Past /\ pc[b].step # "fetch"
      BY <1>7 DEF Pick, Take, Verify, StoreCustody, Past
    <3> QED BY <3>1, Callback
  <2>2. ASSUME pc' # [pc EXCEPT ![b] = AtRest]
        PROVE  pc'[b].step \notin {"refetch", "fetch", "verify"}
    <3>1. CASE Pick(b)
      BY <1>0, <2>1, <2>2, <3>1 DEF Pick, Fail, Visit
    <3>2. CASE Take(b)
      BY <1>0, <2>1, <2>2, <3>2 DEF Take, Fail, Go, Visit
    <3>3. CASE Verify(b)
      BY <1>0, <2>1, <2>2, <3>3 DEF Verify, Fail, Go, Visit
    <3>4. CASE StoreCustody(b)
      BY <1>0, <2>1, <2>2, <3>4 DEF StoreCustody, Fail, Visit
    <3> QED BY <1>7, <3>1, <3>2, <3>3, <3>4
  <2> QED BY <1>4, <2>1, <2>2 DEF Calm
<1> QED BY <1>1, <1>2, <1>3, <1>5, <1>6, <1>7, Served

\* A client that a step adds is idle and has its issuer's keys.
LEMMA NewClients ==
  ASSUME LoginTyped, [LoginNext]_loginVars
  PROVE  \/ Restart
         \/ \E b \in Browsers : Refetch(b) \/ Fetch(b)
         \/ /\ Len(clients) <= Len(clients')
            /\ \A i \in 1..Len(clients) : clients'[i] = clients[i]
            /\ \A i \in 1..Len(clients') :
                 \/ i \in 1..Len(clients)
                 \/ ~ clients'[i].busy /\ clients'[i].key = keys[clients'[i].issuer]
<1> DEFINE P == /\ Len(clients) <= Len(clients')
                /\ \A i \in 1..Len(clients) : clients'[i] = clients[i]
                /\ \A i \in 1..Len(clients') :
                     \/ i \in 1..Len(clients)
                     \/ ~ clients'[i].busy /\ clients'[i].key = keys[clients'[i].issuer]
<1>1. ASSUME clients' = clients PROVE P
  BY <1>1, Lengths
<1>2. ASSUME NEW c, NEW id, NEW s, Builds(c, id, s) PROVE P
  <2>1. /\ Len(clients') = Len(clients) + 1 /\ Len(clients) \in Nat
        /\ clients'[Len(clients) + 1] = c
        /\ \A i \in 1..Len(clients) : clients'[i] = clients[i]
        /\ \A i \in 1..Len(clients') : i \in 1..Len(clients) \/ i = Len(clients) + 1
    BY <1>2, BuildsGrow
  <2>2. ~ c.busy /\ c.key = keys[c.issuer]
    BY <1>2 DEF Builds
  <2> QED BY <2>1, <2>2
<1>3. ASSUME NEW b \in Browsers, Connect(b) PROVE P
  BY <1>1, <1>2, <1>3, ConnectBuilds
<1>4. ASSUME AdminNext([id \in Ids |-> Inside(id)]) PROVE P
  <2>1. PICK a \in Admins :
          \/ \E id \in Ids, r \in AdminRecord : Asks(a, id, r)
          \/ AdminPrepare(a) \/ AdminConnect(a) \/ AdminApply(a)
          \/ AdminInstall(a, Inside(admin[a].id))
    BY <1>4, Asking
  <2>2. CASE AdminConnect(a)
    BY <1>1, <1>2, <2>2, AdminBuilds
  <2>3. CASE \/ \E id \in Ids, r \in AdminRecord : Asks(a, id, r)
             \/ AdminPrepare(a) \/ AdminApply(a) \/ AdminInstall(a, Inside(admin[a].id))
    BY <1>1, <2>3 DEF Asks, Ask, AdminPrepare, AdminApply, AdminInstall
  <2> QED BY <2>1, <2>2, <2>3
<1>5. ASSUME NEW b \in Browsers, ServeBrowser(b) PROVE P \/ Refetch(b) \/ Fetch(b)
  BY <1>1, <1>3, <1>5, ServeMoves
<1>6. ASSUME \/ \E id \in Ids : GrantRole(id)
             \/ \E i \in Issuers : RotateKey(i)
             \/ \E k \in Attempts : Redeem(k)
             \/ \E p \in people : Reap(p)
             \/ ClockTick
             \/ UNCHANGED loginVars
      PROVE  P
  BY <1>1, <1>6 DEF GrantRole, RotateKey, Redeem, Reap, ClockTick, loginVars, providers
<1> QED BY <1>4, <1>5, <1>6, Steps

\* The steps that have nothing to do with any client's keys.
LEMMA AllCalm ==
  ASSUME LoginTyped, [LoginNext]_loginVars
  PROVE  \/ Restart
         \/ \E b \in Browsers : (Exchange(b) \/ Refetch(b) \/ Fetch(b)) /\ OthersStay(b)
         \/ \A b \in Browsers : Calm(b) \/ pc'[b] = pc[b]
<1>1. ASSUME NEW b \in Browsers, ServeBrowser(b)
      PROVE  \/ (Exchange(b) \/ Refetch(b) \/ Fetch(b)) /\ OthersStay(b)
             \/ \A c \in Browsers : Calm(c) \/ pc'[c] = pc[c]
  BY <1>1, ServeOne, Calms DEF OthersStay
<1>2. ASSUME \/ UNCHANGED <<clock, logins>>
             \/ \E k \in Attempts : Redeem(k)
             \/ \E p \in people : Reap(p)
             \/ ClockTick
             \/ UNCHANGED loginVars
      PROVE  pc' = pc
  BY <1>2 DEF logins, loginVars, Redeem, Reap, ClockTick
<1> QED BY <1>1, <1>2, Steps

LEMMA FetchingPoints ==
  ASSUME LoginTyped, NEW b \in Browsers, pc[b].step \in {"refetch", "fetch", "verify"}
  PROVE  pc[b] \in Visit /\ pc[b].client \in 1..Len(clients) /\ clients[pc[b].client] \in ClientRecord
<1>1. pc[b].step \in {"pick", "take"} \cup Past /\ pc[b].step # "pick"
  BY DEF Past
<1> QED BY <1>1, Callback

\* One fetch at a time.
LEMMA OneFetchStep ==
  ASSUME LoginTyped, OneFetch, [LoginNext]_loginVars
  PROVE  OneFetch'
<1>0. pc \in [Browsers -> Requests] /\ clients \in Seq(ClientRecord) /\ Len(clients) \in Nat
  BY DEF LoginTyped, LoginsTyped, ProvidersTyped
<1>1. \A b \in Browsers : \A i : Fetching(b, i) => i \in 1..Len(clients)
  BY FetchingPoints DEF Fetching
<1>2. CASE /\ \A b \in Browsers : Calm(b) \/ pc'[b] = pc[b]
           /\ Len(clients) <= Len(clients')
           /\ \A i \in 1..Len(clients) : clients'[i] = clients[i]
           /\ \A i \in 1..Len(clients') : i \in 1..Len(clients) \/ ~ clients'[i].busy
  <2>1. \A b \in Browsers : \A i : Fetching(b, i)' <=> Fetching(b, i)
    BY <1>2 DEF Calm, Fetching
  <2> SUFFICES ASSUME NEW i \in 1..Len(clients')
               PROVE  /\ clients'[i].busy => \E b \in Browsers : Fetching(b, i)
                      /\ \A b \in Browsers : Fetching(b, i) => clients'[i].busy
                      /\ \A b, c \in Browsers : Fetching(b, i) /\ Fetching(c, i) => b = c
    BY <2>1 DEF OneFetch
  <2>2. CASE i \in 1..Len(clients)
    BY <1>2, <2>2 DEF OneFetch
  <2>3. CASE i \notin 1..Len(clients)
    BY <1>1, <1>2, <2>3
  <2> QED BY <2>2, <2>3
<1>3. ASSUME NEW b \in Browsers, Exchange(b), OthersStay(b)
      PROVE  OneFetch'
  <2>1. pc[b] \in Visit /\ pc[b].step = "exchange" /\ clients' = clients
    <3>1. pc[b].step \in {"pick", "take"} \cup Past /\ pc[b].step = "exchange" /\ clients' = clients
      BY <1>3 DEF Exchange, Past, providers
    <3> QED BY <3>1, Callback
  <2>2. pc'[b].step # "fetch"
    <3>1. CASE pc' = [pc EXCEPT ![b] = AtRest]
      BY <1>0, <3>1 DEF AtRest
    <3>2. CASE pc' # [pc EXCEPT ![b] = AtRest]
      BY <1>0, <1>3, <2>1, <3>2 DEF Exchange, Fail, Visit
    <3> QED BY <3>1, <3>2
  <2>3. \A c \in Browsers : \A i : Fetching(c, i)' <=> Fetching(c, i)
    BY <1>3, <2>1, <2>2 DEF OthersStay, Fetching
  <2> QED BY <2>1, <2>3 DEF OneFetch
<1>4. ASSUME NEW b \in Browsers, Refetch(b), OthersStay(b)
      PROVE  OneFetch'
  <2> DEFINE j == pc[b].client
             recent == clients[j].last # NULL /\ pc[b].now - clients[j].last < RefetchMin
             d == [clients[j] EXCEPT !.last = pc[b].now, !.busy = TRUE]
  <2>1. pc[b] \in Visit /\ pc[b].step = "refetch" /\ ~ clients[j].busy /\ j \in 1..Len(clients)
        /\ clients[j] \in ClientRecord
    <3>1. pc[b].step = "refetch" /\ ~ clients[j].busy
      BY <1>4 DEF Refetch
    <3> QED BY <3>1, FetchingPoints
  <2>2. \A c \in Browsers : \A i : c # b => (Fetching(c, i)' <=> Fetching(c, i))
    BY <1>4 DEF OthersStay, Fetching
  <2>3. \A c \in Browsers : ~ Fetching(c, j)
    BY <2>1 DEF OneFetch
  <2>4. CASE recent
    <3>1. clients' = clients /\ pc'[b].step = "verify"
      BY <1>0, <1>4, <2>1, <2>4 DEF Refetch, Visit
    <3>2. \A c \in Browsers : \A i : Fetching(c, i)' <=> Fetching(c, i)
      BY <2>1, <2>2, <3>1 DEF Fetching
    <3> QED BY <3>1, <3>2 DEF OneFetch
  <2>5. CASE ~ recent
    <3>1. clients' = [clients EXCEPT ![j] = d] /\ pc'[b].step = "fetch" /\ pc'[b].client = j
      BY <1>0, <1>4, <2>1, <2>5 DEF Refetch, Visit
    <3>2. d.busy
      BY <2>1 DEF ClientRecord
    <3> HIDE DEF d
    <3>3. /\ Len(clients') = Len(clients) /\ clients'[j] = d
          /\ \A i \in 1..Len(clients) : i # j => clients'[i] = clients[i]
      BY <1>0, <2>1, <3>1
    <3>4. \A i : Fetching(b, i)' <=> i = j
      BY <3>1 DEF Fetching
    <3>5. \A i : ~ Fetching(b, i)
      BY <2>1 DEF Fetching
    <3> HIDE DEF j
    <3> SUFFICES ASSUME NEW i \in 1..Len(clients)
                 PROVE  /\ clients'[i].busy => \E c \in Browsers : Fetching(c, i)'
                        /\ \A c \in Browsers : Fetching(c, i)' => clients'[i].busy
                        /\ \A c, e \in Browsers : Fetching(c, i)' /\ Fetching(e, i)' => c = e
      BY <3>3 DEF OneFetch
    <3>6. CASE i = j
      BY <2>2, <2>3, <3>2, <3>3, <3>4, <3>6
    <3>7. CASE i # j
      BY <2>2, <3>3, <3>4, <3>5, <3>7 DEF OneFetch
    <3> QED BY <3>6, <3>7
  <2> QED BY <2>4, <2>5
<1>5. ASSUME NEW b \in Browsers, Fetch(b), OthersStay(b)
      PROVE  OneFetch'
  <2>1. PICK j \in 1..Len(clients) :
          /\ j = pc[b].client /\ pc[b] \in Visit /\ pc[b].step = "fetch"
          /\ clients[j] \in ClientRecord
    <3>1. pc[b].step = "fetch"
      BY <1>5 DEF Fetch
    <3> QED BY <3>1, FetchingPoints
  <2>2. PICK worked \in BOOLEAN :
          /\ clients' = [clients EXCEPT ![j] = IF worked THEN FetchedKeys(clients[j])
                                               ELSE FetchFailed(clients[j])]
          /\ pc' = [pc EXCEPT ![b].step = "verify", ![b].excuse = ~worked]
    BY <1>5, <2>1 DEF Fetch
  <2> DEFINE d == IF worked THEN FetchedKeys(clients[j]) ELSE FetchFailed(clients[j])
  <2>3. ~ d.busy /\ clients' = [clients EXCEPT ![j] = d]
    BY <2>1, <2>2 DEF FetchedKeys, FetchFailed, ClientRecord
  <2> HIDE DEF d
  <2>4. /\ Len(clients') = Len(clients) /\ clients'[j] = d
        /\ \A i \in 1..Len(clients) : i # j => clients'[i] = clients[i]
    BY <1>0, <2>1, <2>3
  <2>5. pc'[b].step = "verify"
    BY <1>0, <2>1, <2>2 DEF Visit
  <2>6. \A i : ~ Fetching(b, i)' /\ (Fetching(b, i) <=> i = j)
    BY <2>1, <2>5 DEF Fetching
  <2>7. \A c \in Browsers : \A i : c # b => (Fetching(c, i)' <=> Fetching(c, i))
    BY <1>5 DEF OthersStay, Fetching
  <2>8. \A c \in Browsers : ~ Fetching(c, j)'
    BY <2>1, <2>6, <2>7 DEF OneFetch
  <2> SUFFICES ASSUME NEW i \in 1..Len(clients)
               PROVE  /\ clients'[i].busy => \E c \in Browsers : Fetching(c, i)'
                      /\ \A c \in Browsers : Fetching(c, i)' => clients'[i].busy
                      /\ \A c, e \in Browsers : Fetching(c, i)' /\ Fetching(e, i)' => c = e
    BY <2>4 DEF OneFetch
  <2>9. CASE i = j
    BY <2>3, <2>4, <2>8, <2>9
  <2>10. CASE i # j
    BY <2>4, <2>6, <2>7, <2>10 DEF OneFetch
  <2> QED BY <2>9, <2>10
<1>6. CASE Restart
  <2>1. /\ \A b \in Browsers : pc'[b].step = "idle"
        /\ \A i \in 1..Len(clients') : ~ clients'[i].busy
    <3>1. \A b \in Browsers : pc'[b].step = "idle"
      BY <1>6, RestartTyped
    <3> QED BY <1>6, <3>1 DEF Restart, BootClients
  <2> QED BY <2>1 DEF OneFetch, Fetching
<1>7. ASSUME NEW b \in Browsers, Refetch(b) \/ Fetch(b)
      PROVE  OthersStay(b)
  BY <1>7, ServeOne DEF ServeBrowser
<1>8. \A b \in Browsers : Exchange(b) => clients' = clients
  BY DEF Exchange, providers
<1> QED BY <1>2, <1>3, <1>4, <1>5, <1>6, <1>7, AllCalm, NewClients

\* Keys only advance.
KeysGrow == \A j \in Issuers : keys[j] \in Nat /\ keys'[j] \in Nat /\ keys[j] <= keys'[j]

ClientKeysGrow ==
  \A i \in 1..Len(clients) : /\ clients'[i].issuer = clients[i].issuer
                             /\ clients'[i].key \in Nat /\ clients[i].key <= clients'[i].key

LEMMA KeysDoGrow ==
  ASSUME LoginTyped, [LoginNext]_loginVars
  PROVE  KeysGrow
<1>1. keys' = keys => KeysGrow
  BY DEF KeysGrow, LoginTyped, ProvidersTyped
<1>2. ASSUME NEW i \in Issuers, RotateKey(i), UNCHANGED <<clock, logins>>
      PROVE  KeysGrow
  BY <1>2, RotateTyped DEF KeysGrow
<1>3. ASSUME NEW b \in Browsers, ServeBrowser(b) PROVE keys' = keys
  BY <1>3, ServeMoves
<1>4. ASSUME AdminNext([id \in Ids |-> Inside(id)])
      PROVE  keys' = keys
  BY <1>4 DEF AdminNext, AskCreate, AskUpdate, AskDelete, Ask, AdminPrepare, AdminConnect, AdminApply, AdminInstall
<1>5. ASSUME \/ \E id \in Ids : GrantRole(id)
             \/ \E k \in Attempts : Redeem(k)
             \/ \E p \in people : Reap(p)
             \/ ClockTick
             \/ Restart
             \/ UNCHANGED loginVars
      PROVE  keys' = keys
  BY <1>5 DEF GrantRole, Redeem, Reap, ClockTick, Restart, loginVars, providers
<1> QED BY <1>1, <1>2, <1>3, <1>4, <1>5, Steps

LEMMA SeesKept ==
  ASSUME LoginTyped, KeysGrow, ClientKeysGrow, NEW b \in Browsers, Sees(b), pc'[b] = pc[b]
  PROVE  Sees(b)'
<1> DEFINE i == pc[b].client
<1>1. SUFFICES ASSUME pc[b].step \in {"refetch", "fetch", "verify"} PROVE Sees(b)'
  BY DEF Sees
<1>2. pc[b] \in Visit /\ i \in 1..Len(clients) /\ clients[i] \in ClientRecord /\ pc[b].key \in Nat
  BY <1>1, FetchingPoints, VisitFields
<1>3. clients[i].issuer \in Issuers /\ clients[i].key \in Nat
  BY <1>2, ClientFields
<1>4. /\ clients'[i].issuer = clients[i].issuer /\ clients'[i].key \in Nat
      /\ clients[i].key <= clients'[i].key
  BY <1>2 DEF ClientKeysGrow
<1>5. /\ pc[b].key <= keys[clients[i].issuer]
      /\ pc[b].step = "verify" /\ ~ pc[b].excuse => pc[b].key <= clients[i].key
  BY <1>1 DEF Sees
<1>6. pc[b].key <= keys'[clients'[i].issuer]
  BY <1>2, <1>3, <1>4, <1>5 DEF KeysGrow
<1>7. pc[b].step = "verify" /\ ~ pc[b].excuse => pc[b].key <= clients'[i].key
  BY <1>2, <1>3, <1>4, <1>5
<1> QED BY <1>6, <1>7 DEF Sees

LEMMA KeysStep ==
  ASSUME LoginTyped, KeysAdvance, [LoginNext]_loginVars
  PROVE  KeysAdvance'
<1>0. /\ pc \in [Browsers -> Requests] /\ clients \in Seq(ClientRecord) /\ Len(clients) \in Nat
      /\ KeysGrow
  BY KeysDoGrow DEF LoginTyped, LoginsTyped, ProvidersTyped
<1>1. \A i \in 1..Len(clients) :
        /\ clients[i].issuer \in Issuers /\ clients[i].key \in Nat
        /\ clients[i].key <= keys[clients[i].issuer]
  BY Lengths, ClientFields DEF KeysAdvance
<1>2. \A i \in 1..Len(clients') :
        /\ clients'[i].issuer \in Issuers /\ clients'[i].key \in Nat
  <2>1. clients' \in Seq(ClientRecord)
    BY TypedStep DEF LoginTyped, ProvidersTyped
  <2>2. \A i \in 1..Len(clients') : clients'[i] \in ClientRecord
    BY <2>1
  <2> QED BY <2>2, ClientFields
<1>3. CASE /\ Len(clients) <= Len(clients')
           /\ \A i \in 1..Len(clients) : clients'[i] = clients[i]
           /\ \A i \in 1..Len(clients') :
                 \/ i \in 1..Len(clients)
                 \/ ~ clients'[i].busy /\ clients'[i].key = keys[clients'[i].issuer]
           /\ \A b \in Browsers : \/ Calm(b)
                                  \/ pc'[b] = pc[b]
                                  \/ Exchange(b) /\ keys' = keys
  <2>1. ClientKeysGrow
    BY <1>1, <1>3 DEF ClientKeysGrow
  <2>2. \A i \in 1..Len(clients') : clients'[i].key <= keys'[clients'[i].issuer]
    <3> TAKE i \in 1..Len(clients')
    <3>1. CASE i \in 1..Len(clients)
      <4>1. clients'[i] = clients[i]
        BY <1>3, <3>1
      <4>2. /\ clients[i].issuer \in Issuers /\ clients[i].key \in Nat
            /\ clients[i].key <= keys[clients[i].issuer]
        BY <1>1, <3>1
      <4> QED BY <1>0, <4>1, <4>2 DEF KeysGrow
    <3>2. CASE clients'[i].key = keys[clients'[i].issuer]
      BY <1>0, <1>2, <3>2 DEF KeysGrow
    <3> QED BY <1>3, <3>1, <3>2
  <2>3. ASSUME NEW b \in Browsers, Exchange(b), keys' = keys
        PROVE  Sees(b)'
    <3> DEFINE j == pc[b].client
               k == keys[clients[j].issuer]
    <3>1. /\ pc[b] \in Visit /\ j \in 1..Len(clients)
      <4>1. pc[b].step \in {"pick", "take"} \cup Past /\ pc[b].step # "pick"
        BY <2>3 DEF Exchange, Past
      <4> QED BY <4>1, Callback
    <3>2. CASE pc' = [pc EXCEPT ![b] = AtRest]
      BY <1>0, <3>2 DEF AtRest, Sees
    <3>3. CASE pc' = [pc EXCEPT ![b].key = k, ![b].step = IF k = clients[j].key THEN "verify" ELSE "refetch"]
      <4>1. /\ pc'[b].key = k /\ pc'[b].client = j
            /\ pc'[b].step = "verify" => k = clients[j].key
        BY <1>0, <3>1, <3>3 DEF Visit
      <4>2. clients'[j] = clients[j] /\ clients[j].issuer \in Issuers /\ clients[j].key \in Nat
        BY <1>1, <1>3, <3>1
      <4>3. k \in Nat /\ k <= k /\ k = keys'[clients'[j].issuer]
        BY <1>0, <2>3, <4>2 DEF KeysGrow
      <4> HIDE DEF j, k
      <4> QED BY <4>1, <4>2, <4>3 DEF Sees
    <3> QED BY <2>3, <3>2, <3>3 DEF Exchange, Fail
  <2>4. \A b \in Browsers : Sees(b)'
    <3> TAKE b \in Browsers
    <3>1. CASE Calm(b)
      BY <3>1 DEF Calm, Sees
    <3>2. CASE pc'[b] = pc[b]
      BY <1>0, <2>1, <3>2, SeesKept DEF KeysAdvance
    <3> QED BY <1>3, <2>3, <3>1, <3>2
  <2> QED BY <2>2, <2>4 DEF KeysAdvance
<1>4. ASSUME NEW b \in Browsers, Refetch(b), OthersStay(b), keys' = keys
      PROVE  KeysAdvance'
  <2>1. PICK j \in 1..Len(clients) :
          /\ j = pc[b].client /\ pc[b] \in Visit /\ pc[b].step = "refetch"
          /\ clients[j] \in ClientRecord
    <3>1. pc[b].step = "refetch"
      BY <1>4 DEF Refetch
    <3> QED BY <3>1, FetchingPoints
  <2> DEFINE d == [clients[j] EXCEPT !.last = pc[b].now, !.busy = TRUE]
  <2>2. /\ clients' = clients \/ clients' = [clients EXCEPT ![j] = d]
        /\ d.key = clients[j].key /\ d.issuer = clients[j].issuer
    BY <1>4, <2>1 DEF Refetch, ClientRecord
  <2> HIDE DEF d
  <2>3. /\ Len(clients') = Len(clients)
        /\ \A i \in 1..Len(clients) : clients'[i].key = clients[i].key /\ clients'[i].issuer = clients[i].issuer
    BY <1>0, <2>2
  <2>4. ClientKeysGrow
    BY <1>1, <2>3 DEF ClientKeysGrow
  <2>5. \A i \in 1..Len(clients') : clients'[i].key <= keys'[clients'[i].issuer]
    BY <1>1, <1>4, <2>3
  <2>6. Sees(b)'
    <3>1. /\ pc'[b].key = pc[b].key /\ pc'[b].client = j
          /\ pc'[b].step = "verify" => pc'[b].excuse
      BY <1>0, <1>4, <2>1 DEF Refetch, Visit
    <3>2. pc[b].key <= keys[clients[j].issuer]
      BY <2>1 DEF KeysAdvance, Sees
    <3> QED BY <1>4, <2>3, <3>1, <3>2 DEF Sees
  <2>7. \A c \in Browsers : c # b => Sees(c)'
    BY <1>0, <1>4, <2>4, SeesKept DEF KeysAdvance, OthersStay
  <2> QED BY <2>5, <2>6, <2>7 DEF KeysAdvance
<1>5. ASSUME NEW b \in Browsers, Fetch(b), OthersStay(b), keys' = keys
      PROVE  KeysAdvance'
  <2>1. PICK j \in 1..Len(clients) :
          /\ j = pc[b].client /\ pc[b] \in Visit /\ pc[b].step = "fetch"
          /\ clients[j] \in ClientRecord
    <3>1. pc[b].step = "fetch"
      BY <1>5 DEF Fetch
    <3> QED BY <3>1, FetchingPoints
  <2>2. PICK worked \in BOOLEAN :
          /\ clients' = [clients EXCEPT ![j] = IF worked THEN FetchedKeys(clients[j])
                                               ELSE FetchFailed(clients[j])]
          /\ pc' = [pc EXCEPT ![b].step = "verify", ![b].excuse = ~worked]
    BY <1>5, <2>1 DEF Fetch
  <2> DEFINE d == IF worked THEN FetchedKeys(clients[j]) ELSE FetchFailed(clients[j])
             k == keys[clients[j].issuer]
  <2>3. /\ clients' = [clients EXCEPT ![j] = d] /\ d.issuer = clients[j].issuer
        /\ d.key = IF worked THEN k ELSE clients[j].key
    BY <2>1, <2>2 DEF FetchedKeys, FetchFailed, ClientRecord
  <2>4. k \in Nat /\ clients[j].key \in Nat /\ clients[j].key <= k
    BY <1>0, <1>1 DEF KeysGrow
  <2>5. d.key \in Nat /\ clients[j].key <= d.key /\ d.key <= k /\ (worked => d.key = k)
    BY <2>3, <2>4
  <2> HIDE DEF d
  <2>6. /\ Len(clients') = Len(clients) /\ clients'[j] = d
        /\ \A i \in 1..Len(clients) : i # j => clients'[i] = clients[i]
    BY <1>0, <2>3
  <2>7. ClientKeysGrow
    BY <1>1, <2>3, <2>5, <2>6 DEF ClientKeysGrow
  <2>8. \A i \in 1..Len(clients') : clients'[i].key <= keys'[clients'[i].issuer]
    BY <1>1, <1>5, <2>3, <2>5, <2>6
  <2>9. Sees(b)'
    <3>1. /\ pc'[b].key = pc[b].key /\ pc'[b].client = j /\ pc'[b].step = "verify"
          /\ pc'[b].excuse <=> ~ worked
      BY <1>0, <2>1, <2>2 DEF Visit
    <3>2. pc[b].key <= k
      BY <2>1 DEF KeysAdvance, Sees
    <3>3. k = keys'[clients'[j].issuer]
      BY <1>5, <2>3, <2>6
    <3> HIDE DEF k
    <3> QED BY <2>5, <2>6, <3>1, <3>2, <3>3 DEF Sees
  <2>10. \A c \in Browsers : c # b => Sees(c)'
    BY <1>0, <1>5, <2>7, SeesKept DEF KeysAdvance, OthersStay
  <2> QED BY <2>8, <2>9, <2>10 DEF KeysAdvance
<1>6. CASE Restart
  <2> DEFINE c == [id |-> Default, issuer |-> DefaultIssuer, cred |-> 1, key |-> keys[DefaultIssuer],
                   last |-> NULL, busy |-> FALSE]
  <2>1. clients' = << c >> /\ keys' = keys /\ c.key = keys[c.issuer] /\ c.issuer \in Issuers
    BY <1>6, ProvidersAssumption DEF Restart, BootClients
  <2>2. \A b \in Browsers : pc'[b].step = "idle"
    BY <1>6, RestartTyped
  <2>3. c.key \in Nat
    BY <1>0, <2>1 DEF KeysGrow
  <2> HIDE DEF c
  <2>4. \A i \in 1..Len(clients') : clients'[i].key <= keys'[clients'[i].issuer]
    BY <2>1, <2>3
  <2> QED BY <2>2, <2>4 DEF KeysAdvance, Sees
<1>7. ASSUME NEW b \in Browsers, Refetch(b) \/ Fetch(b) \/ Exchange(b)
      PROVE  OthersStay(b) /\ keys' = keys
  BY <1>7, ServeOne, ServeMoves DEF ServeBrowser
<1>8. \A b \in Browsers : Exchange(b) => clients' = clients
  BY DEF Exchange, providers
<1>9. ASSUME NEW b \in Browsers, Exchange(b)
      PROVE  KeysAdvance'
  <2>1. \A c \in Browsers : \/ pc'[c] = pc[c]
                            \/ Exchange(c) /\ keys' = keys
    BY <1>7, <1>9 DEF OthersStay
  <2> QED BY <1>0, <1>3, <1>8, <1>9, <2>1
<1> QED BY <1>3, <1>4, <1>5, <1>6, <1>7, <1>9, AllCalm, NewClients

\* A login is refused for its key only with an excuse, or the key is out of use.
LEMMA RefusedStep ==
  ASSUME LoginTyped, KeysAdvance, RefusedOnlyWhenThrottled, [LoginNext]_loginVars
  PROVE  RefusedOnlyWhenThrottled'
<1>1. ASSUME refused' = refused PROVE RefusedOnlyWhenThrottled'
  BY <1>1 DEF RefusedOnlyWhenThrottled
<1>2. ASSUME NEW b \in Browsers, Verify(b) PROVE RefusedOnlyWhenThrottled'
  <2> DEFINE j == pc[b].client
             k == keys[clients[j].issuer]
             r == [excuse |-> pc[b].excuse, stale |-> pc[b].key # k]
  <2>1. /\ pc[b] \in Visit /\ j \in 1..Len(clients) /\ clients[j] \in ClientRecord
        /\ pc[b].step = "verify" /\ pc[b].key \in Nat /\ pc[b].excuse \in BOOLEAN
    <3>1. pc[b].step = "verify"
      BY <1>2 DEF Verify
    <3> QED BY <3>1, FetchingPoints, VisitFields
  <2>2. clients[j].key \in Nat /\ clients[j].issuer \in Issuers /\ k \in Nat
    BY <2>1, ClientFields DEF LoginTyped, ProvidersTyped
  <2>3. clients[j].key <= k /\ (~ pc[b].excuse => pc[b].key <= clients[j].key)
    BY <2>1 DEF KeysAdvance, Sees
  <2>4. CASE pc[b].key # clients[j].key
    <3>1. pc[b].excuse \/ pc[b].key # k
      BY <2>1, <2>2, <2>3, <2>4
    <3>2. r.excuse \/ r.stale
      BY <3>1
    <3>3. refused' \subseteq refused \cup {r}
      BY <1>2 DEF Verify
    <3> HIDE DEF r
    <3> QED BY <3>2, <3>3 DEF RefusedOnlyWhenThrottled
  <2>5. CASE pc[b].key = clients[j].key
    BY <1>1, <1>2, <2>5 DEF Verify
  <2> QED BY <2>4, <2>5
<1>3. ASSUME NEW b \in Browsers, ServeBrowser(b) PROVE RefusedOnlyWhenThrottled'
  BY <1>1, <1>2, <1>3, ServeMoves
<1>4. ASSUME \/ UNCHANGED <<clock, logins>>
             \/ \E k \in Attempts : Redeem(k)
             \/ \E p \in people : Reap(p)
             \/ ClockTick
             \/ Restart
             \/ UNCHANGED loginVars
      PROVE  refused' = refused
  BY <1>4 DEF logins, loginVars, Redeem, Reap, ClockTick, Restart
<1> QED BY <1>1, <1>3, <1>4, Steps

\* The config provider's client, which a process boots with.
LEMMA ClientsBegin ==
  ASSUME LoginInit
  PROVE  ClientsInv
<1> DEFINE c == [id |-> Default, issuer |-> DefaultIssuer, cred |-> 1, key |-> 1, last |-> NULL,
                 busy |-> FALSE]
<1>1. /\ LoginTyped /\ \A b \in Browsers : pc[b] = AtRest
      /\ \A i \in 1..Len(entries) : entries[i].client = 0 \/ entries[i] = BootEntry
  BY InitTyped
<1>2. clients = << c >> /\ refused = {} /\ admin = [a \in Admins |-> NoRequest]
      /\ keys \in {[i \in Issuers |-> n] : n \in 1..MaxKeys}
  BY ProvidersAssumption DEF LoginInit, ProvidersInit, BootClients
<1>3. /\ c.id = Default /\ c.issuer = DefaultIssuer /\ c.cred = 1 /\ c.key = 1 /\ ~ c.busy
  OBVIOUS
<1> HIDE DEF c
<1>4. Len(clients) = 1 /\ clients[1] = c /\ 1..Len(clients) = {1}
  BY <1>2
<1>5. 1 <= keys[DefaultIssuer]
  BY <1>2, ProvidersAssumption
<1>6. \A b \in Browsers : pc[b].step = "idle"
  BY <1>1 DEF AtRest
<1>7. OneFetch
  BY <1>3, <1>4, <1>6 DEF OneFetch, Fetching
<1>8. KeysAdvance
  BY <1>3, <1>4, <1>5, <1>6 DEF KeysAdvance, Sees
<1> QED BY <1>2, <1>7, <1>8 DEF ClientsInv, RefusedOnlyWhenThrottled

ClientsIInv == LoginTyped /\ ClientsInv

LEMMA ClientsHold == LoginSpec => []ClientsIInv
<1>1. LoginInit => ClientsIInv
  BY InitTyped, ClientsBegin DEF ClientsIInv
<1>2. ClientsIInv /\ [LoginNext]_loginVars => ClientsIInv'
  BY TypedStep, OneFetchStep, KeysStep, RefusedStep DEF ClientsIInv, ClientsInv
<1> QED BY <1>1, <1>2, PTL DEF LoginSpec

\* What points at an entry, a client or a session finds it, and a fetch is under way
\* while its lock is held.
LEMMA KeysAndTypes == LoginSpec => [](LoginTypeOK /\ RefusedOnlyWhenThrottled)
<1>1. ClientsIInv /\ SessionsIInv => LoginTypeOK /\ RefusedOnlyWhenThrottled
  <2> SUFFICES ASSUME LoginTyped, ClientsIInv, SessionsIInv
               PROVE  LoginTypeOK /\ RefusedOnlyWhenThrottled
    BY DEF ClientsIInv
  <2>1. LoginTypeOK
    <3>1. GoodSettings \subseteq SettingsType
      BY DEF GoodSettings
    <3>2. rows \in [Ids -> {NULL} \cup SettingsType]
      BY <3>1 DEF LoginTyped, ProvidersTyped, Option
    <3>3. registry \in [AllIds -> 0..Len(entries)]
      BY DEF LoginTyped, ProvidersTyped, EntriesPoint
    <3>4. \A i \in DOMAIN entries : /\ entries[i].settings \in SettingsType
                                    /\ entries[i].client \in 0..Len(clients)
      <4>1. DOMAIN entries = 1..Len(entries)
        BY DEF LoginTyped, ProvidersTyped
      <4> QED BY <3>1, <4>1, Lengths, EntryFields DEF LoginTyped, EntriesPoint
    <3>5. \A i \in DOMAIN clients :
            clients[i].busy <=> \E b \in Browsers : pc[b].step = "fetch" /\ pc[b].client = i
      <4>1. DOMAIN clients = 1..Len(clients) /\ \A i \in 1..Len(clients) : clients[i].busy \in BOOLEAN
        BY Lengths, ClientFields DEF LoginTyped, ProvidersTyped
      <4> QED BY <4>1 DEF ClientsIInv, ClientsInv, OneFetch, Fetching
    <3>6. txns \subseteq DOMAIN begun
      BY DEF LoginTyped, LoginsTyped, LoginsPoint
    <3>7. \A k \in Attempts : handoff.logins[k] # NULL => handoff.logins[k].sid \in DOMAIN signedIn
      <4>1. DOMAIN signedIn = 1..Len(signedIn)
        BY DEF LoginTyped, LoginsTyped
      <4> QED BY <4>1 DEF SessionsIInv, SessionsInv, Bound, MadeFor
    <3>8. history.inputs \in 0..MaxInputs
      BY DEF LoginTyped, ProvidersTyped, History
    <3> QED BY <3>2, <3>3, <3>4, <3>5, <3>6, <3>7, <3>8 DEF LoginTypeOK
  <2> QED BY <2>1 DEF ClientsIInv, ClientsInv
<1> QED BY <1>1, ClientsHold, SessionsHold, PTL

----------------------------------------------------------------------------
(***************************************************************************)
(* The rows and the registry.                                              *)
(***************************************************************************)
LEMMA BusyMeans ==
  ASSUME LoginTyped, NEW a \in Admins
  PROVE  /\ admin[a] \in AdminRecord <=> admin[a].step # "idle"
         /\ admin[a].step = "install" => admin[a] \in AdminRecord
         /\ admin[a] \in AdminRecord => admin[a].id \in Ids
<1>1. admin[a] \in {NoRequest} \cup AdminRecord
  BY DEF LoginTyped, ProvidersTyped
<1>2. admin[a] \in AdminRecord => admin[a].step # "idle"
  BY DEF AdminRecord
<1> QED BY <1>1, <1>2, AdminFields, Idle

LEMMA NoOther ==
  ASSUME Alone, NEW a \in Admins, NEW id \in Ids, Busy(a, id), id \notin history.crossed
  PROVE  \A b \in Admins : b # a => ~ Busy(b, id)
BY DEF Alone

\* A request changes the row and the entry of its own id.
LEMMA RowsMove ==
  ASSUME LoginTyped, LoginTyped', RowsServed, NEW a \in Admins, NEW i \in Ids,
         history.crossed \subseteq history'.crossed,
         \A b \in Admins : b # a => admin'[b] = admin[b],
         \A id \in Ids : Busy(a, id) \/ Busy(a, id)' => id = i,
         \A id \in Ids : id # i => rows'[id] = rows[id] /\ Settings(id)' = Settings(id),
         i \notin history'.crossed =>
            /\ \A b \in Admins : b # a => ~ Busy(b, i)
            /\ RowServed(i)'
            /\ Busy(a, i)' => Current(admin[a])'
  PROVE  RowsServed'
<1>1. ASSUME NEW b \in Admins, NEW id \in Ids, Busy(b, id)', id # i
      PROVE  b # a /\ admin'[b] = admin[b] /\ Busy(b, id)
  BY <1>1 DEF Busy
<1>2. ASSUME NEW b \in Admins, Busy(b, i)', i \notin history'.crossed
      PROVE  b = a
  BY <1>2 DEF Busy
<1>3. Alone'
  <2> SUFFICES ASSUME NEW b \in Admins, NEW c \in Admins, NEW id \in Ids,
                      Busy(b, id)', Busy(c, id)', id \notin history'.crossed
               PROVE  b = c
    BY DEF Alone
  <2>1. CASE id = i
    BY <1>2, <2>1
  <2>2. CASE id # i
    BY <1>1, <2>2 DEF RowsServed, Alone
  <2> QED BY <2>1, <2>2
<1>4. ASSUME NEW id \in Ids, id \notin history'.crossed
      PROVE  RowServed(id)' /\ \A b \in Admins : Busy(b, id)' => Current(admin[b])'
  <2>1. CASE id = i
    BY <1>2, <1>4, <2>1
  <2>2. CASE id # i
    <3>1. /\ RowServed(id) /\ \A b \in Admins : Busy(b, id) => Current(admin[b])
          /\ rows'[id] = rows[id] /\ Settings(id)' = Settings(id)
      BY <1>4, <2>2 DEF RowsServed
    <3>2. Installing(id) => Installing(id)'
      <4> SUFFICES ASSUME NEW b \in Admins, admin[b].step = "install", admin[b].id = id
                   PROVE  admin'[b].step = "install" /\ admin'[b].id = id
        BY DEF Installing
      <4>1. Busy(b, id)
        BY BusyMeans DEF Busy
      <4>2. b # a
        BY <2>2, <4>1
      <4> QED BY <4>2
    <3>3. RowServed(id)'
      BY <3>1, <3>2 DEF RowServed
    <3>4. ASSUME NEW b \in Admins, Busy(b, id)' PROVE Current(admin[b])'
      <4>1. admin'[b] = admin[b] /\ Busy(b, id)
        BY <1>1, <2>2, <3>4
      <4>2. Current(admin[b]) /\ admin[b].id = id
        BY <3>1, <4>1 DEF Busy
      <4> QED BY <3>1, <4>1, <4>2 DEF Current
    <3> QED BY <3>3, <3>4
  <2> QED BY <2>1, <2>2
<1> QED BY <1>3, <1>4 DEF RowsServed

LEMMA RowsKept ==
  ASSUME RowsServed, UNCHANGED <<rows, admin>>, history'.crossed = history.crossed,
         \A id \in Ids : Settings(id)' = Settings(id)
  PROVE  RowsServed'
<1>1. Alone'
  BY DEF RowsServed, Alone, Busy
<1>2. \A id \in Ids : RowServed(id) => RowServed(id)'
  BY DEF RowServed, Installing
<1>3. ASSUME NEW id \in Ids, NEW a \in Admins, Busy(a, id)', Busy(a, id) => Current(admin[a])
      PROVE  Current(admin[a])'
  BY <1>3 DEF Busy, Current
<1> QED BY <1>1, <1>2, <1>3 DEF RowsServed

\* A request that is made has read what the rows say.
LEMMA RowsAsked ==
  ASSUME LoginTyped, LoginTyped', RowsServed, NEW a \in Admins, NEW id \in Ids,
         NEW r \in AdminRecord, Asks(a, id, r)
  PROVE  RowsServed'
<1>1. /\ UNCHANGED <<rows, registry, entries>> /\ admin'[a] = r /\ admin[a].step = "idle"
      /\ \A b \in Admins : b # a => admin'[b] = admin[b]
      /\ history'.crossed = Crossed(a, id) /\ history.crossed \subseteq history'.crossed
  BY AskedFields
<1>2. \A j \in Ids : Settings(j)' = Settings(j)
  BY <1>1 DEF Settings
<1>3. \A j \in Ids : ~ Busy(a, j)
  BY <1>1, BusyMeans DEF Busy
<1>4. r.id = id
  BY DEF Asks
<1>5. ASSUME id \notin history'.crossed
      PROVE  /\ \A b \in Admins : b # a => ~ Busy(b, id)
             /\ RowServed(id)' /\ Current(r)'
  <2>1. id \notin history.crossed /\ \A b \in Admins : b # a => ~ (admin[b].step # "idle" /\ admin[b].id = id)
    BY <1>1, <1>5 DEF Crossed
  <2>2. \A b \in Admins : b # a => ~ Busy(b, id)
    BY <2>1, BusyMeans DEF Busy
  <2>3. ~ Installing(id)
    BY <1>1, <2>1 DEF Installing
  <2>4. Settings(id) = rows[id]
    BY <2>1, <2>3 DEF RowsServed, RowServed
  <2>5. RowServed(id)'
    BY <1>1, <1>2, <2>4 DEF RowServed
  <2>6. Current(r)'
    BY <1>1, <1>2, <1>4, <2>4 DEF Asks, Current
  <2> QED BY <2>2, <2>5, <2>6
<1>6. \A j \in Ids : Busy(a, j)' => j = id
  BY <1>1, <1>4 DEF Busy
<1>7. Current(r)' => Current(admin[a])'
  BY <1>1 DEF Current
<1> QED BY <1>1, <1>2, <1>3, <1>5, <1>6, <1>7, RowsMove

\* Until its row is written, a request only goes on or is given up.
LEMMA RowsCarried ==
  ASSUME LoginTyped, LoginTyped', RowsServed, NEW a \in Admins, admin[a] \in AdminRecord,
         UNCHANGED <<rows, registry, entries>>, history'.crossed = history.crossed,
         admin[a].step \in {"prepare", "connect", "apply"},
         \A b \in Admins : b # a => admin'[b] = admin[b],
         \/ admin'[a] = NoRequest
         \/ /\ admin'[a] \in AdminRecord /\ admin'[a].step \in {"connect", "apply"}
            /\ admin'[a].id = admin[a].id /\ admin'[a].next = admin[a].next
            /\ admin'[a].fresh = admin[a].fresh
  PROVE  RowsServed'
<1> PICK i \in Ids : i = admin[a].id
  BY AdminFields, Idle
<1>1. i \in Ids /\ Busy(a, i) /\ \A id \in Ids : Busy(a, id) => id = i
  BY BusyMeans DEF Busy
<1>2. \A id \in Ids : Settings(id)' = Settings(id)
  BY DEF Settings
<1>3. \A id \in Ids : Busy(a, id)' => id = i
  BY Idle DEF Busy
<1>4. ASSUME i \notin history'.crossed
      PROVE  /\ \A b \in Admins : b # a => ~ Busy(b, i)
             /\ RowServed(i)' /\ (Busy(a, i)' => Current(admin[a])')
  <2>1. Current(admin[a]) /\ RowServed(i) /\ \A b \in Admins : b # a => ~ Busy(b, i)
    BY <1>1, <1>4, NoOther DEF RowsServed
  <2>2. ~ Installing(i)
    BY <2>1, BusyMeans DEF Installing, Busy
  <2>3. RowServed(i)'
    BY <1>1, <1>2, <2>1, <2>2 DEF RowServed
  <2>4. ASSUME Busy(a, i)' PROVE Current(admin[a])'
    <3>1. /\ admin'[a].step \in {"connect", "apply"} /\ admin'[a].id = i
          /\ admin'[a].next = admin[a].next /\ admin'[a].fresh = admin[a].fresh
      BY <2>4, Idle DEF Busy
    <3> QED BY <2>1, <3>1 DEF Current
  <2> QED BY <2>1, <2>3, <2>4
<1> QED BY <1>1, <1>2, <1>3, <1>4, RowsMove

\* A row that was just written is what is installed next.
LEMMA RowsApplied ==
  ASSUME LoginTyped, LoginTyped', RowsServed, NEW a \in Admins, AdminApply(a)
  PROVE  RowsServed'
<1> DEFINE r == admin[a]
<1> PICK i \in Ids : i = r.id
  BY AdminApplies, BusyMeans
<1>1. /\ UNCHANGED <<registry, entries>> /\ r \in AdminRecord /\ r.step = "apply"
      /\ \A b \in Admins : b # a => admin'[b] = admin[b]
      /\ rows \in [Ids -> Option(GoodSettings)] /\ i \in Ids
  <2>1. /\ r \in AdminRecord /\ r.step = "apply" /\ UNCHANGED <<registry, entries>>
        /\ \A b \in Admins : b # a => admin'[b] = admin[b]
    BY AdminApplies
  <2> QED BY <2>1, AdminFields DEF LoginTyped, ProvidersTyped
<1>2. Busy(a, i) /\ \A id \in Ids : Busy(a, id) => id = i
  BY <1>1 DEF Busy
<1>3. \A id \in Ids : Settings(id)' = Settings(id)
  BY <1>1 DEF Settings
<1>4. CASE admin'[a] = NoRequest /\ UNCHANGED <<rows, history>>
  BY <1>1, <1>4, RowsCarried
<1>5. CASE /\ Writes(r) /\ rows' = [rows EXCEPT ![i] = Written(r)]
           /\ admin'[a] \in AdminRecord
           /\ admin'[a].step = "install" /\ admin'[a].id = i /\ admin'[a].next = r.next
           /\ history'.crossed = history.crossed
  <2>1. rows'[i] = Written(r) /\ \A id \in Ids : id # i => rows'[id] = rows[id]
    BY <1>1, <1>5
  <2>2. \A id \in Ids : Busy(a, id)' => id = i
    BY <1>5 DEF Busy
  <2>3. RowServed(i)'
    BY <1>5 DEF RowServed, Installing
  <2>4. ASSUME i \notin history'.crossed
        PROVE  /\ \A b \in Admins : b # a => ~ Busy(b, i)
               /\ Current(admin[a])'
    <3>1. Current(r) /\ \A b \in Admins : b # a => ~ Busy(b, i)
      BY <1>1, <1>2, <1>5, <2>4, NoOther DEF RowsServed
    <3>2. r.fresh \/ r.next.cred = rows[i].cred
      BY <1>1, <3>1 DEF Current
    <3>3. Written(r) = r.next
      BY <1>1, <1>5, <3>2, ApplyWrites
    <3>4. rows'[i] = r.next
      BY <2>1, <3>3
    <3> QED BY <1>5, <3>1, <3>4 DEF Current
  <2> HIDE DEF r
  <2> QED BY <1>1, <1>2, <1>3, <1>5, <2>1, <2>2, <2>3, <2>4, RowsMove
<1> QED BY <1>4, <1>5, AdminApplies

LEMMA RowsInstalled ==
  ASSUME LoginTyped, LoginTyped', RowsServed, NEW a \in Admins, NEW inside,
         AdminInstall(a, inside)
  PROVE  RowsServed'
<1> DEFINE r == admin[a]
           n == Len(entries) + 1
<1> PICK i \in Ids : i = r.id
  BY AdminInstalls
<1>1. /\ rows' = rows /\ r \in AdminRecord /\ r.step = "install" /\ i \in Ids /\ i \in AllIds
      /\ admin'[a] = NoRequest /\ n \in Nat /\ n # 0
      /\ \A b \in Admins : b # a => admin'[b] = admin[b]
      /\ \A j \in 1..Len(entries) : entries'[j] = entries[j]
      /\ entries'[n] = Entry(i, r.next, r.client)
      /\ registry' = [registry EXCEPT ![i] = n]
      /\ history'.crossed = history.crossed
  BY AdminInstalls DEF AllIds
<1>2. Busy(a, i) /\ \A id \in Ids : (Busy(a, id) \/ Busy(a, id)') => id = i
  BY <1>1, Idle DEF Busy
<1>3. registry \in [AllIds -> Nat] /\ \A id \in AllIds : registry[id] \in 0..Len(entries)
  BY DEF LoginTyped, ProvidersTyped, EntriesPoint
<1>4. Entry(i, r.next, r.client).settings = r.next
  BY DEF Entry
<1>5. registry'[i] = n
  BY <1>1, <1>3
<1>6. Settings(i)' = r.next
  BY <1>1, <1>4, <1>5 DEF Settings
<1>7. ASSUME NEW id \in Ids, id # i PROVE Settings(id)' = Settings(id)
  <2>1. id \in AllIds
    BY DEF AllIds
  <2>2. registry'[id] = registry[id]
    BY <1>1, <1>3, <1>7, <2>1
  <2>3. registry[id] # 0 => entries'[registry[id]] = entries[registry[id]]
    BY <1>1, <1>3, <2>1
  <2> QED BY <2>2, <2>3 DEF Settings
<1>8. ASSUME i \notin history'.crossed
      PROVE  (\A b \in Admins : b # a => ~ Busy(b, i)) /\ RowServed(i)'
  <2>1. Current(r) /\ \A b \in Admins : b # a => ~ Busy(b, i)
    BY <1>1, <1>2, <1>8, NoOther DEF RowsServed
  <2>2. rows[i] = r.next
    BY <1>1, <2>1 DEF Current
  <2> QED BY <1>1, <1>6, <2>1, <2>2 DEF RowServed
<1>9. ~ Busy(a, i)'
  BY <1>1, Idle DEF Busy
<1> HIDE DEF n, r
<1> QED BY <1>1, <1>2, <1>7, <1>8, <1>9, RowsMove

\* The registry serves the rows, but for the one about to be installed.
LEMMA RowsStep ==
  ASSUME LoginTyped, RowsServed, [LoginNext]_loginVars
  PROVE  RowsServed'
<1>0. LoginTyped'
  BY TypedStep
<1>1. ASSUME NEW b \in Browsers, ServeBrowser(b) PROVE RowsServed'
  <2>1. UNCHANGED <<rows, admin>>
    BY <1>1, ServeMoves
  <2>2. \A id \in Ids : Settings(id)' = Settings(id)
    BY <1>1, ServeSettings DEF AllIds
  <2> QED BY <2>1, <2>2, RowsKept, CrossedGrows
<1>2. ASSUME UNCHANGED <<rows, admin, registry, entries>> PROVE RowsServed'
  BY <1>2, RowsKept, CrossedGrows DEF Settings
<1>3. ASSUME AdminNext([id \in Ids |-> Inside(id)]) PROVE RowsServed'
  <2>1. PICK a \in Admins :
          \/ \E id \in Ids, r \in AdminRecord : Asks(a, id, r)
          \/ AdminPrepare(a) \/ AdminConnect(a) \/ AdminApply(a)
          \/ AdminInstall(a, Inside(admin[a].id))
    BY <1>3, Asking
  <2>2. CASE AdminConnect(a)
    <3>1. /\ UNCHANGED <<rows, registry, entries, history>>
          /\ admin[a] \in AdminRecord /\ admin[a].step = "connect"
          /\ \A b \in Admins : b # a => admin'[b] = admin[b]
          /\ \/ admin'[a] = NoRequest
             \/ /\ admin'[a] \in AdminRecord /\ admin'[a].step = "apply"
                /\ admin'[a].id = admin[a].id
                /\ admin'[a].next = admin[a].next /\ admin'[a].fresh = admin[a].fresh
      BY <2>2, AdminBuilds
    <3> QED BY <1>0, <3>1, RowsCarried
  <2>3. CASE AdminPrepare(a)
    BY <1>0, <2>3, AdminPrepares, RowsCarried
  <2> QED BY <1>0, <2>1, <2>2, <2>3, RowsAsked, RowsApplied, RowsInstalled
<1>4. CASE Restart
  <2>1. \A id \in Ids : Settings(id)' = rows'[id]
    BY <1>4, RestartTyped
  <2>2. \A a \in Admins : admin'[a] = NoRequest
    BY <1>4 DEF Restart
  <2> QED BY <2>1, <2>2, Idle DEF RowsServed, RowServed, Alone, Busy
<1>5. ASSUME \/ \E id \in Ids : GrantRole(id)
             \/ \E i \in Issuers : RotateKey(i)
             \/ \E k \in Attempts : Redeem(k)
             \/ \E p \in people : Reap(p)
             \/ ClockTick
             \/ UNCHANGED loginVars
      PROVE  UNCHANGED <<rows, admin, registry, entries>>
  BY <1>5 DEF GrantRole, RotateKey, Redeem, Reap, ClockTick, loginVars, providers
<1> QED BY <1>1, <1>2, <1>3, <1>4, <1>5, Steps

LEMMA RowsBegin ==
  ASSUME LoginInit
  PROVE  RowsServed
<1>1. \A id \in Ids : Settings(id) = rows[id]
  BY InitTyped
<1>2. \A a \in Admins : admin[a] = NoRequest
  BY DEF LoginInit, ProvidersInit
<1> QED BY <1>1, <1>2, Idle DEF RowsServed, RowServed, Alone, Busy

----------------------------------------------------------------------------
(***************************************************************************)
(* The clients and the settings they were built from.                      *)
(***************************************************************************)
\* Whatever still points at its client has the client that fits.
EntryKept(i) ==
  /\ i \in 1..Len(entries) /\ entries'[i].client = entries[i].client
  /\ entries'[i].id = entries[i].id /\ entries'[i].settings = entries[i].settings

AdminKept(a) ==
  /\ admin[a] \in AdminRecord /\ admin'[a].client = admin[a].client
  /\ admin'[a].id = admin[a].id /\ admin'[a].next = admin[a].next

LEMMA FitsKept ==
  ASSUME LoginTyped, Fits, ClientsGrow, history.crossed \subseteq history'.crossed,
         \A i \in 1..Len(entries') :
            \/ EntryKept(i)
            \/ entries'[i].client = 0
            \/ entries'[i].id \in history'.crossed
            \/ ClientFits(clients'[entries'[i].client], entries'[i].id, entries'[i].settings),
         \A a \in Admins : admin'[a] \in AdminRecord =>
            \/ AdminKept(a)
            \/ admin'[a].client = 0
            \/ admin'[a].id \in history'.crossed
            \/ ClientFits(clients'[admin'[a].client], admin'[a].id, admin'[a].next)
  PROVE  Fits'
<1>1. ASSUME NEW i \in 1..Len(clients), NEW id, NEW s, ClientFits(clients[i], id, s)
      PROVE  ClientFits(clients'[i], id, s)
  BY <1>1 DEF ClientsGrow, ClientFits
<1>2. /\ Len(clients) \in Nat
      /\ \A i \in 1..Len(entries) : entries[i].client \in 0..Len(clients)
      /\ \A a \in Admins : admin[a] \in AdminRecord => admin[a].client \in 0..Len(clients)
  BY Lengths DEF LoginTyped, EntriesPoint
<1>3. ASSUME NEW i \in 1..Len(entries'), entries'[i].client # 0, entries'[i].id \notin history'.crossed
      PROVE  ClientFits(clients'[entries'[i].client], entries'[i].id, entries'[i].settings)
  <2>1. CASE EntryKept(i)
    <3>1. /\ entries[i].client \in 1..Len(clients) /\ i \in 1..Len(entries)
          /\ entries[i].id \notin history.crossed
      BY <1>2, <1>3, <2>1 DEF EntryKept
    <3>2. ClientFits(clients[entries[i].client], entries[i].id, entries[i].settings)
      BY <1>3, <2>1, <3>1 DEF Fits, EntryKept
    <3>3. ClientFits(clients'[entries[i].client], entries[i].id, entries[i].settings)
      BY <1>1, <3>1, <3>2
    <3> QED BY <2>1, <3>3 DEF EntryKept
  <2> QED BY <1>3, <2>1
<1>4. ASSUME NEW a \in Admins, admin'[a] \in AdminRecord, admin'[a].client # 0,
             admin'[a].id \notin history'.crossed
      PROVE  ClientFits(clients'[admin'[a].client], admin'[a].id, admin'[a].next)
  <2>1. CASE AdminKept(a)
    <3>1. admin[a].client \in 1..Len(clients) /\ admin[a].id \notin history.crossed
      BY <1>2, <1>4, <2>1 DEF AdminKept
    <3>2. ClientFits(clients[admin[a].client], admin[a].id, admin[a].next)
      BY <1>4, <2>1, <3>1 DEF Fits, AdminKept
    <3>3. ClientFits(clients'[admin[a].client], admin[a].id, admin[a].next)
      BY <1>1, <3>1, <3>2
    <3> QED BY <2>1, <3>3 DEF AdminKept
  <2> QED BY <1>4, <2>1
<1> QED BY <1>3, <1>4 DEF Fits

\* A client serves the provider and the settings it was built from.
LEMMA FitsStep ==
  ASSUME LoginTyped, RowsServed, Fits, [LoginNext]_loginVars
  PROVE  Fits'
<1>0. (ClientsGrow \/ Restart) /\ history.crossed \subseteq history'.crossed
  BY Growing, CrossedGrows
<1>1. admin' = admin => \A a \in Admins : admin'[a] \in AdminRecord => AdminKept(a)
  BY DEF AdminKept
<1>2. entries' = entries => \A i \in 1..Len(entries') : EntryKept(i)
  BY DEF EntryKept
<1>3. ASSUME UNCHANGED <<entries, admin>>, ClientsGrow
      PROVE  Fits'
  BY <1>1, <1>2, <1>3, <1>0, FitsKept
<1>4. ASSUME NEW b \in Browsers, ServeBrowser(b), ClientsGrow
      PROVE  Fits'
  <2>1. admin' = admin /\ (entries' = entries \/ Connect(b))
    BY <1>4, ServeMoves
  <2>2. CASE Connect(b)
    <3>1. CASE UNCHANGED <<entries, clients>>
      BY <1>3, <1>4, <2>1, <3>1
    <3>2. ASSUME NEW c, NEW j \in 1..Len(entries),
                 Builds(c, entries[j].id, entries[j].settings),
                 Len(entries') = Len(entries),
                 entries'[j].client = Len(clients) + 1,
                 \A i \in 1..Len(entries) :
                   /\ entries'[i].id = entries[i].id /\ entries'[i].settings = entries[i].settings
                   /\ i # j => entries'[i] = entries[i]
          PROVE  Fits'
      <4>1. clients'[Len(clients) + 1] = c
        BY <3>2, BuildsGrow
      <4>2. ClientFits(clients'[entries'[j].client], entries'[j].id, entries'[j].settings)
        BY <3>2, <4>1 DEF Builds
      <4>3. \A i \in 1..Len(entries') : i # j => EntryKept(i)
        BY <3>2 DEF EntryKept
      <4> QED BY <1>1, <1>4, <2>1, <4>2, <4>3, <1>0, FitsKept
    <3> QED BY <2>2, <3>1, <3>2, ConnectBuilds
  <2> QED BY <1>3, <1>4, <2>1, <2>2
<1>5. ASSUME AdminNext([id \in Ids |-> Inside(id)]), ClientsGrow
      PROVE  Fits'
  <2>1. PICK a \in Admins :
          \/ \E id \in Ids, r \in AdminRecord : Asks(a, id, r)
          \/ AdminPrepare(a) \/ AdminConnect(a) \/ AdminApply(a)
          \/ AdminInstall(a, Inside(admin[a].id))
    BY <1>5, Asking
  <2>2. ASSUME NEW id \in Ids, NEW r \in AdminRecord, Asks(a, id, r)
        PROVE  Fits'
    <3>1. /\ admin'[a] = r /\ UNCHANGED <<entries, clients>>
          /\ \A b \in Admins : b # a => admin'[b] = admin[b]
      BY <2>2, AskedFields
    <3>2. r.client = 0
      BY <2>2 DEF Asks
    <3>3. \A b \in Admins : b # a => (admin'[b] \in AdminRecord => AdminKept(b))
      BY <3>1 DEF AdminKept
    <3>4. admin'[a].client = 0
      BY <3>1, <3>2
    <3> QED BY <1>2, <1>5, <3>1, <3>3, <3>4, <1>0, FitsKept
  <2>3. CASE AdminConnect(a)
    <3>1. /\ entries' = entries /\ \A b \in Admins : b # a => admin'[b] = admin[b]
      BY <2>3, AdminBuilds
    <3>2. \A b \in Admins : b # a => (admin'[b] \in AdminRecord => AdminKept(b))
      BY <3>1 DEF AdminKept
    <3>3. \/ admin'[a] = NoRequest
          \/ ClientFits(clients'[admin'[a].client], admin'[a].id, admin'[a].next)
      <4>1. ASSUME NEW c, Builds(c, admin[a].id, admin[a].next),
                   admin'[a].client = Len(clients) + 1,
                   admin'[a].id = admin[a].id, admin'[a].next = admin[a].next
            PROVE  ClientFits(clients'[admin'[a].client], admin'[a].id, admin'[a].next)
        <5>1. clients'[Len(clients) + 1] = c
          BY <4>1, BuildsGrow
        <5> QED BY <4>1, <5>1 DEF Builds
      <4> QED BY <2>3, <4>1, AdminBuilds
    <3> QED BY <1>2, <1>5, <3>1, <3>2, <3>3, Idle, <1>0, FitsKept
  <2>4. CASE AdminApply(a)
    <3>1. /\ entries' = entries /\ \A b \in Admins : b # a => admin'[b] = admin[b]
          /\ admin'[a] = NoRequest \/ AdminKept(a)
      BY <2>4, AdminApplies DEF AdminKept
    <3>2. \A b \in Admins : b # a => (admin'[b] \in AdminRecord => AdminKept(b))
      BY <3>1 DEF AdminKept
    <3> QED BY <1>2, <1>5, <3>1, <3>2, Idle, <1>0, FitsKept
  <2>5. CASE AdminInstall(a, Inside(admin[a].id))
    <3>1. /\ admin[a] \in AdminRecord /\ admin'[a] = NoRequest /\ UNCHANGED clients
          /\ \A b \in Admins : b # a => admin'[b] = admin[b]
          /\ \A i \in 1..Len(entries) : entries'[i] = entries[i]
          /\ \A i \in 1..Len(entries') : i \in 1..Len(entries) \/ i = Len(entries) + 1
          /\ entries'[Len(entries) + 1] = Entry(admin[a].id, admin[a].next, admin[a].client)
      BY <2>5, AdminInstalls
    <3> DEFINE n == Len(entries) + 1
    <3>2. /\ entries'[n].client = admin[a].client /\ entries'[n].id = admin[a].id
          /\ entries'[n].settings = admin[a].next
      BY <3>1 DEF Entry
    <3>3. \/ entries'[n].client = 0 \/ entries'[n].id \in history'.crossed
          \/ ClientFits(clients'[entries'[n].client], entries'[n].id, entries'[n].settings)
      BY <1>0, <3>1, <3>2 DEF Fits
    <3>4. \A i \in 1..Len(entries) : EntryKept(i)
      BY <3>1 DEF EntryKept
    <3>5. \A b \in Admins : admin'[b] \in AdminRecord => AdminKept(b)
      BY <3>1, Idle DEF AdminKept
    <3> HIDE DEF n
    <3>6. \A i \in 1..Len(entries') : i \in 1..Len(entries) \/ i = n
      BY <3>1 DEF n
    <3> QED BY <1>5, <3>3, <3>4, <3>5, <3>6, <1>0, FitsKept
  <2>6. CASE AdminPrepare(a)
    <3> DEFINE r == admin[a]
               j == registry[r.id]
    <3>1. /\ UNCHANGED <<entries, clients>> /\ r \in AdminRecord /\ r.step = "prepare" /\ r.id \in Ids
          /\ \A b \in Admins : b # a => admin'[b] = admin[b]
          /\ \/ admin'[a] = NoRequest
             \/ /\ admin'[a].id = r.id /\ admin'[a].next = r.next
                /\ admin'[a].client # 0 => /\ Reusable(r.was, r.next)
                                           /\ admin'[a].client = ConnectedClient(r.id)
      BY <2>6, AdminPrepares
    <3>2. \A b \in Admins : b # a => (admin'[b] \in AdminRecord => AdminKept(b))
      BY <3>1 DEF AdminKept
    <3>3. ASSUME admin'[a] # NoRequest, admin'[a].client # 0, r.id \notin history.crossed
          PROVE  ClientFits(clients'[admin'[a].client], admin'[a].id, admin'[a].next)
      <4>1. r.was = Settings(r.id)
        BY <3>1, <3>3 DEF RowsServed, Current, Busy
      <4>2. /\ j \in 1..Len(entries) /\ entries[j].id = r.id /\ Settings(r.id) = entries[j].settings
            /\ admin'[a].client = entries[j].client
        BY <3>1, <3>3, SettingsRead
      <4>3. ClientFits(clients[entries[j].client], r.id, Settings(r.id))
        BY <3>3, <4>2 DEF Fits
      <4> QED BY <3>1, <3>3, <4>1, <4>2, <4>3 DEF ClientFits, Reusable
    <3>4. \/ admin'[a] \notin AdminRecord \/ admin'[a].client = 0
          \/ admin'[a].id \in history'.crossed
          \/ ClientFits(clients'[admin'[a].client], admin'[a].id, admin'[a].next)
      BY <1>0, <3>1, <3>3, Idle
    <3> QED BY <1>2, <1>5, <3>1, <3>2, <3>4, <1>0, FitsKept
  <2> QED BY <2>1, <2>2, <2>3, <2>4, <2>5, <2>6
<1>6. CASE Restart
  <2> DEFINE c == [id |-> Default, issuer |-> DefaultIssuer, cred |-> 1, key |-> keys[DefaultIssuer],
                   last |-> NULL, busy |-> FALSE]
  <2>1. clients' = << c >> /\ \A a \in Admins : admin'[a] = NoRequest
    BY <1>6 DEF Restart, BootClients
  <2>2. \A i \in 1..Len(entries') : entries'[i].client = 0 \/ entries'[i] = BootEntry
    BY <1>6, RestartTyped
  <2>3. c.id = Default /\ c.issuer = DefaultIssuer /\ c.cred = 1
    OBVIOUS
  <2> HIDE DEF c
  <2>4. clients'[1] = c
    BY <2>1
  <2>5. ClientFits(c, BootEntry.id, BootEntry.settings) /\ BootEntry.client = 1
    BY <2>3, BootEntryFields DEF ClientFits
  <2> QED BY <2>1, <2>2, <2>4, <2>5, Idle DEF Fits
<1>7. ASSUME ClientsGrow,
             \/ \E id \in Ids : GrantRole(id)
             \/ \E i \in Issuers : RotateKey(i)
             \/ \E k \in Attempts : Redeem(k)
             \/ \E p \in people : Reap(p)
             \/ ClockTick
             \/ UNCHANGED loginVars
      PROVE  Fits'
  <2>1. UNCHANGED <<entries, admin>>
    BY <1>7 DEF GrantRole, RotateKey, Redeem, Reap, ClockTick, loginVars, providers
  <2> QED BY <1>3, <1>7, <2>1
<1> QED BY <1>0, <1>4, <1>5, <1>6, <1>7, Steps

LEMMA FitsBegin ==
  ASSUME LoginInit
  PROVE  Fits
<1> DEFINE c == [id |-> Default, issuer |-> DefaultIssuer, cred |-> 1, key |-> 1, last |-> NULL,
                 busy |-> FALSE]
<1>1. \A i \in 1..Len(entries) : entries[i].client = 0 \/ entries[i] = BootEntry
  BY InitTyped
<1>2. clients = << c >> /\ admin = [a \in Admins |-> NoRequest]
  BY ProvidersAssumption DEF LoginInit, ProvidersInit, BootClients
<1>3. c.id = Default /\ c.issuer = DefaultIssuer /\ c.cred = 1
  OBVIOUS
<1> HIDE DEF c
<1>4. clients[1] = c
  BY <1>2
<1> QED BY <1>1, <1>2, <1>3, <1>4, BootEntryFields, Idle DEF Fits, ClientFits

ServedIInv == LoginTyped /\ RowsServed /\ Fits

LEMMA ServedHold == LoginSpec => []ServedIInv
<1>1. LoginInit => ServedIInv
  BY InitTyped, RowsBegin, FitsBegin DEF ServedIInv
<1>2. ServedIInv /\ [LoginNext]_loginVars => ServedIInv'
  BY TypedStep, RowsStep, FitsStep DEF ServedIInv
<1> QED BY <1>1, <1>2, PTL DEF LoginSpec

\* Whatever logins, key rotations, crashes, refused connections, failed writes and
\* requests of any number of administrators come between: what points at an entry, a
\* client or a session finds it; a login is refused for its key only while the keys
\* may not be fetched again (oauth.rs refetch_keys); and of every provider id that two
\* requests were not changing at once, the registry serves what the rows say and the
\* client is the one its settings describe (http/admin/providers.rs, providers.rs
\* install and client_of), though update_inner reads the registry twice.
THEOREM AdministratorsAreServed == LoginSpec => []ProvidersServed
<1>1. LoginTyped /\ RowsServed => RegistryFollowsRows
  <2> SUFFICES ASSUME LoginTyped, RowsServed, NEW id \in Ids \ history.crossed,
                      \A a \in Admins : admin[a].step = "install" => admin[a].id # id
               PROVE  Settings(id) = rows[id]
    BY DEF RegistryFollowsRows
  <2>1. ~ Installing(id)
    BY DEF Installing
  <2> QED BY <2>1 DEF RowsServed, RowServed
<1>2. LoginTyped /\ Fits => ClientsMatch
  <2> SUFFICES ASSUME LoginTyped, Fits, NEW id \in AllIds \ history.crossed, registry[id] # 0,
                      entries[registry[id]].client # 0
               PROVE  ClientFits(clients[entries[registry[id]].client], id,
                                 entries[registry[id]].settings)
    BY DEF ClientsMatch, ClientFits
  <2>1. registry[id] \in 1..Len(entries) /\ entries[registry[id]].id = id
    BY Lengths DEF LoginTyped, EntriesPoint
  <2> QED BY <2>1 DEF Fits
<1>3. LoginTypeOK /\ RefusedOnlyWhenThrottled /\ RegistryFollowsRows /\ ClientsMatch => ProvidersServed
  BY DEF ProvidersServed
<1>4. ServedIInv => RegistryFollowsRows /\ ClientsMatch
  BY <1>1, <1>2 DEF ServedIInv
<1> QED BY <1>3, <1>4, ServedHold, KeysAndTypes, PTL

----------------------------------------------------------------------------
(***************************************************************************)
(* An id is a set of people.                                               *)
(***************************************************************************)
\* The first person was recorded before any issuer was settled.
LEMMA PeopleBegin ==
  ASSUME LoginInit
  PROVE  PeopleKept
<1> DEFINE p == [kind |-> "custody", id |-> Default, ns |-> NULL, issuer |-> DefaultIssuer, seq |-> 1]
<1>1. /\ people = {p} /\ admin = [a \in Admins |-> NoRequest]
      /\ history.taken = 1 /\ history.checked = [id \in Ids |-> 0]
  BY DEF LoginInit, ProvidersInit
<1>2. \A q \in people : q.seq = 1
  BY <1>1
<1>3. \A a \in Admins : admin[a].step = "idle"
  BY <1>1, Idle
<1>4. EarlierPeopleKeepIssuer
  BY <1>1, <1>2 DEF EarlierPeopleKeepIssuer
<1> QED BY <1>1, <1>2, <1>3, <1>4 DEF PeopleKept

\* People come one at a time, after all who came before.
Comes(p) == people' \subseteq people \cup {p} /\ p.seq = history.taken + 1

\* What an administrator's request asks for.
SameRequest(a) ==
  /\ admin[a].step \in {"connect", "apply"} /\ admin'[a].id = admin[a].id
  /\ admin'[a].next = admin[a].next /\ admin'[a].seen = admin[a].seen

LEMMA PeopleStay ==
  ASSUME LoginTyped, PeopleKept, rows' = rows, history'.checked = history.checked,
         \/ people' \subseteq people /\ history'.taken = history.taken
         \/ history'.taken = history.taken + 1 /\ \E p : Comes(p),
         \A a \in Admins : admin'[a].step \in {"connect", "apply"} => SameRequest(a) \/ Finds(admin[a])',
         history.crossed \subseteq history'.crossed
  PROVE  PeopleKept'
<1>1. /\ history.taken \in Nat /\ history.checked \in [Ids -> Nat]
      /\ \A p \in people : p.seq \in Nat
      /\ \A a \in Admins : SameRequest(a) => admin[a].seen \in Nat
  <2>1. history.taken \in Nat /\ history.checked \in [Ids -> Nat]
    BY DEF LoginTyped, ProvidersTyped, History
  <2>2. \A p \in people : p.seq \in Nat
    BY DEF LoginTyped, ProvidersTyped, Person
  <2>3. \A a \in Admins : SameRequest(a) => admin[a].seen \in Nat
    BY AdminFields DEF LoginTyped, ProvidersTyped, SameRequest
  <2> QED BY <2>1, <2>2, <2>3
<1>2. history'.taken \in {history.taken, history.taken + 1}
  OBVIOUS
<1>3. \A p \in people' : p \in people \/ (p.seq = history.taken + 1 /\ history'.taken = history.taken + 1)
  BY DEF Comes
<1>4. \A p \in people' : p.seq <= history'.taken
  BY <1>1, <1>2, <1>3 DEF PeopleKept
<1>5. \A id \in Ids : history'.checked[id] <= history'.taken
  BY <1>1, <1>2 DEF PeopleKept
<1>6. ASSUME NEW p \in people', NEW id \in Ids \ history'.crossed
      PROVE  Belongs(p, id)' \/ p.seq > history'.checked[id]
  <2>1. CASE p \in people
    BY <2>1 DEF PeopleKept, EarlierPeopleKeepIssuer, Belongs
  <2>2. CASE p.seq = history.taken + 1
    <3>1. history.checked[id] \in Nat /\ history.checked[id] <= history.taken
      BY <1>1 DEF PeopleKept
    <3> QED BY <1>1, <2>2, <3>1
  <2> QED BY <1>3, <2>1, <2>2
<1>7. ASSUME NEW a \in Admins, admin'[a].step \in {"connect", "apply"}
      PROVE  Finds(admin[a])'
  <2> SUFFICES ASSUME SameRequest(a) PROVE Finds(admin[a])'
    BY <1>7
  <2>1. /\ admin[a].seen \in Nat /\ admin[a].seen <= history.taken
        /\ admin[a].id \notin history.crossed /\ Unsettled(admin[a]) =>
              \A p \in people : InNamespace(p, admin[a].id) => p.seq > admin[a].seen
    BY <1>1 DEF PeopleKept, SameRequest, Finds
  <2>2. Unsettled(admin[a])' => Unsettled(admin[a])
    BY DEF SameRequest, Unsettled
  <2>3. \A p \in people' : p \in people \/ p.seq > admin[a].seen
    BY <1>1, <1>3, <2>1
  <2>4. admin'[a].seen <= history'.taken
    BY <1>1, <1>2, <2>1 DEF SameRequest
  <2> QED BY <2>1, <2>2, <2>3, <2>4 DEF SameRequest, Finds, InNamespace
<1> QED BY <1>4, <1>5, <1>6, <1>7 DEF PeopleKept, EarlierPeopleKeepIssuer

\* A request for an issuer it does not ask to change finds nobody in its way.
LEMMA PeopleAsked ==
  ASSUME LoginTyped, RowsServed, PeopleKept, NEW a \in Admins, NEW id \in Ids,
         NEW r \in AdminRecord, Asks(a, id, r)
  PROVE  PeopleKept'
<1>1. /\ UNCHANGED <<rows, people, registry, entries>> /\ admin'[a] = r /\ admin[a].step = "idle"
      /\ \A b \in Admins : b # a => admin'[b] = admin[b]
      /\ history'.taken = history.taken /\ history'.checked = history.checked
      /\ history'.crossed = Crossed(a, id) /\ history.crossed \subseteq history'.crossed
  BY AskedFields
<1>2. r.id = id /\ r.seen = history.taken /\ history.taken \in Nat
  BY DEF Asks, LoginTyped, ProvidersTyped, History
<1>3. ASSUME r.step \in {"connect", "apply"}, id \notin history'.crossed
      PROVE  ~ Unsettled(r)
  <2>1. id \notin history.crossed /\ \A b \in Admins : b # a => ~ (admin[b].step # "idle" /\ admin[b].id = id)
    BY <1>1, <1>3 DEF Crossed
  <2>2. ~ Installing(id)
    BY <1>1, <2>1 DEF Installing
  <2>3. Settings(id) = rows[id]
    BY <2>1, <2>2 DEF RowsServed, RowServed
  <2>4. r.was = Settings(id) /\ r.was # NULL /\ r.next.issuer = r.was.issuer
    BY <1>3 DEF Asks
  <2> QED BY <1>2, <2>3, <2>4 DEF Unsettled
<1>4. r.step \in {"connect", "apply"} => Finds(admin[a])'
  BY <1>1, <1>2, <1>3 DEF Finds, Unsettled
<1>5. \A b \in Admins : admin'[b].step \in {"connect", "apply"} => SameRequest(b) \/ Finds(admin[b])'
  BY <1>1, <1>4 DEF SameRequest
<1> QED BY <1>1, <1>5, PeopleStay

\* Whoever is to get another issuer's people under its id has looked first.
LEMMA PeoplePrepared ==
  ASSUME LoginTyped, RowsServed, PeopleKept, NEW a \in Admins, AdminPrepare(a)
  PROVE  PeopleKept'
<1> DEFINE r == admin[a]
<1>1. /\ UNCHANGED <<rows, people, history>> /\ r \in AdminRecord /\ r.step = "prepare" /\ r.id \in Ids
      /\ \A b \in Admins : b # a => admin'[b] = admin[b]
      /\ \/ admin'[a] = NoRequest
         \/ /\ MaySettle(r) /\ admin'[a].id = r.id /\ admin'[a].next = r.next
            /\ admin'[a].seen = history.taken
  BY AdminPrepares
<1>2. history.taken \in Nat
  BY DEF LoginTyped, ProvidersTyped, History
<1>3. ASSUME MaySettle(r), r.id \notin history.crossed, Unsettled(r)
      PROVE  ~ InUse(r.id)
  <2>1. Busy(a, r.id)
    BY <1>1 DEF Busy
  <2>2. Current(r) /\ RowServed(r.id) /\ \A b \in Admins : b # a => ~ Busy(b, r.id)
    BY <1>1, <1>3, <2>1, NoOther DEF RowsServed
  <2>3. ~ Installing(r.id)
    BY <1>1, <2>2, BusyMeans DEF Installing, Busy
  <2>4. r.was = rows[r.id]
    BY <1>1, <2>2, <2>3 DEF Current, RowServed
  <2>5. (IF r.op = "insert" THEN r.was = NULL ELSE r.was.issuer # r.next.issuer)
    BY <1>1, <1>3, <2>2, <2>4 DEF Current, Unsettled
  <2> QED BY <1>3, <2>5 DEF MaySettle
<1>4. admin'[a].step \in {"connect", "apply"} => Finds(admin[a])'
  <2>1. SUFFICES ASSUME MaySettle(r), admin'[a].id = r.id, admin'[a].next = r.next,
                        admin'[a].seen = history.taken
                 PROVE  Finds(admin[a])'
    BY <1>1, Idle
  <2>2. admin'[a].id \notin history'.crossed /\ Unsettled(admin[a])' => ~ InUse(r.id)
    BY <1>1, <1>3, <2>1 DEF Unsettled
  <2>3. ~ InUse(r.id) => \A p \in people : ~ InNamespace(p, r.id)
    BY DEF InUse
  <2> HIDE DEF r
  <2> QED BY <1>1, <1>2, <2>1, <2>2, <2>3 DEF Finds, InNamespace
<1>5. \A b \in Admins : admin'[b].step \in {"connect", "apply"} => SameRequest(b) \/ Finds(admin[b])'
  BY <1>1, <1>4 DEF SameRequest
<1>6. history'.taken = history.taken /\ history'.checked = history.checked
      /\ history.crossed \subseteq history'.crossed
  BY <1>1
<1> QED BY <1>1, <1>5, <1>6, PeopleStay

\* A request settles the issuer it asked for.
LEMMA PeopleApplied ==
  ASSUME LoginTyped, RowsServed, PeopleKept, NEW a \in Admins, AdminApply(a)
  PROVE  PeopleKept'
<1> DEFINE r == admin[a]
           i == r.id
<1>1. /\ people' = people /\ r \in AdminRecord /\ r.step = "apply" /\ i \in Ids
      /\ \A b \in Admins : b # a => admin'[b] = admin[b]
      /\ rows \in [Ids -> Option(GoodSettings)] /\ history.checked \in [Ids -> Nat]
  <2>1. /\ people' = people /\ r \in AdminRecord /\ r.step = "apply"
        /\ \A b \in Admins : b # a => admin'[b] = admin[b]
    BY AdminApplies
  <2> QED BY <2>1, AdminFields DEF LoginTyped, ProvidersTyped, History
<1>2. CASE admin'[a] = NoRequest /\ UNCHANGED <<rows, history>>
  <2>1. \A b \in Admins : admin'[b].step \in {"connect", "apply"} => SameRequest(b) \/ Finds(admin[b])'
    BY <1>1, <1>2, Idle DEF SameRequest
  <2>2. history'.taken = history.taken /\ history'.checked = history.checked
        /\ history.crossed \subseteq history'.crossed
    BY <1>2
  <2> QED BY <1>1, <1>2, <2>1, <2>2, PeopleStay
<1>3. CASE /\ Writes(r) /\ rows' = [rows EXCEPT ![i] = Written(r)] /\ admin'[a].step = "install"
           /\ history'.taken = history.taken /\ history'.crossed = history.crossed
           /\ history'.checked = [history.checked EXCEPT ![i] = IF Unsettled(r) THEN r.seen ELSE @]
  <2>1. Written(r).issuer = r.next.issuer
    BY <1>1, <1>3, ApplyWrites
  <2>2. /\ rows'[i].issuer = r.next.issuer
        /\ history'.checked[i] = IF Unsettled(r) THEN r.seen ELSE history.checked[i]
        /\ \A id \in Ids : id # i => rows'[id] = rows[id] /\ history'.checked[id] = history.checked[id]
    BY <1>1, <1>3, <2>1
  <2>3. Finds(r)
    BY <1>1 DEF PeopleKept
  <2>4. \A id \in Ids : history'.checked[id] <= history'.taken
    BY <1>3, <2>2, <2>3 DEF PeopleKept, Finds
  <2>5. ASSUME NEW p \in people, NEW id \in Ids \ history.crossed
        PROVE  Belongs(p, id)' \/ p.seq > history'.checked[id]
    <3>1. Belongs(p, id) \/ p.seq > history.checked[id]
      BY DEF PeopleKept, EarlierPeopleKeepIssuer
    <3>2. CASE id # i
      BY <2>2, <3>1, <3>2 DEF Belongs
    <3>3. CASE id = i /\ Unsettled(r)
      <4>1. InNamespace(p, i) => p.seq > r.seen
        BY <2>3, <3>3 DEF Finds
      <4> QED BY <2>2, <3>3, <4>1 DEF Belongs
    <3>4. CASE id = i /\ ~ Unsettled(r)
      BY <2>2, <3>1, <3>4 DEF Belongs, Unsettled
    <3> QED BY <3>2, <3>3, <3>4
  <2>6. ASSUME NEW b \in Admins, admin'[b].step \in {"connect", "apply"} PROVE Finds(admin[b])'
    <3>1. b # a /\ admin'[b] = admin[b]
      BY <1>1, <1>3, <2>6
    <3>2. Finds(admin[b]) /\ admin[b].id \in Ids /\ admin[b] \in AdminRecord
      BY <2>6, <3>1, BusyMeans DEF PeopleKept
    <3>3. admin[b].id \notin history.crossed => admin[b].id # i
      <4>1. Busy(a, i) /\ Busy(b, admin[b].id)
        BY <1>1, <3>2 DEF Busy
      <4> QED BY <1>1, <3>1, <4>1, NoOther DEF RowsServed
    <3>4. admin[b].id # i => (Unsettled(admin[b])' => Unsettled(admin[b]))
      BY <2>2, <3>1, <3>2 DEF Unsettled
    <3> HIDE DEF i, r
    <3> QED BY <1>1, <1>3, <3>1, <3>2, <3>3, <3>4 DEF Finds
  <2> QED BY <1>1, <1>3, <2>4, <2>5, <2>6 DEF PeopleKept, EarlierPeopleKeepIssuer
<1> QED BY <1>2, <1>3, AdminApplies

\* Only a login's custody adds a person.
LEMMA ServeVisits ==
  ASSUME LoginTyped, NEW b \in Browsers, ServeBrowser(b)
  PROVE  \/ people' = people /\ history'.taken = history.taken /\ history'.checked = history.checked
         \/ StoreCustody(b)
<1>0. history \in History
  BY DEF LoginTyped, ProvidersTyped
<1> DEFINE P == people' = people /\ history'.taken = history.taken /\ history'.checked = history.checked
<1>1. Input(history) => history'.taken = history.taken /\ history'.checked = history.checked
  BY <1>0, InputTyped
<1>2. ASSUME NEW want \in Option(AllIds), NEW k \in Option(Attempts), AskLogin(b, want, k)
      PROVE  P
  BY <1>1, <1>2 DEF AskLogin
<1>3. ASSUME NEW cookie \in 1..Len(begun), NEW answer \in 1..Len(begun), NEW ok \in BOOLEAN,
             NEW named \in BOOLEAN, NEW sub \in Option(Ids),
             AskCallback(b, cookie, answer, ok, sub, named)
      PROVE  P
  <2> DEFINE o == [id \in Ids |-> IF history.off[id] = NULL THEN NULL ELSE history.off[id] \ {b}]
             h == [history EXCEPT !.off = o]
  <2>1. Input(h) /\ people' = people
    BY <1>3 DEF AskCallback
  <2>2. o \in [Ids -> Option(SUBSET Browsers)]
    BY <1>0 DEF History, Option
  <2> HIDE DEF o
  <2>3. h \in History /\ h.inputs = history.inputs /\ h.taken = history.taken
        /\ h.checked = history.checked
    BY <1>0, <2>2 DEF History
  <2> HIDE DEF h
  <2> QED BY <1>0, <2>1, <2>3, InputTyped
<1>4. ASSUME NEW k \in Attempts, NEW sid \in 1..Len(signedIn), AskDesktop(b, k, sid)
      PROVE  P
  BY <1>1, <1>4 DEF AskDesktop
<1>5. ASSUME UNCHANGED <<people, history>> PROVE P
  BY <1>5
<1>6. Connect(b) \/ Refetch(b) \/ Fetch(b) => UNCHANGED <<people, history>>
  BY DEF Connect, Refetch, Fetch
<1>7. BeginLogin(b) \/ Pick(b) \/ Take(b) \/ Exchange(b) \/ Verify(b) \/ MakeSession(b) \/ Mint(b)
        => UNCHANGED <<people, history>>
  BY DEF BeginLogin, Pick, Take, Exchange, Verify, MakeSession, Mint, providers
<1> QED BY <1>2, <1>3, <1>4, <1>5, <1>6, <1>7, Served


\* The people under an id and its issuer change by one person or by one request.
LEMMA PeopleStep ==
  ASSUME LoginTyped, RowsServed, PeopleKept, [LoginNext]_loginVars
  PROVE  PeopleKept'
<1>0. history \in History /\ history.crossed \subseteq history'.crossed
  BY CrossedGrows DEF LoginTyped, ProvidersTyped
<1>1. ASSUME UNCHANGED <<rows, admin>>, history'.checked = history.checked,
             \/ people' \subseteq people /\ history'.taken = history.taken
             \/ history'.taken = history.taken + 1 /\ \E p : Comes(p)
      PROVE  PeopleKept'
  <2>1. \A a \in Admins : admin'[a].step \in {"connect", "apply"} => SameRequest(a)
    BY <1>1 DEF SameRequest
  <2> QED BY <1>0, <1>1, <2>1, PeopleStay
<1>2. ASSUME NEW h \in History, h.inputs = history.inputs, h.taken = history.taken,
             h.checked = history.checked, Input(h)
      PROVE  history'.taken = history.taken /\ history'.checked = history.checked
  BY <1>0, <1>2, InputTyped
<1>3. Input(history) => history'.taken = history.taken /\ history'.checked = history.checked
  BY <1>0, <1>2
<1>4. ASSUME NEW b \in Browsers, ServeBrowser(b) PROVE PeopleKept'
  <2>1. UNCHANGED <<rows, admin>>
    BY <1>4, ServeMoves
  <2>2. \/ people' = people /\ history'.taken = history.taken /\ history'.checked = history.checked
        \/ StoreCustody(b)
    BY <1>4, ServeVisits
  <2>3. CASE StoreCustody(b)
    <3> DEFINE n == history.taken + 1
               c == clients[pc[b].client]
               p == [kind |-> "custody", id |-> c.id, ns |-> PersonSubject(c.id, pc[b].sub),
                     issuer |-> c.issuer, seq |-> n]
    <3>1. CASE UNCHANGED <<people, history>>
      BY <1>1, <2>1, <3>1
    <3>2. CASE people' = people \cup {p} /\ history' = [history EXCEPT !.taken = n]
      <4>1. p.seq = n
        OBVIOUS
      <4> HIDE DEF p
      <4>2. history'.taken = n /\ history'.checked = history.checked
        BY <1>0, <3>2 DEF History
      <4>3. Comes(p)
        BY <3>2, <4>1 DEF Comes
      <4> QED BY <1>1, <2>1, <4>2, <4>3
    <3> QED BY <2>3, <3>1, <3>2 DEF StoreCustody
  <2> QED BY <1>1, <2>1, <2>2, <2>3
<1>5. ASSUME AdminNext([id \in Ids |-> Inside(id)]) PROVE PeopleKept'
  <2>1. PICK a \in Admins :
          \/ \E id \in Ids, r \in AdminRecord : Asks(a, id, r)
          \/ AdminPrepare(a) \/ AdminConnect(a) \/ AdminApply(a)
          \/ AdminInstall(a, Inside(admin[a].id))
    BY <1>5, Asking
  <2>3. CASE AdminConnect(a)
    <3>1. /\ UNCHANGED <<rows, people, history>> /\ admin[a].step = "connect"
          /\ \A b \in Admins : b # a => admin'[b] = admin[b]
          /\ \/ admin'[a] = NoRequest
             \/ /\ admin'[a].id = admin[a].id /\ admin'[a].next = admin[a].next
                /\ admin'[a].seen = admin[a].seen
      BY <2>3, AdminBuilds
    <3>2. \A b \in Admins : admin'[b].step \in {"connect", "apply"} => SameRequest(b)
      BY <3>1, Idle DEF SameRequest
    <3> QED BY <1>0, <3>1, <3>2, PeopleStay
  <2>4. CASE AdminInstall(a, Inside(admin[a].id))
    <3>1. /\ UNCHANGED <<rows, people>> /\ admin'[a] = NoRequest
          /\ \A b \in Admins : b # a => admin'[b] = admin[b]
          /\ history'.taken = history.taken /\ history'.checked = history.checked
      BY <2>4, AdminInstalls
    <3>2. \A b \in Admins : admin'[b].step \in {"connect", "apply"} => SameRequest(b)
      BY <3>1, Idle DEF SameRequest
    <3> QED BY <1>0, <3>1, <3>2, PeopleStay
  <2> QED BY <2>1, <2>3, <2>4, PeopleAsked, PeoplePrepared, PeopleApplied
<1>6. ASSUME NEW id \in Ids, GrantRole(id) PROVE PeopleKept'
  <2> DEFINE n == history.taken + 1
             h == [history EXCEPT !.taken = n]
             p == [kind |-> "grant", id |-> NULL, ns |-> id, seq |-> n,
                   issuer |-> IF rows[id] = NULL THEN NULL ELSE rows[id].issuer]
  <2>1. Input(h) /\ people' = people \cup {p} /\ UNCHANGED <<rows, admin>> /\ p.seq = n
    BY <1>6 DEF GrantRole
  <2>2. n \in Nat
    BY <1>0 DEF History
  <2> HIDE DEF p
  <2>3. h \in History /\ h.inputs = history.inputs /\ h.taken = n /\ h.checked = history.checked
    BY <1>0, <2>2 DEF History
  <2> HIDE DEF h
  <2>4. history'.taken = n /\ history'.checked = history.checked
    BY <1>0, <2>1, <2>3, InputTyped
  <2>5. Comes(p)
    BY <2>1 DEF Comes
  <2> QED BY <1>1, <2>1, <2>4, <2>5
<1>7. CASE Restart
  <2> DEFINE o == [id \in Ids |-> IF rows[id] # NULL /\ ~rows[id].enabled THEN {} ELSE NULL]
             h == [history EXCEPT !.off = o]
  <2>1. Input(h) /\ UNCHANGED <<rows, people>> /\ admin' = [a \in Admins |-> NoRequest]
    BY <1>7 DEF Restart
  <2>2. o \in [Ids -> Option(SUBSET Browsers)]
    BY DEF Option
  <2> HIDE DEF o
  <2>3. h \in History /\ h.inputs = history.inputs /\ h.taken = history.taken
        /\ h.checked = history.checked
    BY <1>0, <2>2 DEF History
  <2> HIDE DEF h
  <2>4. history'.taken = history.taken /\ history'.checked = history.checked
    BY <1>2, <2>1, <2>3
  <2>5. \A a \in Admins : ~ admin'[a].step \in {"connect", "apply"}
    BY <2>1, Idle
  <2> QED BY <1>0, <2>1, <2>4, <2>5, PeopleStay
<1>8. ASSUME \/ \E i \in Issuers : RotateKey(i)
             \/ \E k \in Attempts : Redeem(k)
             \/ \E p \in people : Reap(p)
             \/ ClockTick
      PROVE  PeopleKept'
  <2>1. Input(history) /\ UNCHANGED <<rows, admin>> /\ people' \subseteq people
    BY <1>8 DEF RotateKey, Redeem, Reap, ClockTick
  <2> QED BY <1>1, <1>3, <2>1
<1>9. CASE UNCHANGED loginVars
  <2>1. UNCHANGED <<rows, admin, people, history>>
    BY <1>9 DEF loginVars, providers
  <2> QED BY <1>1, <2>1
<1> QED BY <1>4, <1>5, <1>6, <1>7, <1>8, <1>9, Steps

\* Whoever was recorded under a provider id when a request that settled its issuer
\* looked for people belongs to that issuer, whatever is deleted, revived, renamed or
\* granted afterwards and however often the process restarts, for any number of
\* administrators, if no two of them changed that id at once: an id is a set of people
\* (http/admin/providers.rs create_inner and update_inner, store/repo.rs).
THEOREM IssuersKeepTheirPeople == LoginSpec => []EarlierPeopleKeepIssuer
<1> DEFINE Inv == LoginTyped /\ RowsServed /\ PeopleKept
<1>1. LoginInit => Inv
  BY InitTyped, RowsBegin, PeopleBegin
<1>2. Inv /\ [LoginNext]_loginVars => Inv'
  BY TypedStep, RowsStep, PeopleStep
<1>3. Inv => EarlierPeopleKeepIssuer
  BY DEF PeopleKept
<1> QED BY <1>1, <1>2, <1>3, PTL DEF LoginSpec
=============================================================================
