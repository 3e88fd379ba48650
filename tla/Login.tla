--------------------------------- MODULE Login ---------------------------------
(***************************************************************************)
(* Signing in: /auth/login and /auth/callback (http/auth.rs), the login    *)
(* transactions and the code exchange (oauth.rs), and the desktop handoff  *)
(* they may end in (http/desktop.rs, http/admin/handoff.rs), beside the    *)
(* administrators of module Providers.                                     *)
(*                                                                         *)
(* A request is a sequence of steps, one for each await and each access to *)
(* shared state.  A transaction is a number; its state, nonce and verifier *)
(* are that number too.  The provider's answer is the transaction it was   *)
(* given for; the browser may bring it with another transaction's cookie,  *)
(* late, twice, or after a restart.                                        *)
(***************************************************************************)
EXTENDS Providers, Handoff

CONSTANTS
    Browsers,     \* requests served at once
    TxnTtl,       \* TXN_TTL_SECS
    RefetchMin,   \* JWKS_REFETCH_MIN_INTERVAL_SECS
    MaxTxns       \* bound: login transactions

ASSUME LoginAssumption ==
    /\ TxnTtl \in Nat \ {0} /\ {RefetchMin, MaxTxns} \subseteq Nat
    /\ IsFiniteSet(Browsers)
    /\ Nobody = NULL /\ NULL \notin Attempts

VARIABLES
    clock,
    txns,      \* TxnStore: the transactions not yet redeemed
    begun,     \* every transaction ever begun, as the providers remember them
    pc,        \* what each request does next
    signedIn,  \* every session a login made
    handoff,   \* desktop.rs Held
    given,     \* outcomes the app collected
    refused    \* logins refused because no key matched

providers == <<rows, people, keys, registry, entries, clients, admin, history>>
logins == <<txns, begun, pc, signedIn, handoff, given, refused>>
loginVars == <<clock, providers, logins>>

AtRest == [step |-> "idle"]

\* Somebody is signed in already, through the config provider.
Before ==
    [begun |-> << [id |-> Default, issuer |-> DefaultIssuer, attempt |-> NULL, at |-> 0] >>,
     sessions |-> << [txn |-> 1, id |-> Default, answer |-> 1, at |-> 0, custody |-> 1,
                      attempt |-> NULL, live |-> TRUE, door |-> "open"] >>]

LoginInit ==
    /\ ProvidersInit
    /\ clock = 0
    /\ txns = {} /\ begun = Before.begun /\ signedIn = Before.sessions
    /\ pc = [b \in Browsers |-> AtRest]
    /\ handoff = EmptyHeld /\ given = {} /\ refused = {}

Go(b, step) == pc' = [pc EXCEPT ![b].step = step]

----------------------------------------------------------------------------
(***************************************************************************)
(* GET /auth/login.                                                        *)
(***************************************************************************)
\* client_for_login: the id asked for, or the only one there is.
Chosen(want) ==
    {id \in AllIds : Enabled(id) /\ IF want = NULL THEN \A j \in AllIds : Enabled(j) => j = id
                                                   ELSE id = want}

AskLogin(b, want, attempt) ==
    /\ pc[b].step = "idle" /\ Input(history) /\ Len(begun) < MaxTxns
    /\ \/ \E id \in Chosen(want) :
            /\ pc' = [pc EXCEPT ![b] = [step |-> "connect", then |-> "begin", now |-> clock, cookie |-> 0,
                                        attempt |-> attempt, entry |-> registry[id], client |-> 0]]
            /\ UNCHANGED handoff
       \/ /\ Chosen(want) = {} /\ attempt # NULL
          /\ handoff' \in NoteFailure(handoff, attempt, clock)
          /\ UNCHANGED pc
    /\ UNCHANGED <<clock, rows, people, keys, registry, entries, clients, admin,
                   txns, begun, signedIn, given, refused>>

\* client_of: the cell of the entry the request holds, replaced since or not.
Connect(b) ==
    LET r == pc[b]
        e == entries[r.entry]
        with(c) == pc' = [pc EXCEPT ![b].step = r.then, ![b].client = c]
    IN  /\ r.step = "connect"
        /\ \/ /\ e.client # 0
              /\ with(e.client)
              /\ UNCHANGED <<entries, clients, txns, handoff>>
           \/ /\ e.client = 0
              /\ clients' = Append(clients, Built(e.id, e.settings))
              /\ entries' = [entries EXCEPT ![r.entry].client = Len(clients) + 1]
              /\ with(Len(clients) + 1)
              /\ UNCHANGED <<txns, handoff>>
           \/ /\ e.client = 0
              /\ pc' = [pc EXCEPT ![b] = AtRest]
              /\ txns' = txns \ {r.cookie}
              /\ handoff' \in NoteFailure(handoff, r.attempt, IF r.then = "begin" THEN clock ELSE r.now)
              /\ UNCHANGED <<entries, clients>>
        /\ UNCHANGED <<clock, rows, people, keys, registry, admin, history, begun, signedIn, given, refused>>

\* begin_login.
BeginLogin(b) ==
    LET r == pc[b]
        n == Len(begun) + 1
    IN  /\ r.step = "begin" /\ n <= MaxTxns
        /\ txns' = txns \cup {n}
        /\ begun' = Append(begun, [id |-> clients[r.client].id, issuer |-> clients[r.client].issuer,
                                   attempt |-> r.attempt, at |-> clock])
        /\ pc' = [pc EXCEPT ![b] = AtRest]
        /\ UNCHANGED <<clock, providers, signedIn, handoff, given, refused>>

----------------------------------------------------------------------------
(***************************************************************************)
(* GET /auth/callback.                                                     *)
(***************************************************************************)
\* What the config provider may call a person; elsewhere the prefix is added.
Spellings(issuer) == IF issuer = DefaultIssuer THEN {NULL} \cup Ids ELSE {NULL}

\* A browser comes back with a cookie and an answer: a code, or an error.
AskCallback(b, cookie, answer, ok, sub, named) ==
    /\ pc[b].step = "idle"
    /\ Input([history EXCEPT !.off = [id \in Ids |-> IF @[id] = NULL THEN NULL ELSE @[id] \ {b}]])
    /\ pc' = [pc EXCEPT ![b] = [step |-> "pick", then |-> "take", now |-> clock, cookie |-> cookie,
                                answer |-> answer, ok |-> ok, sub |-> sub,
                                iss |-> IF named THEN begun[answer].issuer ELSE NULL,
                                attempt |-> IF cookie \in txns THEN begun[cookie].attempt ELSE NULL,
                                entry |-> 0, client |-> 0, key |-> 0, excuse |-> FALSE]]
    /\ UNCHANGED <<clock, rows, people, keys, registry, entries, clients, admin,
                   txns, begun, signedIn, handoff, given, refused>>

\* The callback fails: no session, and a desktop app is told.
Fail(b) ==
    /\ pc' = [pc EXCEPT ![b] = AtRest]
    /\ handoff' \in NoteFailure(handoff, pc[b].attempt, pc[b].now)

\* Mutant: a callback only asks that the provider still exists.
AdmitsAny(id) == Known(Settings(id))

\* client_for_callback: disabling stops the logins already in flight too.
Admits(id) == Enabled(id)

Pick(b) ==
    LET r == pc[b]
        id == begun[r.cookie].id
    IN  /\ r.step = "pick"
        /\ \/ /\ r.cookie \in txns /\ Admits(id)
              /\ pc' = [pc EXCEPT ![b].step = "connect", ![b].entry = registry[id]]
              /\ UNCHANGED <<txns, handoff>>
           \/ /\ r.cookie \notin txns \/ ~Admits(id)
              /\ txns' = txns \ {r.cookie}
              /\ Fail(b)
        /\ UNCHANGED <<clock, providers, begun, signedIn, given, refused>>

\* Mutant: a transaction outlives its callback.
TakenKept(n) == txns

\* TxnStore::take: removed whatever comes next.
Taken(n) == txns \ {n}

\* resolve and complete_login up to the exchange: every refusal consumes the transaction.
Redeemable(r) ==
    /\ r.iss # NULL => r.iss = clients[r.client].issuer
    /\ r.ok
    /\ r.cookie \in txns
    /\ begun[r.cookie].id = clients[r.client].id
    /\ r.now - begun[r.cookie].at < TxnTtl
    /\ r.answer = r.cookie

Take(b) ==
    LET r == pc[b]
    IN  /\ r.step = "take"
        /\ txns' = Taken(r.cookie)
        /\ \/ Redeemable(r) /\ Go(b, "exchange") /\ UNCHANGED handoff
           \/ ~Redeemable(r) /\ Fail(b)
        /\ UNCHANGED <<clock, providers, begun, signedIn, given, refused>>

\* The provider answers the code it gave with a token signed by today's key, or does not.
Exchange(b) ==
    LET r == pc[b]
        c == clients[r.client]
    IN  /\ r.step = "exchange"
        /\ \/ /\ begun[r.answer].issuer = c.issuer
              /\ pc' = [pc EXCEPT ![b].key = keys[c.issuer],
                                  ![b].step = IF keys[c.issuer] = c.key THEN "verify" ELSE "refetch"]
              /\ UNCHANGED handoff
           \/ Fail(b)
        /\ UNCHANGED <<clock, providers, txns, begun, signedIn, given, refused>>

\* refetch_keys: the lock, and at most one fetch an interval.
Refetch(b) ==
    LET r == pc[b]
        c == clients[r.client]
        recent == c.last # NULL /\ r.now - c.last < RefetchMin
    IN  /\ r.step = "refetch" /\ ~c.busy
        /\ pc' = [pc EXCEPT ![b].step = IF recent THEN "verify" ELSE "fetch", ![b].excuse = recent]
        /\ clients' = IF recent THEN clients
                      ELSE [clients EXCEPT ![r.client].last = r.now, ![r.client].busy = TRUE]
        /\ UNCHANGED <<clock, rows, people, keys, registry, entries, admin, history,
                       txns, begun, signedIn, handoff, given, refused>>

\* The keys a fetch that worked leaves.
FetchedKeys(c) == [c EXCEPT !.busy = FALSE, !.key = keys[c.issuer]]

\* A fetch that failed keeps the keys held.
FetchFailed(c) == [c EXCEPT !.busy = FALSE]

\* The fetch ends and the lock is released.
Fetch(b) ==
    LET r == pc[b]
        c == clients[r.client]
    IN  /\ r.step = "fetch"
        /\ \E worked \in BOOLEAN :
              /\ clients' = [clients EXCEPT ![r.client] = IF worked THEN FetchedKeys(c)
                                                          ELSE FetchFailed(c)]
              /\ pc' = [pc EXCEPT ![b].step = "verify", ![b].excuse = ~worked]
        /\ UNCHANGED <<clock, rows, people, keys, registry, entries, admin, history,
                       txns, begun, signedIn, handoff, given, refused>>

\* person_subject: the config provider keeps the spelling, any other adds its id.
PersonSubject(id, sub) == IF id = Default THEN sub ELSE id

\* subject_collides, for the config provider only.
Collides(id, sub) == id = Default /\ sub # NULL /\ registry[sub] # 0

\* The token is verified with the keys held now, then the subject is judged.
Verify(b) ==
    LET r == pc[b]
        c == clients[r.client]
        ok == r.key = c.key /\ r.answer = r.cookie /\ ~Collides(c.id, r.sub)
    IN  /\ r.step = "verify"
        /\ \/ ok /\ Go(b, "custody") /\ UNCHANGED <<handoff, refused>>
           \/ /\ ~ok
              /\ Fail(b)
              /\ refused' = IF r.key = c.key THEN refused
                            ELSE refused \cup {[excuse |-> r.excuse, stale |-> r.key # keys[c.issuer]]}
        /\ UNCHANGED <<clock, providers, txns, begun, signedIn, given>>

\* success_response: custody first, write-through; a failure refuses the login.
StoreCustody(b) ==
    LET r == pc[b]
        c == clients[r.client]
    IN  /\ r.step = "custody"
        /\ \/ /\ people' = people \cup {[kind |-> "custody", id |-> c.id, ns |-> PersonSubject(c.id, r.sub),
                                         issuer |-> c.issuer, seq |-> history.taken + 1]}
              /\ history' = [history EXCEPT !.taken = @ + 1]
              /\ pc' = [pc EXCEPT ![b].step = "create", ![b].entry = history.taken + 1]
              /\ UNCHANGED handoff
           \/ Fail(b) /\ UNCHANGED <<people, history>>
        /\ UNCHANGED <<clock, rows, keys, registry, entries, clients, admin,
                       txns, begun, signedIn, given, refused>>

\* SessionMap::create, and the attempt this login was for.
MakeSession(b) ==
    LET r == pc[b]
        id == clients[r.client].id
        k == begun[r.cookie].attempt
        door == IF id \notin Ids THEN "open" ELSE IF history.off[id] = NULL THEN "open"
                ELSE IF b \in history.off[id] THEN "inside" ELSE "shut"
    IN  /\ r.step = "create"
        /\ signedIn' = Append(signedIn, [txn |-> r.cookie, id |-> id, answer |-> r.answer, at |-> r.now,
                                         custody |-> r.entry, attempt |-> k, live |-> TRUE, door |-> door])
        /\ handoff' \in IF k = NULL THEN {handoff} ELSE NoteLogin(handoff, k, Len(signedIn) + 1, r.now)
        /\ pc' = [pc EXCEPT ![b] = AtRest]
        /\ UNCHANGED <<clock, providers, txns, begun, given, refused>>

----------------------------------------------------------------------------
(***************************************************************************)
(* The desktop handoff.                                                    *)
(***************************************************************************)
\* GET /auth/desktop: the session in the browser, up to the minting.
AskDesktop(b, k, sid) ==
    /\ pc[b].step = "idle" /\ Input(history)
    /\ signedIn[sid].live /\ Binds(handoff, k, sid, clock)
    /\ pc' = [pc EXCEPT ![b] = [step |-> "mint", now |-> clock, attempt |-> k, sid |-> sid]]
    /\ UNCHANGED <<clock, rows, people, keys, registry, entries, clients, admin,
                   txns, begun, signedIn, handoff, given, refused>>

\* A token for the attempt, or the refusal.
Mint(b) ==
    LET r == pc[b]
    IN  /\ r.step = "mint"
        /\ \E end \in {0, r.sid} : handoff' \in Finish(handoff, r.attempt, end, r.now)
        /\ pc' = [pc EXCEPT ![b] = AtRest]
        /\ UNCHANGED <<clock, providers, txns, begun, signedIn, given, refused>>

\* POST /admin/desktop-handoff: the app, which has the verifier, collects the ending.
Redeem(k) ==
    LET end == handoff.outcomes[k]
    IN  /\ end # NULL /\ Input(history)
        /\ handoff' = [handoff EXCEPT !.outcomes[k] = NULL]
        /\ given' = IF Fresh(end, clock) THEN given \cup {[attempt |-> k, sid |-> end.sid]} ELSE given
        /\ UNCHANGED <<clock, rows, people, keys, registry, entries, clients, admin,
                       txns, begun, pc, signedIn, refused>>

----------------------------------------------------------------------------
(***************************************************************************)
(* The rest of the world.                                                  *)
(***************************************************************************)
ClockTick ==
    /\ Input(history)
    /\ clock' = clock + 1
    /\ UNCHANGED <<rows, people, keys, registry, entries, clients, admin, logins>>

\* A session ends and the reaper takes its custody; one without a session, even
\* one whose session is about to be made, goes too.
Reap(p) ==
    /\ p.kind = "custody" /\ Input(history)
    /\ people' = people \ {p}
    /\ signedIn' = [i \in DOMAIN signedIn |->
                       [signedIn[i] EXCEPT !.live = @ /\ signedIn[i].custody # p.seq]]
    /\ UNCHANGED <<clock, rows, keys, registry, entries, clients, admin,
                   txns, begun, pc, handoff, given, refused>>

\* The process dies and starts again: only the rows and the providers remember.
Restart ==
    /\ Input([history EXCEPT !.off = [id \in Ids |-> IF rows[id] # NULL /\ ~rows[id].enabled
                                                     THEN {} ELSE NULL]])
    /\ entries' = BootEntries(rows)
    /\ registry' = BootRegistry(BootEntries(rows))
    /\ clients' = BootClients(keys)
    /\ admin' = [a \in Admins |-> NoRequest]
    /\ txns' = {} /\ handoff' = EmptyHeld
    /\ pc' = [b \in Browsers |-> AtRest]
    /\ UNCHANGED <<clock, rows, people, keys, begun, signedIn, given, refused>>

\* The callbacks that hold a client of this provider, or are about to.
Inside(id) ==
    {b \in Browsers : /\ pc[b].step \in {"connect", "take", "exchange", "refetch", "fetch",
                                         "verify", "custody", "create"}
                      /\ pc[b].cookie # 0 /\ begun[pc[b].cookie].id = id}

ServeBrowser(b) ==
    \/ \E want \in {NULL} \cup AllIds, k \in {NULL} \cup Attempts : AskLogin(b, want, k)
    \/ Connect(b) \/ BeginLogin(b)
    \/ \E cookie, answer \in DOMAIN begun, ok, named \in BOOLEAN :
          /\ named => ok
          /\ cookie \notin txns => answer = cookie /\ ok /\ ~named   \* refused whatever it brings
          /\ \E sub \in Spellings(begun[answer].issuer) : AskCallback(b, cookie, answer, ok, sub, named)
    \/ Pick(b) \/ Take(b) \/ Exchange(b) \/ Refetch(b) \/ Fetch(b) \/ Verify(b)
    \/ StoreCustody(b) \/ MakeSession(b)
    \/ \E k \in Attempts, sid \in DOMAIN signedIn : AskDesktop(b, k, sid)
    \/ Mint(b)

LoginNext ==
    \/ \E b \in Browsers : ServeBrowser(b)
    \/ AdminNext([id \in Ids |-> Inside(id)]) /\ UNCHANGED <<clock, logins>>
    \/ \E id \in Ids : GrantRole(id) /\ UNCHANGED <<clock, logins>>
    \/ \E i \in Issuers : RotateKey(i) /\ UNCHANGED <<clock, logins>>
    \/ \E k \in Attempts : Redeem(k)
    \/ \E p \in people : Reap(p)
    \/ ClockTick \/ Restart

LoginSpec == LoginInit /\ [][LoginNext]_loginVars

----------------------------------------------------------------------------
(***************************************************************************)
(* Properties.                                                             *)
(***************************************************************************)
SettingsType == [issuer : Issuers, enabled : BOOLEAN, deleted : BOOLEAN, cred : 0 .. 2]

\* The shape of the state: the rows, the registry and what it points at
\* (providers.rs), the clients and their refetch lock (oauth.rs), the sessions
\* and the tables of desktop.rs.
LoginTypeOK ==
    /\ rows \in [Ids -> {NULL} \cup SettingsType]
    /\ registry \in [AllIds -> 0 .. Len(entries)]
    /\ \A i \in DOMAIN entries :
          /\ entries[i].settings \in SettingsType
          /\ entries[i].client \in 0 .. Len(clients)
    /\ \A i \in DOMAIN clients :
          clients[i].busy <=> \E b \in Browsers : pc[b].step = "fetch" /\ pc[b].client = i
    /\ txns \subseteq DOMAIN begun
    /\ \A k \in Attempts : handoff.logins[k] # NULL => handoff.logins[k].sid \in DOMAIN signedIn
    /\ history.inputs \in 0 .. MaxInputs

\* INV-3 (oauth.rs complete_login): a session comes from one transaction, which
\* made no other, from the answer to that transaction and to no other, and from
\* a callback that arrived within its time to live, whatever was sent twice,
\* mixed or delayed, at whichever provider.
SessionsAreEarned ==
    /\ \A i, j \in DOMAIN signedIn : signedIn[i].txn = signedIn[j].txn => i = j
    /\ \A i \in DOMAIN signedIn :
          LET s == signedIn[i]
          IN  /\ s.answer = s.txn
              /\ s.id = begun[s.txn].id
              /\ s.at - begun[s.txn].at < TxnTtl

\* client_for_callback: once a provider is disabled or deleted and the
\* administrator has been answered, the only sessions it still gives are those
\* of the callbacks that had passed the check by then, through restarts and
\* entries that connect late.  Those it does give (NoSessionAfterDisable).
DisableHolds == \A i \in DOMAIN signedIn : signedIn[i].door # "shut"

\* ADR-0018: "A disabled provider starts no login and completes none in flight:
\* someone disabling a provider because it is compromised does not want one more
\* session from it."  So once the administrator who disabled or deleted it has been
\* answered, no callback makes a session of it.  client_for_callback looks before
\* the code exchange, and nothing looks after it.
NoSessionAfterDisable == \A i \in DOMAIN signedIn : signedIn[i].door = "open"

\* The registry serves what the rows say of an id that no two requests changed at
\* once, except while its row is written and its entry is about to be installed: a
\* crash in between, a refused connection or a failed write, and any number of
\* requests for other ids, leave no difference behind.
RegistryFollowsRows ==
    \A id \in Ids \ history.crossed :
        (\A a \in Admins : admin[a].step = "install" => admin[a].id # id) => Settings(id) = rows[id]

\* A client serves the provider whose settings it was built from: no rename,
\* re-enabling or late connection leaves an entry with a client of other
\* credentials or of another issuer (update_inner's reusable, which reads the
\* registry twice, and client_of's cell), if no two requests changed it at once.
ClientsMatch ==
    \A id \in AllIds \ history.crossed :
        (registry[id] # 0 /\ entries[registry[id]].client # 0) =>
            LET e == entries[registry[id]]
                c == clients[e.client]
            IN  c.id = id /\ c.issuer = e.settings.issuer /\ c.cred = e.settings.cred

\* A person recorded under an id belongs to the issuer of that id.
Belongs(p, id) == InNamespace(p, id) /\ rows[id] # NULL => p.issuer = rows[id].issuer

\* "An id is a set of people" (create_inner, update_inner): whoever was recorded
\* under an id when the last request that settled its issuer checked who is there
\* belongs to that issuer, through deletion, revival, subjects the config provider
\* spells with that prefix, and roles granted in advance; of those recorded after
\* the check, and of ids two requests changed at once, it says nothing.
EarlierPeopleKeepIssuer ==
    \A p \in people, id \in Ids \ history.crossed : Belongs(p, id) \/ p.seq > history.checked[id]

\* refetch_keys: a login whose token is signed by a key the provider still uses
\* is refused for that key only if the last fetch was too recent, or failed.
RefusedOnlyWhenThrottled == \A r \in refused : r.excuse \/ r.stale

\* A provider is served as its administrators left it, one after the other: by the
\* settings stored, by a client built from them, with the keys its issuer uses.
ProvidersServed ==
    LoginTypeOK /\ RegistryFollowsRows /\ ClientsMatch /\ RefusedOnlyWhenThrottled

\* http/desktop.rs: "a session already in that browser cannot be spent on an
\* attempt": the token held for an attempt, and the one the app collects, is for
\* the session that the attempt's own login made.
HandoffIsOwn ==
    /\ \A k \in Attempts :
          (handoff.outcomes[k] # NULL /\ handoff.outcomes[k].sid # 0) =>
              signedIn[handoff.outcomes[k].sid].attempt = k
    /\ \A g \in given : g.sid # 0 => signedIn[g.sid].attempt = g.attempt

\* What a login gives is its own: one session of one transaction, and for the
\* desktop application the token of the attempt that began it.
LoginsAreEarned == SessionsAreEarned /\ HandoffIsOwn
=============================================================================
