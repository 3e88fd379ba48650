------------------------------ MODULE Keepalive ------------------------------
(***************************************************************************)
(* The keepalive worker (keepalive.rs, run_keepalive of main.rs): the      *)
(* scheduler that decides when each upstream grant is renewed, the tick    *)
(* that renews what is due in bounded batches, the write-through of a      *)
(* rotated refresh token (custody.rs), and what a result does to the       *)
(* custody's sessions and rows.  The identity provider is external: it     *)
(* keeps one valid refresh token per grant, rotates it or not, revokes the *)
(* grant at any moment, is busy, or its answer is lost.                    *)
(*                                                                         *)
(* A custody backs one session (a login makes one of each), of which only  *)
(* the status and the health shown are kept; SessionMap has the rest.  The *)
(* write-behind queue is FIFO, so a write-through finds it drained.        *)
(***************************************************************************)
EXTENDS Optional, Integers, FiniteSets, Sequences

CONSTANTS
    Custodies,
    Lifetime,      \* expires_in of every access token, in seconds
    Lead,          \* lead_fraction, in percent
    Jitter,        \* jitter_fraction, in percent
    BaseBackoff,   \* base_backoff_secs
    MaxBackoff,    \* max_backoff_secs
    MaxConcurrent, \* max_concurrent
    IdleTick,      \* KEEPALIVE_IDLE_TICK
    Spread,        \* STAMPEDE_SPREAD_SECS
    KillOnRevoke,  \* on_upstream_revoked = kill
    MaxCall,       \* the time one refresh may take: the HTTP client's timeout
    Events,        \* what users and administrators do
    Faults,        \* the failures that happen
    MaxTime,       \* bound: the clock stops here
    LoginBy,       \* bound: no login later
    MaxTok,        \* bound: the provider stops rotating here
    MaxRestarts    \* bound: crashes

EventKind ==
    {"other_login", \* a custody outside Custodies is scheduled
     "logout",      \* a session ends
     "reap",        \* old rows are deleted
     "revoke"}      \* the provider ends a grant

FaultKind ==
    {"busy",       \* the provider, or its discovery document, is unavailable
     "lost",       \* it rotates the token and the answer is lost
     "read",       \* the custody row cannot be read
     "boot_read",  \* nor can the rows at boot
     "store",      \* a write is not committed
     "panic"}      \* the refresh task panics

ASSUME KeepaliveAssumption ==
    /\ NULL \notin Nat \cup Custodies
    /\ IsFiniteSet(Custodies)
    /\ {Lifetime, Lead, Jitter, BaseBackoff, MaxBackoff} \subseteq Nat \ {0}
    /\ Jitter <= 100
    /\ {MaxConcurrent, IdleTick, Spread, MaxCall, MaxTime, LoginBy, MaxTok, MaxRestarts}
         \subseteq Nat
    /\ KillOnRevoke \in BOOLEAN
    /\ Events \subseteq EventKind
    /\ Faults \subseteq FaultKind

VARIABLES
    now,
    up,        \* whether the process runs
    entries,   \* Scheduler.entries
    due,       \* Scheduler.due: <<at, custody>>
    schedule,  \* ScheduleRequests the worker has not received
    wake,      \* when the select's sleep ends
    batch,     \* custodies of the tick not yet dispatched
    flight,    \* the refresh tasks of the JoinSet
    started,   \* when they were spawned
    session,   \* the custody's session in the map
    queue,     \* the writer's channel
    row,       \* custody rows
    sessrow,   \* status of the session rows
    grant,     \* the provider's side
    lost,      \* custodies whose valid refresh token reached no row
    restarts

clockVars == <<now, up, restarts>>
schedVars == <<entries, due, schedule, wake>>
tickVars == <<batch, flight, started>>
storeVars == <<queue, row, sessrow>>
idpVars == <<grant, lost>>
vars == <<clockVars, schedVars, tickVars, session, storeVars, idpVars>>

CustodyStatus == {"ok", "degraded", "dead"}

CustodyState ==
    [status : CustodyStatus, access_exp : Nat, next_refresh : Nat,
     fail_count : Nat, refreshing : BOOLEAN]

CustodyRow ==
    [tok : Nat, access_exp : Nat, next_refresh : Nat, status : CustodyStatus,
     fail_count : Nat]

\* A refresh task: what it has reached, the refresh token it holds, the clock
\* it read before calling, and its outcome.
Refresh ==
    [stage : {"reading", "calling", "storing"}, tok : Nat, at : Nat, outcome : {NULL}]
    \cup [stage : {"done"}, tok : Nat, at : Nat,
          outcome : {"success", "transient", "permanent"}]

\* The refresh token the provider honours, and when it ended the grant.
Grant == [tok : Nat, revoked_at : Option(Nat)]

ASSUME NullAssumption ==
    /\ NULL \notin CustodyState \cup CustodyRow \cup Refresh \cup Grant
    /\ NULL \notin {"alive", "tombstoned"}

Command ==
    [cmd : {"insert_session", "tombstone_session"}, custody : Custodies]
    \cup [cmd : {"custody_failure"}, custody : Custodies, status : CustodyStatus,
          fail_count : Nat, next_refresh : Nat]

----------------------------------------------------------------------------
(***************************************************************************)
(* Delays.                                                                 *)
(***************************************************************************)
AtLeastOne(n) == IF n < 1 THEN 1 ELSE n

Smaller(m, n) == IF m < n THEN m ELSE n

\* Mutant: the lead is measured from the end of the lifetime.
LeadDelays_FromEnd(lifetime) ==
    {AtLeastOne(lifetime - d) :
        d \in 0 .. (lifetime * (100 - Lead)) \div 200}

\* next_refresh_at: lead +- jitter, floored, at least a second.  The jitter's
\* unit is below 1.
LeadDelays(lifetime) ==
    {AtLeastOne(d) :
        d \in (lifetime * Lead * (100 - Jitter)) \div 10000 ..
              (lifetime * Lead * (100 + Jitter) - 1) \div 10000}

\* backoff_secs: Retry-After if there is one, else full jitter.
BackoffDelays(fails, retry_after) ==
    IF retry_after # NULL THEN {Smaller(retry_after, MaxBackoff)}
    ELSE 1 .. AtLeastOne(Smaller(BaseBackoff * 2 ^ Smaller(fails, 16), MaxBackoff) - 1)

----------------------------------------------------------------------------
Init ==
    /\ now = 0
    /\ up = TRUE
    /\ entries = [c \in Custodies |-> NULL]
    /\ due = {}
    /\ schedule = {}
    /\ wake = IdleTick
    /\ batch = {}
    /\ flight = [c \in Custodies |-> NULL]
    /\ started = 0
    /\ session = [c \in Custodies |-> NULL]
    /\ queue = <<>>
    /\ row = [c \in Custodies |-> NULL]
    /\ sessrow = [c \in Custodies |-> NULL]
    /\ grant = [c \in Custodies |-> NULL]
    /\ lost = {}
    /\ restarts = 0

\* The worker is inside tick() and receives nothing.
Ticking == batch # {} \/ \E c \in Custodies : flight[c] # NULL

\* A second passes only when nothing that takes less is left to do: the writer
\* flushes every 50 ms, the worker wakes when its sleep ends, a task that is
\* done is joined, and the HTTP client gives up after MaxCall.
Tick ==
    /\ now < MaxTime
    /\ up =>
         /\ queue = <<>>
         /\ IF Ticking
            THEN /\ \E c \in Custodies : flight[c] # NULL
                 /\ \A c \in Custodies : flight[c] # NULL => flight[c].stage # "done"
                 /\ now < started + MaxCall
            ELSE schedule = {} /\ now < wake
    /\ now' = now + 1
    /\ UNCHANGED <<up, restarts, schedVars, tickVars, session, storeVars, idpVars>>

----------------------------------------------------------------------------
(***************************************************************************)
(* Logins and the worker's select.                                         *)
(***************************************************************************)
\* The callback: take_custody writes the row through and sends the schedule
\* request, then the session is created.
Login(c) ==
    /\ up
    /\ now <= LoginBy
    /\ grant[c] = NULL
    /\ queue = <<>>
    /\ grant' = [grant EXCEPT ![c] = [tok |-> 1, revoked_at |-> NULL]]
    /\ row' = [row EXCEPT ![c] =
          [tok |-> 1, access_exp |-> now + Lifetime,
           next_refresh |-> now + (Lifetime * Lead) \div 100,
           status |-> "ok", fail_count |-> 0]]
    /\ schedule' = schedule \cup {[custody |-> c, issued_at |-> now]}
    /\ session' = [session EXCEPT ![c] = [status |-> "alive", health |-> "ok"]]
    /\ queue' = <<[cmd |-> "insert_session", custody |-> c]>>
    /\ UNCHANGED <<clockVars, entries, due, wake, tickVars, sessrow, lost>>

\* Mutant: the entry is not pushed on the heap.
Receive_NotPushed(c) ==
    /\ up
    /\ ~ Ticking
    /\ \E r \in schedule, d \in LeadDelays(Lifetime) :
         /\ r.custody = c
         /\ schedule' = schedule \ {r}
         /\ entries' = [entries EXCEPT ![c] =
               [status |-> "ok", access_exp |-> r.issued_at + Lifetime,
                next_refresh |-> r.issued_at + d, fail_count |-> 0,
                refreshing |-> FALSE]]
    /\ wake' = now + IdleTick
    /\ UNCHANGED <<clockVars, due, tickVars, session, storeVars, idpVars>>

\* run_keepalive receives a request and inserts it; the loop then starts a new
\* sleep.
Receive(c) ==
    /\ up
    /\ ~ Ticking
    /\ \E r \in schedule, d \in LeadDelays(Lifetime) :
         /\ r.custody = c
         /\ schedule' = schedule \ {r}
         /\ entries' = [entries EXCEPT ![c] =
               [status |-> "ok", access_exp |-> r.issued_at + Lifetime,
                next_refresh |-> r.issued_at + d, fail_count |-> 0,
                refreshing |-> FALSE]]
         /\ due' = due \cup {<<r.issued_at + d, c>>}
    /\ wake' = now + IdleTick
    /\ UNCHANGED <<clockVars, tickVars, session, storeVars, idpVars>>

\* The same for a custody outside Custodies.
ReceiveOther ==
    /\ "other_login" \in Events
    /\ up
    /\ ~ Ticking
    /\ wake' = now + IdleTick
    /\ UNCHANGED <<clockVars, entries, due, schedule, tickVars, session, storeVars,
                   idpVars>>

----------------------------------------------------------------------------
(***************************************************************************)
(* The tick.                                                               *)
(***************************************************************************)
\* What take_due returns.
Ready ==
    {c \in Custodies :
        /\ entries[c] # NULL
        /\ \E e \in due : e[2] = c /\ e[1] <= now
        /\ entries[c].next_refresh <= now
        /\ ~ entries[c].refreshing
        /\ entries[c].status # "dead"}

\* Mutant: what is taken is not marked.
TakeDue_Unmarked ==
    /\ up
    /\ ~ Ticking
    /\ now >= wake
    /\ batch' = Ready
    /\ due' = {e \in due : e[1] > now}
    /\ wake' = IF Ready = {} THEN now + IdleTick ELSE wake
    /\ UNCHANGED <<clockVars, entries, schedule, flight, started, session, storeVars,
                   idpVars>>

\* The sleep ends and tick() takes everything due.
TakeDue ==
    /\ up
    /\ ~ Ticking
    /\ now >= wake
    /\ batch' = Ready
    /\ entries' = [c \in Custodies |->
          IF c \in Ready THEN [entries[c] EXCEPT !.refreshing = TRUE] ELSE entries[c]]
    /\ due' = {e \in due : e[1] > now}
    /\ wake' = IF Ready = {} THEN now + IdleTick ELSE wake
    /\ UNCHANGED <<clockVars, schedule, flight, started, session, storeVars, idpVars>>

NotStarted == [stage |-> "reading", tok |-> 0, at |-> 0, outcome |-> NULL]

\* The next chunk of the batch, in the order of the heap, is spawned.
Dispatch ==
    /\ up
    /\ batch # {}
    /\ \A c \in Custodies : flight[c] = NULL
    /\ \E chunk \in SUBSET batch :
         /\ Cardinality(chunk) =
               Smaller(AtLeastOne(MaxConcurrent), Cardinality(batch))
         /\ \A c \in chunk, d \in batch \ chunk :
               entries[c].next_refresh <= entries[d].next_refresh
         /\ flight' = [c \in Custodies |-> IF c \in chunk THEN NotStarted ELSE NULL]
         /\ batch' = batch \ chunk
    /\ started' = now
    /\ UNCHANGED <<clockVars, schedVars, session, storeVars, idpVars>>

Stage(c, s) == up /\ flight[c] # NULL /\ flight[c].stage = s

Finished(c, outcome) ==
    flight' = [flight EXCEPT ![c] =
                 [stage |-> "done", tok |-> 0, at |-> 0, outcome |-> outcome]]

\* OidcUpstream::refresh loads the row and picks the provider's client.  A
\* row that is gone is permanent, one that cannot be read is not.
LoadCustody(c) ==
    /\ Stage(c, "reading")
    /\ \/ /\ row[c] # NULL
          /\ flight' = [flight EXCEPT ![c] = [stage |-> "calling", tok |-> row[c].tok,
                                              at |-> now, outcome |-> NULL]]
       \/ row[c] = NULL /\ Finished(c, "permanent")
       \/ Faults \cap {"read", "busy"} # {} /\ Finished(c, "transient")
    /\ UNCHANGED <<clockVars, schedVars, batch, started, session, storeVars, idpVars>>

\* Whether the provider honours the token the task presents.
Honoured(c) == grant[c].revoked_at = NULL /\ flight[c].tok = grant[c].tok

\* The provider grants: it rotates the refresh token or keeps it.
Granted(c) ==
    /\ Stage(c, "calling")
    /\ Honoured(c)
    /\ \E tok \in {grant[c].tok, grant[c].tok + 1} :
         /\ tok <= MaxTok
         /\ grant' = [grant EXCEPT ![c].tok = tok]
         /\ flight' = [flight EXCEPT ![c] = [stage |-> "storing", tok |-> tok,
                                             at |-> flight[c].at, outcome |-> NULL]]
    /\ UNCHANGED <<clockVars, schedVars, batch, started, session, storeVars, lost>>

\* Mutant: invalid_grant classified like every other error.
Refused_Transient(c) ==
    /\ Stage(c, "calling")
    /\ ~ Honoured(c)
    /\ Finished(c, "transient")
    /\ UNCHANGED <<clockVars, schedVars, batch, started, session, storeVars, idpVars>>

\* invalid_grant: revoked, or a token already consumed.  A provider deleted
\* from the registry (RefreshClient::Gone) ends the same way.
Refused(c) ==
    /\ Stage(c, "calling")
    /\ ~ Honoured(c)
    /\ Finished(c, "permanent")
    /\ UNCHANGED <<clockVars, schedVars, batch, started, session, storeVars, idpVars>>

\* 5xx, 429 or no connection.
Busy(c) ==
    /\ "busy" \in Faults
    /\ Stage(c, "calling")
    /\ Finished(c, "transient")
    /\ UNCHANGED <<clockVars, schedVars, batch, started, session, storeVars, idpVars>>

\* The provider rotates, and the answer does not arrive.
AnswerLost(c) ==
    /\ "lost" \in Faults
    /\ Stage(c, "calling")
    /\ Honoured(c)
    /\ grant[c].tok < MaxTok
    /\ grant' = [grant EXCEPT ![c].tok = @ + 1]
    /\ lost' = lost \cup {c}
    /\ Finished(c, "transient")
    /\ UNCHANGED <<clockVars, schedVars, batch, started, session, storeVars>>

\* Mutant: a rotated refresh token is not the one stored.
StoreGrant_KeepsOld(c) ==
    /\ Stage(c, "storing")
    /\ queue = <<>>
    /\ row' = IF row[c] = NULL THEN row
              ELSE [row EXCEPT ![c] =
                      [tok |-> row[c].tok, access_exp |-> flight[c].at + Lifetime,
                       next_refresh |-> flight[c].at + Lifetime,
                       status |-> "ok", fail_count |-> 0]]
    /\ Finished(c, "success")
    /\ UNCHANGED <<clockVars, schedVars, batch, started, session, queue, sessrow,
                   idpVars>>

\* The write-through of the new tokens.  It updates no row if the row is gone.
StoreGrant(c) ==
    /\ Stage(c, "storing")
    /\ queue = <<>>
    /\ row' = IF row[c] = NULL THEN row
              ELSE [row EXCEPT ![c] =
                      [tok |-> flight[c].tok, access_exp |-> flight[c].at + Lifetime,
                       next_refresh |-> flight[c].at + Lifetime,
                       status |-> "ok", fail_count |-> 0]]
    /\ Finished(c, "success")
    /\ UNCHANGED <<clockVars, schedVars, batch, started, session, queue, sessrow,
                   idpVars>>

\* Custodies whose rotated token dies with the task that holds it.
Orphaned == {c \in Custodies : flight[c] # NULL /\ flight[c].stage = "storing"}

\* The write-through fails: the scheduler must not believe in a success.
StoreFails(c) ==
    /\ "store" \in Faults
    /\ Stage(c, "storing")
    /\ lost' = lost \cup {c}
    /\ Finished(c, "transient")
    /\ UNCHANGED <<clockVars, schedVars, batch, started, session, storeVars, grant>>

\* The tick ends with its last task, and the loop starts a new sleep.
Joined(c) ==
    /\ flight' = [flight EXCEPT ![c] = NULL]
    /\ wake' = IF batch = {} /\ \A d \in Custodies \ {c} : flight[d] = NULL
               THEN now + IdleTick ELSE wake

\* The task panics: join_next answers an error and the loop goes on.
Panic(c) ==
    /\ "panic" \in Faults
    /\ \E s \in {"reading", "calling", "storing"} : Stage(c, s)
    /\ Joined(c)
    /\ lost' = lost \cup (Orphaned \cap {c})
    /\ UNCHANGED <<clockVars, entries, due, schedule, batch, started, session,
                   storeVars, grant>>

\* Mutant: degraded at the first failure.
Recorded_AtOnce(e, outcome) ==
    CASE outcome = "success" ->
            {[status |-> "ok", access_exp |-> now + Lifetime,
              next_refresh |-> now + d, fail_count |-> 0, refreshing |-> FALSE] :
                d \in LeadDelays(Lifetime)}
      [] outcome = "transient" ->
            {[status |-> "degraded", access_exp |-> e.access_exp,
              next_refresh |-> now + d, fail_count |-> e.fail_count + 1,
              refreshing |-> FALSE] :
                d \in BackoffDelays(e.fail_count, NULL)}
      [] outcome = "permanent" ->
            {[e EXCEPT !.status = "dead", !.next_refresh = now, !.refreshing = FALSE]}

\* Scheduler::record: what an outcome makes of an entry.
Recorded(e, outcome) ==
    CASE outcome = "success" ->
            {[status |-> "ok", access_exp |-> now + Lifetime,
              next_refresh |-> now + d, fail_count |-> 0, refreshing |-> FALSE] :
                d \in LeadDelays(Lifetime)}
      [] outcome = "transient" ->
            {[status |-> IF now >= e.access_exp THEN "degraded" ELSE "ok",
              access_exp |-> e.access_exp, next_refresh |-> now + d,
              fail_count |-> e.fail_count + 1, refreshing |-> FALSE] :
                d \in BackoffDelays(e.fail_count, NULL)}
      [] outcome = "permanent" ->
            {[e EXCEPT !.status = "dead", !.next_refresh = now, !.refreshing = FALSE]}

\* Mutant: the session's enumeration instead of the custody's.
Failure_WrongEnum(c, e) ==
    [cmd |-> "custody_failure", custody |-> c, status |-> "tombstoned",
     fail_count |-> e.fail_count, next_refresh |-> e.next_refresh]

\* Mutant: every failure is stored as permanent.
Failure_Dead(c, e) ==
    [cmd |-> "custody_failure", custody |-> c, status |-> "dead",
     fail_count |-> e.fail_count, next_refresh |-> e.next_refresh]

\* persist_failure.
Failure(c, e) ==
    [cmd |-> "custody_failure", custody |-> c, status |-> e.status,
     fail_count |-> e.fail_count, next_refresh |-> e.next_refresh]

Alive(c) == session[c] # NULL /\ session[c].status = "alive"

\* Whether the outcome ends the custody's session (tombstone_by_custody).
Kills(c) == flight[c].outcome = "permanent" /\ KillOnRevoke /\ Alive(c)

\* A joined result: the scheduler records it, the sessions show the health, a
\* failure is persisted, and under `kill` a dead grant ends its session.
Record(c) ==
    /\ Stage(c, "done")
    /\ \E e \in Recorded(entries[c], flight[c].outcome) :
         /\ entries' = [entries EXCEPT ![c] = e]
         /\ due' = IF e.status = "dead" THEN due ELSE due \cup {<<e.next_refresh, c>>}
         /\ session' = IF session[c] = NULL THEN session
                       ELSE [session EXCEPT
                               ![c] = [status |-> IF Kills(c) THEN "tombstoned"
                                                  ELSE session[c].status,
                                       health |-> e.status]]
         /\ queue' = queue
               \o (IF flight[c].outcome = "success" THEN <<>> ELSE <<Failure(c, e)>>)
               \o (IF Kills(c)
                   THEN <<[cmd |-> "tombstone_session", custody |-> c]>> ELSE <<>>)
    /\ Joined(c)
    /\ UNCHANGED <<clockVars, schedule, batch, started, row, sessrow, idpVars>>

----------------------------------------------------------------------------
(***************************************************************************)
(* The rest of the broker, the provider, and restarts.                     *)
(***************************************************************************)
\* The writer commits the next command.  A batch may be cut anywhere, so the
\* commands are committed one by one.  An UPDATE may find no row.
Commit ==
    /\ up
    /\ queue # <<>>
    /\ queue' = Tail(queue)
    /\ LET q == Head(queue)
           c == q.custody
       IN \/ /\ q.cmd = "insert_session"
             /\ sessrow' = [sessrow EXCEPT ![c] = "alive"]
             /\ UNCHANGED row
          \/ /\ q.cmd = "tombstone_session"
             /\ sessrow' = [sessrow EXCEPT ![c] =
                              IF @ = NULL THEN NULL ELSE "tombstoned"]
             /\ UNCHANGED row
          \/ /\ q.cmd = "custody_failure"
             /\ row' = IF row[c] = NULL THEN row
                       ELSE [row EXCEPT ![c] =
                               [tok |-> row[c].tok, access_exp |-> row[c].access_exp,
                                next_refresh |-> q.next_refresh, status |-> q.status,
                                fail_count |-> q.fail_count]]
             /\ UNCHANGED sessrow
    /\ UNCHANGED <<clockVars, schedVars, tickVars, session, idpVars>>

\* A batch rolls back: write-behind is logged and lost.
CommitFails ==
    /\ "store" \in Faults
    /\ up
    /\ queue # <<>>
    /\ queue' = Tail(queue)
    /\ UNCHANGED <<clockVars, schedVars, tickVars, session, row, sessrow, idpVars>>

\* The user logs out, or an operator revokes the session.  The custody stays
\* scheduled.
Logout(c) ==
    /\ "logout" \in Events
    /\ up
    /\ Alive(c)
    /\ session' = [session EXCEPT ![c].status = "tombstoned"]
    /\ queue' = Append(queue, [cmd |-> "tombstone_session", custody |-> c])
    /\ UNCHANGED <<clockVars, schedVars, tickVars, row, sessrow, idpVars>>

\* repo.rs reap: ended sessions that are old enough, and every custody that no
\* session row refers to.  SessionStore has it in detail.
Reap ==
    /\ "reap" \in Events
    /\ up
    /\ queue = <<>>
    /\ \E doomed \in SUBSET {c \in Custodies : sessrow[c] = "tombstoned"} :
         LET kept == {c \in Custodies \ doomed : sessrow[c] # NULL}
         IN /\ sessrow' = [c \in Custodies |-> IF c \in kept THEN sessrow[c] ELSE NULL]
            /\ row' = [c \in Custodies |-> IF c \in kept THEN row[c] ELSE NULL]
    /\ UNCHANGED <<clockVars, schedVars, tickVars, session, queue, idpVars>>

\* An administrator at the provider ends the grant.
Revoke(c) ==
    /\ "revoke" \in Events
    /\ grant[c] # NULL
    /\ grant[c].revoked_at = NULL
    /\ grant' = [grant EXCEPT ![c].revoked_at = now]
    /\ UNCHANGED <<clockVars, schedVars, tickVars, session, storeVars, lost>>

\* What is in memory is lost, the queue with it.
Crash ==
    /\ up
    /\ restarts < MaxRestarts
    /\ up' = FALSE
    /\ restarts' = restarts + 1
    /\ lost' = lost \cup Orphaned
    /\ entries' = [c \in Custodies |-> NULL]
    /\ due' = {}
    /\ schedule' = {}
    /\ batch' = {}
    /\ flight' = [c \in Custodies |-> NULL]
    /\ session' = [c \in Custodies |-> NULL]
    /\ queue' = <<>>
    /\ wake' = 0
    /\ started' = 0
    /\ UNCHANGED <<now, row, sessrow, grant>>

\* live_custody_schedules: the rows whose grant is not known to be dead.
Restorable == {c \in Custodies : row[c] # NULL /\ row[c].status # "dead"}

\* The orders in which its query may return them.
Orders(rows) ==
    {o \in [rows -> 0 .. Cardinality(rows) - 1] :
        \A c, d \in rows :
            /\ o[c] = o[d] => c = d
            /\ o[c] < o[d] => row[c].next_refresh <= row[d].next_refresh}

\* restore_keepalive_schedule: the overdue are spread over a window.
RestoredAt(c, index, count) ==
    IF row[c].next_refresh <= now THEN now + (index * Spread) \div count
    ELSE row[c].next_refresh

\* main.rs: sessions and schedule come back from the rows, each in good health.
\* If the rows cannot be read the worker starts with nothing.
Boot ==
    /\ ~ up
    /\ up' = TRUE
    /\ \E rows \in {Restorable} \cup (IF "boot_read" \in Faults THEN {{}} ELSE {}) :
         \E o \in Orders(rows) :
           LET at(c) == RestoredAt(c, o[c], Cardinality(rows))
           IN /\ entries' = [c \in Custodies |->
                    IF c \in rows
                    THEN [status |-> row[c].status, access_exp |-> row[c].access_exp,
                          next_refresh |-> at(c), fail_count |-> 0,
                          refreshing |-> FALSE]
                    ELSE NULL]
              /\ due' = {<<at(c), c>> : c \in rows}
    /\ session' = [c \in Custodies |->
          IF sessrow[c] = "alive" THEN [status |-> "alive", health |-> "ok"] ELSE NULL]
    /\ wake' = now + IdleTick
    /\ UNCHANGED <<now, restarts, schedule, tickVars, storeVars, idpVars>>

----------------------------------------------------------------------------
RefreshNext(c) ==
    \/ LoadCustody(c)
    \/ Granted(c)
    \/ Refused(c)
    \/ Busy(c)
    \/ AnswerLost(c)
    \/ StoreGrant(c)
    \/ StoreFails(c)
    \/ Panic(c)
    \/ Record(c)

Next ==
    \/ Tick
    \/ \E c \in Custodies : Login(c)
    \/ \E c \in Custodies : Receive(c)
    \/ ReceiveOther
    \/ TakeDue
    \/ Dispatch
    \/ \E c \in Custodies : RefreshNext(c)
    \/ Commit
    \/ CommitFails
    \/ \E c \in Custodies : Logout(c)
    \/ Reap
    \/ \E c \in Custodies : Revoke(c)
    \/ Crash
    \/ Boot

Spec == Init /\ [][Next]_vars

----------------------------------------------------------------------------
(***************************************************************************)
(* Properties.                                                             *)
(***************************************************************************)
ClockOK == now \in Nat /\ up \in BOOLEAN /\ restarts \in Nat

SchedOK ==
    /\ entries \in [Custodies -> Option(CustodyState)]
    /\ due \subseteq Nat \X Custodies
    /\ schedule \subseteq [custody : Custodies, issued_at : Nat]
    /\ wake \in Nat

TickOK ==
    /\ batch \subseteq Custodies
    /\ flight \in [Custodies -> Option(Refresh)]
    /\ started \in Nat

SessionOK ==
    session \in [Custodies ->
                   Option([status : {"alive", "tombstoned"}, health : CustodyStatus])]

StoreOK ==
    /\ queue \in Seq(Command)
    /\ row \in [Custodies -> Option(CustodyRow)]
    /\ sessrow \in [Custodies -> Option({"alive", "tombstoned"})]

IdpOK == grant \in [Custodies -> Option(Grant)] /\ lost \subseteq Custodies

\* The type invariant.
TypeOK == ClockOK /\ SchedOK /\ TickOK /\ SessionOK /\ StoreOK /\ IdpOK

\* Whether tick() still has custody c in hand.
InHand(c) == c \in batch \/ flight[c] # NULL

\* Never two refreshes of one custody (implementation-strategy section 6, the
\* refreshing flag): what the tick has in hand is a live entry so marked, and
\* no longer waits in the batch once it is dispatched.
OneRefreshAtATime ==
    \A c \in Custodies : InHand(c) =>
        /\ entries[c] # NULL
        /\ entries[c].refreshing
        /\ entries[c].status # "dead"
        /\ c \in batch => flight[c] = NULL

\* No custody falls off the schedule (take_due, record): one that is not dead
\* is being refreshed, or the heap holds it at the time its entry says.  The
\* comment on a panicking refresh says the same of it.
StaysScheduled ==
    \A c \in Custodies : entries[c] # NULL /\ entries[c].status # "dead" =>
        \/ InHand(c)
        \/ ~ entries[c].refreshing /\ <<entries[c].next_refresh, c>> \in due

\* The grant is never burnt (OidcUpstream::refresh, the refreshing flag): the
\* row holds the token the provider will honour next, save while the task that
\* just got a new one stores it, or after that task or its answer was lost.
GrantKept ==
    \A c \in Custodies : row[c] # NULL /\ c \notin lost =>
        \/ row[c].tok = grant[c].tok
        \/ flight[c] # NULL /\ flight[c].stage = "storing" /\ flight[c].tok = grant[c].tok

\* What a row calls dead is dead (record, persist_failure, take_due,
\* live_custody_schedules): no grant that is still retried is stored as dead,
\* and none stored as dead is presented again, whatever restarts come.
DeadStaysDead ==
    \A c \in Custodies : row[c] # NULL /\ row[c].status = "dead" =>
        /\ entries[c] # NULL => entries[c].status = "dead"
        /\ ~ InHand(c)

\* The failure taxonomy of keepalive.rs: a session shows `degraded` only once
\* the access token its row holds has really expired.
DegradedMeansExpired ==
    \A c \in Custodies :
        session[c] # NULL /\ session[c].health = "degraded" /\ flight[c] = NULL
        /\ row[c] # NULL => now >= row[c].access_exp

\* ADR-0003: while the provider answers, no custody's access token expires,
\* whatever else is due, slow or arriving.
KeptWarm ==
    \A c \in Custodies :
        row[c] # NULL /\ row[c].status # "dead" /\ grant[c].revoked_at = NULL =>
            now <= row[c].access_exp

\* ADR-0011: under `kill` no session outlives the revocation of its grant by
\* more than the lifetime of an access token.
RevocationPropagates ==
    \A c \in Custodies :
        KillOnRevoke /\ Alive(c) /\ grant[c].revoked_at # NULL =>
            now <= grant[c].revoked_at + Lifetime

\* ADR-0011: under `kill` all sessions referencing a dead custody are
\* tombstoned; none is served once the failure is on disk and the queue drained.
RevokedStaysOut ==
    \A c \in Custodies :
        KillOnRevoke /\ queue = <<>> /\ row[c] # NULL /\ row[c].status = "dead" =>
            ~ Alive(c)

=============================================================================
