---------------------------- MODULE SessionStore ----------------------------
(***************************************************************************)
(* The session map over its durable rows: the single writer thread that    *)
(* turns the queue into transactions (store/writer.rs), the rows           *)
(* (store/repo.rs), the login that writes its custody through before it    *)
(* creates the session (http/auth.rs, custody.rs), the reaper and the      *)
(* restart (main.rs).  The process may crash at any moment: what is in     *)
(* memory and in the queue is lost, the rows stay.                         *)
(*                                                                         *)
(* The health of a custody is left to the keepalive worker's module.       *)
(***************************************************************************)
EXTENDS SessionMap

CONSTANTS
    ReapAfter,   \* reap_after_secs
    StoreFaults, \* whether a transaction may fail to commit (a full disk)
    MaxRestarts, \* bound: crashes and clean stops
    MaxQueue     \* bound: a task waits for the writer beyond this many commands

ASSUME StoreAssumption ==
    /\ {ReapAfter, MaxRestarts, MaxQueue} \subseteq Nat
    /\ StoreFaults \in BOOLEAN

VARIABLES
    up,        \* whether the process runs
    db,        \* the committed rows
    login,     \* logins between their custody write and their session
    reapDue,   \* the time of a sweep whose Reap is not yet enqueued
    swept,     \* the time of the reaper's last round
    failed,    \* whether the writer has rolled back a batch
    restarts,
    before     \* the map as the last process left it, and whether no
               \* process has crashed so far

storeVars == <<up, db, login, reapDue, swept, failed, restarts, before>>
allVars == <<vars, storeVars>>

----------------------------------------------------------------------------
(***************************************************************************)
(* The rows.  A failed statement has the value NULL.                       *)
(***************************************************************************)
Row ==
    [current_gen : Nat, idle_exp : Nat, absolute_exp : Nat,
     status : SessionStatus, tombstoned_at : Option(Nat)]

GenerationRow ==
    [tok : Nat, sid : Sids, gen_no : Nat, created_at : Nat, active_until : Nat,
     superseded_at : Option(Nat)]

Db ==
    [custody : SUBSET Sids, session : [Sids -> Option(Row)],
     generation : SUBSET GenerationRow]

ASSUME RowsAssumption == NULL \notin Row \cup Db

ASSUME BeforeAssumption ==
    NULL \notin [sessions : [Sids -> Option(SessionEntry)],
                 index : [Tokens -> Option(Sids)], clean : BOOLEAN]

EmptyDb == [custody |-> {}, session |-> [s \in Sids |-> NULL], generation |-> {}]

\* Mutant: the absolute end compared the wrong way round.
Reaped_Inverted(d, dead_before) ==
    LET doomed == {s \in Sids : d.session[s] # NULL
                                /\ d.session[s].absolute_exp > dead_before}
    IN [generation |-> {g \in d.generation : g.sid \notin doomed},
        session |-> [s \in Sids |-> IF s \in doomed THEN NULL ELSE d.session[s]],
        custody |-> {s \in d.custody : d.session[s] # NULL /\ s \notin doomed}]

\* repo.rs reap: generations and sessions of the doomed, then every custody
\* no session refers to.
Reaped(d, dead_before) ==
    LET doomed == {s \in Sids :
                     /\ d.session[s] # NULL
                     /\ \/ /\ d.session[s].status = "tombstoned"
                           /\ d.session[s].tombstoned_at # NULL
                           /\ d.session[s].tombstoned_at < dead_before
                        \/ d.session[s].absolute_exp < dead_before}
    IN [generation |-> {g \in d.generation : g.sid \notin doomed},
        session |-> [s \in Sids |-> IF s \in doomed THEN NULL ELSE d.session[s]],
        custody |-> {s \in d.custody : d.session[s] # NULL /\ s \notin doomed}]

\* UPDATE session ... WHERE sid: no row, no change.
UpdateSession(d, s, row) ==
    IF d.session[s] = NULL THEN d ELSE [d EXCEPT !.session[s] = row]

\* One command of apply_batch.  The foreign keys are ON.
Applied(d, c) ==
    CASE c.cmd = "insert_custody" -> [d EXCEPT !.custody = @ \cup {c.sid}]
      [] c.cmd = "insert_session" ->
            IF c.sid \notin d.custody THEN NULL
            ELSE [d EXCEPT !.session[c.sid] =
                    [current_gen |-> c.current_gen, idle_exp |-> c.idle_exp,
                     absolute_exp |-> c.absolute_exp, status |-> "alive",
                     tombstoned_at |-> NULL]]
      [] c.cmd = "insert_generation" ->
            IF d.session[c.sid] = NULL THEN NULL
            ELSE [d EXCEPT !.generation = @ \cup
                    {[tok |-> c.gen.tok, sid |-> c.sid, gen_no |-> c.gen.gen_no,
                      created_at |-> c.gen.created_at,
                      active_until |-> c.gen.active_until,
                      superseded_at |-> NULL]}]
      [] c.cmd = "supersede_generation" ->
            [d EXCEPT !.generation =
                {IF g.tok = c.tok THEN [g EXCEPT !.superseded_at = c.at] ELSE g :
                    g \in @}]
      [] c.cmd = "delete_generation" ->
            [d EXCEPT !.generation = {g \in @ : g.tok # c.tok}]
      [] c.cmd = "update_session_progress" ->
            UpdateSession(d, c.sid,
                [d.session[c.sid] EXCEPT !.current_gen = c.current_gen,
                                         !.idle_exp = c.idle_exp])
      [] c.cmd = "tombstone_session" ->
            UpdateSession(d, c.sid,
                [d.session[c.sid] EXCEPT
                    !.status = "tombstoned",
                    !.tombstoned_at = IF @ = NULL THEN c.at ELSE @])
      [] c.cmd = "reap" -> Reaped(d, c.dead_before)

\* apply_batch: the batch is one transaction, NULL if it rolls back.
Batch(d, cmds) ==
    LET after[n \in 0..Len(cmds)] ==
            IF n = 0 THEN d
            ELSE LET acc == after[n - 1]
                 IN  IF acc = NULL THEN NULL ELSE Applied(acc, cmds[n])
    IN  after[Len(cmds)]

----------------------------------------------------------------------------
(***************************************************************************)
(* The restart.                                                            *)
(***************************************************************************)
\* Mutant: only the generations not yet superseded are loaded.
RowsOf_Newest(s) == {g \in db.generation : g.sid = s /\ g.superseded_at = NULL}

\* The rows a session's generations come back from.
RowsOf(s) == {g \in db.generation : g.sid = s}

\* Mutant: the session's status column read as the custody's.
Rehydrated_WrongColumn(s) ==
    [gens |-> {[gen_no |-> g.gen_no, tok |-> g.tok, created_at |-> g.created_at,
                active_until |-> g.active_until,
                superseded_at |-> g.superseded_at, pos |-> g.gen_no] :
                 g \in RowsOf(s)},
     current_gen |-> db.session[s].current_gen, current_token |-> NULL,
     idle_exp |-> db.session[s].idle_exp,
     absolute_exp |-> db.session[s].absolute_exp, status |-> "alive",
     tombstoned_at |-> NULL, custody_status |-> db.session[s].status,
     retired |-> {}]

\* rehydrate_session: the vector in order of gen_no, and of insertion among
\* equals, as the index gen_by_sid returns them.
Rehydrated(s) ==
    [gens |-> {[gen_no |-> g.gen_no, tok |-> g.tok, created_at |-> g.created_at,
                active_until |-> g.active_until,
                superseded_at |-> g.superseded_at,
                pos |-> Cardinality({h \in RowsOf(s) :
                          h.gen_no < g.gen_no
                          \/ (h.gen_no = g.gen_no /\ h.tok <= g.tok)})] :
                 g \in RowsOf(s)},
     current_gen |-> db.session[s].current_gen, current_token |-> NULL,
     idle_exp |-> db.session[s].idle_exp,
     absolute_exp |-> db.session[s].absolute_exp, status |-> "alive",
     tombstoned_at |-> NULL, custody_status |-> "ok", retired |-> {}]

\* Mutant: the dead come back too.
Rehydratable_Dead == {s \in Sids : db.session[s] # NULL /\ RowsOf(s) # {}}

\* repo.rs rehydrate: the sessions that come back.
Rehydratable ==
    {s \in Sids : /\ db.session[s] # NULL
                  /\ db.session[s].status = "alive"
                  /\ RowsOf(s) # {}}

\* What the loss of the process's memory leaves of SessionMap.
MemoryLost ==
    /\ sessions' = [s \in Sids |-> NULL]
    /\ index' = [t \in Tokens |-> NULL]
    /\ queue' = <<>>
    /\ call' = [w \in Workers |-> NULL]
    /\ pending' = [a \in Actors |-> NULL]
    /\ sweep' = NULL
    /\ login' = [w \in Workers |-> NULL]
    /\ reapDue' = NULL
    /\ swept' = NULL
    /\ UNCHANGED <<now, minted, used, held, kills, db, failed>>

\* Nothing is in flight and the writer has drained its channel.
Quiet ==
    /\ queue = <<>>
    /\ \A w \in Workers : call[w] = NULL /\ login[w] = NULL
    /\ \A a \in Actors : pending[a] = NULL

Stop(clean) ==
    /\ up
    /\ restarts < MaxRestarts
    /\ MemoryLost
    /\ up' = FALSE
    /\ restarts' = restarts + 1
    /\ before' = [sessions |-> sessions, index |-> index,
                  clean |-> clean /\ (before # NULL => before.clean)]

Crash == Stop(FALSE)

\* main.rs after shutdown_signal: drain the requests, drop the writer.
Shutdown == Quiet /\ Stop(TRUE)

Boot ==
    /\ ~ up
    /\ up' = TRUE
    /\ sessions' = [s \in Sids |-> IF s \in Rehydratable THEN Rehydrated(s) ELSE NULL]
    /\ index' = [t \in Tokens |->
          IF \E g \in db.generation : g.tok = t /\ g.sid \in Rehydratable
          THEN (CHOOSE g \in db.generation : g.tok = t).sid ELSE NULL]
    /\ UNCHANGED <<now, queue, call, pending, sweep, minted, used, held, kills,
                   db, login, reapDue, swept, failed, restarts, before>>

----------------------------------------------------------------------------
(***************************************************************************)
(* The writer thread, and the logins that wait for it.                     *)
(***************************************************************************)
\* run and apply_batch: commit or roll back what was drained, answer the acks.
\* Bound: one fault.
WriteBatch ==
    /\ up
    /\ \E n \in 1..Len(queue), fault \in {FALSE, StoreFaults /\ ~ failed} :
          LET batch == SubSeq(queue, 1, n)
              d == IF fault THEN NULL ELSE Batch(db, batch)
          IN /\ queue' = SubSeq(queue, n + 1, Len(queue))
             /\ db' = IF d = NULL THEN db ELSE d
             /\ failed' = (failed \/ d = NULL)
             /\ login' = [w \in Workers |->
                   IF /\ login[w] # NULL
                      /\ \E i \in 1..n : /\ batch[i].cmd = "insert_custody"
                                         /\ batch[i].sid = login[w].sid
                   THEN [login[w] EXCEPT !.ack = IF d = NULL THEN "err" ELSE "ok"]
                   ELSE login[w]]
    /\ UNCHANGED <<now, sessions, index, call, pending, sweep, minted, used,
                   held, kills, up, reapDue, swept, restarts, before>>

\* custody.rs take_custody: write the custody through, and wait for the ack.
TakeCustody(w, s) ==
    /\ up
    /\ Idle(w)
    /\ login[w] = NULL
    /\ s \notin used
    /\ \A v \in Workers : login[v] # NULL => login[v].sid # s
    /\ s \notin db.custody
    /\ login' = [login EXCEPT ![w] = [sid |-> s, ack |-> "waiting"]]
    /\ queue' = Append(queue, [cmd |-> "insert_custody", sid |-> s])
    /\ UNCHANGED <<now, sessions, index, call, pending, sweep, minted, used,
                   held, kills, up, db, reapDue, swept, failed, restarts, before>>

\* The callback goes on to create the session...
FinishLogin(w) ==
    /\ up
    /\ login[w] # NULL
    /\ login[w].ack = "ok"
    /\ Create(w, login[w].sid)
    /\ login' = [login EXCEPT ![w] = NULL]
    /\ UNCHANGED <<up, db, reapDue, swept, failed, restarts, before>>

\* ... or refuses the login when the custody could not be stored.
RefuseLogin(w) ==
    /\ up
    /\ login[w] # NULL
    /\ login[w].ack = "err"
    /\ login' = [login EXCEPT ![w] = NULL]
    /\ UNCHANGED vars
    /\ UNCHANGED <<up, db, reapDue, swept, failed, restarts, before>>

\* run_reaper: after each sweep, a Reap for the rows.
EnqueueReap ==
    /\ up
    /\ reapDue # NULL
    /\ ReapAfter > 0
    /\ queue' = Append(queue, [cmd |-> "reap", dead_before |-> reapDue - ReapAfter])
    /\ reapDue' = NULL
    /\ UNCHANGED <<now, sessions, index, call, pending, sweep, minted, used,
                   held, kills, up, db, login, swept, failed, restarts, before>>

----------------------------------------------------------------------------
StoreInit ==
    /\ Init
    /\ up = TRUE
    /\ db = EmptyDb
    /\ login = [w \in Workers |-> NULL]
    /\ reapDue = NULL
    /\ swept = NULL
    /\ failed = FALSE
    /\ restarts = 0
    /\ before = NULL

\* The writer flushes every 50 ms: no second passes over a queued command.
StoreTick ==
    /\ queue = <<>>
    /\ \A w \in Workers : login[w] = NULL
    /\ reapDue = NULL
    /\ Tick
    /\ UNCHANGED storeVars

Serve(w) ==
    /\ up
    /\ Len(queue) < MaxQueue
    /\ login[w] = NULL
    /\ HandlerNext(w)
    /\ UNCHANGED storeVars

\* POST /logout: whoever holds a cookie the index knows ends its session.
Logout(w, tok) ==
    /\ up
    /\ login[w] = NULL
    /\ tok \in held
    /\ index[tok] # NULL
    /\ Tombstone(w, index[tok])
    /\ UNCHANGED storeVars

\* DELETE /admin/sessions/{sid}: the operator names a session the store lists.
RevokeSession(w, s) ==
    /\ up
    /\ login[w] = NULL
    /\ s \in Rehydratable
    /\ Tombstone(w, s)
    /\ UNCHANGED storeVars

\* ... and when the map did not kill it, the row is tombstoned all the same.
\* Bound: one such command in the queue.
RevokeStored(s) ==
    /\ up
    /\ s \in Rehydratable
    /\ ~ (Live(s) /\ sessions[s].status = "alive")
    /\ \A i \in 1..Len(queue) :
          queue[i] # [cmd |-> "tombstone_session", sid |-> s, at |-> now]
    /\ queue' = Append(queue, [cmd |-> "tombstone_session", sid |-> s, at |-> now])
    /\ UNCHANGED <<now, sessions, index, call, pending, sweep, minted, used,
                   held, kills>>
    /\ UNCHANGED storeVars

\* run_reaper, which exists only if rows are reaped at all, and sleeps between
\* two rounds: never two in one second.
Reaper ==
    /\ up
    /\ ReapAfter > 0
    /\ Len(queue) < MaxQueue
    /\ reapDue = NULL
    /\ sweep = NULL => swept # now
    /\ SweepNext
    /\ swept' = IF sweep = NULL THEN now ELSE swept
    /\ reapDue' = IF sweep' = NULL /\ sweep # NULL THEN sweep.at ELSE NULL
    /\ UNCHANGED <<up, db, login, failed, restarts, before>>

StoreNext ==
    \/ StoreTick
    \/ \E w \in Workers : Serve(w)
    \/ \E w \in Workers, tok \in Tokens : Logout(w, tok)
    \/ \E w \in Workers, s \in Sids : RevokeSession(w, s)
    \/ \E s \in Sids : RevokeStored(s)
    \/ \E w \in Workers, s \in Sids : TakeCustody(w, s)
    \/ \E w \in Workers : FinishLogin(w)
    \/ \E w \in Workers : RefuseLogin(w)
    \/ WriteBatch
    \/ Reaper
    \/ EnqueueReap
    \/ Crash
    \/ Shutdown
    \/ Boot

StoreSpec == StoreInit /\ [][StoreNext]_allVars

----------------------------------------------------------------------------
(***************************************************************************)
(* Properties.                                                             *)
(***************************************************************************)
StoreTypeOK ==
    /\ up \in BOOLEAN
    /\ db \in Db
    /\ login \in [Workers -> Option([sid : Sids, ack : {"waiting", "ok", "err"}])]
    /\ reapDue \in Option(Nat)
    /\ swept \in Option(Nat)
    /\ failed \in BOOLEAN
    /\ restarts \in 0..MaxRestarts
    /\ sessions \in [Sids -> Option(SessionEntry)]
    /\ index \in [Tokens -> Option(Sids)]
    /\ held \in SUBSET Tokens

\* The foreign keys hold in the order the commands arrive, whatever workers
\* enqueue at the same time: nothing but a fault or the reaper fails a batch.
NoBatchFails == ~ failed

\* INV-7 across restarts: once the tombstone is committed, no crash and no
\* order of later writes brings the session back.
TombstoneSurvives ==
    \A s \in Sids : db.session[s] # NULL /\ db.session[s].status = "tombstoned" =>
        ~ (Live(s) /\ sessions[s].status = "alive")

\* What the row of a session must say of its entry once nothing is in flight.
Mirrors(e, s) ==
    /\ db.session[s] # NULL
    /\ db.session[s].absolute_exp = e.absolute_exp
    /\ db.session[s].status = e.status
    /\ e.status = "alive" =>
         /\ db.session[s].current_gen = e.current_gen
         /\ db.session[s].idle_exp = e.idle_exp
         /\ \A g \in e.gens : \E r \in RowsOf(s) :
               /\ r.tok = g.tok
               /\ r.gen_no = g.gen_no
               /\ r.active_until = g.active_until
               /\ r.superseded_at = g.superseded_at

\* Write-behind converges: with the queue drained and no call in flight, the
\* rows say what the map says, unless a crash or a failed batch came before.
WriteBehindConverges ==
    up /\ Quiet /\ ~ failed /\ (before # NULL => before.clean) =>
        \A s \in Sids : Live(s) =>
            CASE SessionExpiry(sessions[s], now) = NULL -> Mirrors(sessions[s], s)
              [] sessions[s].status = "tombstoned" ->
                    \/ db.session[s] = NULL
                    \/ Mirrors(sessions[s], s)
              [] OTHER -> TRUE

\* What token tok meant to the process that stopped, had it been asked now.
ResolvedBefore(tok) ==
    LET s == before.index[tok]
    IN IF s = NULL THEN "unknown"
       ELSE IF before.sessions[s] = NULL THEN "unknown"
       ELSE Classify(before.sessions[s], tok, now)

\* A restart is invisible to the browsers (rehydrate_session): after a clean
\* stop every cookie that gave or could regain access still does, and one that
\* was refused for good is not revived unless the cap alone had evicted it.
RestartKeepsCookies ==
    [][~ up /\ up' /\ before.clean /\ ~ failed =>
          \A tok \in Tokens :
             /\ ResolvedBefore(tok) \in {"active", "stale"} =>
                   Resolve(tok)' = ResolvedBefore(tok)
             /\ ResolvedBefore(tok) \in {"expired", "unknown"} =>
                   Resolve(tok)' \in {"expired", "unknown", "retired"}]_allVars

\* Reaping deletes the rows of no session whose cookies a running or a
\* restarted broker would still accept.
ReapSparesTheLiving ==
    [][\A s \in Sids : db.session[s] # NULL /\ db'.session[s] = NULL =>
          \A tok \in Tokens :
             index[tok] = s => Resolve(tok) \notin {"active", "stale"}]_allVars

\* What SessionEntry::current expects: a session always retains at least its
\* current generation.
SomeGeneration == \A s \in Sids : Live(s) => sessions[s].gens # {}

\* What run_reaper says it drops: only what is provably dead.  A login whose
\* custody was acknowledged keeps it, so its session can be stored.
AcknowledgedCustodyKept ==
    \A w \in Workers :
        login[w] # NULL /\ login[w].ack = "ok" => login[w].sid \in db.custody

=============================================================================
