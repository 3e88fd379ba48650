--------------------------------- MODULE Audit ---------------------------------
(***************************************************************************)
(* The audit record: the sink every lane records through (audit.rs), the   *)
(* writer that stores its rows (store/writer.rs), retention, and the       *)
(* administrator's page-by-page reading (http/admin.rs, store/repo.rs).    *)
(*                                                                         *)
(* record() is a sequence of atomics, one step each: recorders interleave  *)
(* with each other and with the writer.  Events are counted, not named.    *)
(***************************************************************************)
EXTENDS Optional, Integers, Sequences, FiniteSets, SequencesExt

CONSTANTS
    Threads,     \* recorders
    Tenants,     \* what the administrator creates and disables
    Pairs,       \* (action, who, for what) that is coalesced
    Capacity,    \* queue_capacity
    Window,      \* coalesce_secs; 0 records everything
    SeenMax,     \* EXCHANGE_MAP_MAX
    Retention,   \* retention_days; 0 never prunes
    Limit,       \* rows of a page
    Outcomes,    \* an outcome the reader asks for; NULL is any
    MaxInputs    \* bound: events, requests, sweeps, faults and clock ticks together

ASSUME AuditAssumption ==
    /\ {Window, Retention, MaxInputs} \subseteq Nat
    /\ {Capacity, SeenMax, Limit} \subseteq Nat \ {0}
    /\ IsFiniteSet(Threads)
    /\ NULL \notin Nat

VARIABLES
    clock,
    depth,    \* Inner::depth
    gap,      \* Inner::pending_gap
    seen,     \* Inner::exchange_seen: when a pair was last recorded, or NULL
    pc,       \* what each recorder does next
    channel,    \* the writer's channel
    batch,    \* what the writer took from it
    stage,    \* of the writer: "idle", "taken" or "released"
    store,    \* the committed rows, their next seq, and the tenants
    asked,    \* the administrator's request the writer has yet to answer
    reader,   \* an administrator reading the record
    history   \* what happened so far, for the properties

sink == <<depth, gap, seen, pc>>
writer == <<batch, stage, store>>
auditVars == <<clock, sink, channel, writer, asked, reader, history>>

AtRest == [step |-> "idle", at |-> 0, dropped |-> 0]

\* A row of a command: what it says and, for a gap, how many it stands for.
AuditRow(kind, at, n) ==
    [kind |-> kind, at |-> at, n |-> n, about |-> NULL,
     outcome |-> IF kind = "gap" THEN "failure" ELSE "success"]

AuditInit ==
    /\ clock = 0
    /\ depth = 0 /\ gap = 0
    /\ seen = [p \in Pairs |-> NULL]
    /\ pc = [t \in Threads |-> AtRest]
    /\ channel = << >> /\ batch = << >> /\ stage = "idle"
    /\ store = [rows |-> << >>, next |-> 1, tenants |-> [t \in Tenants |-> "none"],
                answer |-> NULL, pruned |-> 0, forgotten |-> {}]
    /\ asked = NULL /\ reader = NULL
    /\ history = [inputs |-> 0, events |-> 0, lost |-> 0, told |-> {},
                  used |-> [p \in Pairs |-> NULL], recorded |-> [p \in Pairs |-> NULL]]

\* One more input from outside.
Input(h) ==
    /\ history.inputs < MaxInputs
    /\ history' = [h EXCEPT !.inputs = @ + 1]

ClockTick ==
    /\ Input(history)
    /\ clock' = clock + 1
    /\ UNCHANGED <<sink, channel, writer, asked, reader>>

----------------------------------------------------------------------------
(***************************************************************************)
(* Tier B: AuditSink::record.                                              *)
(***************************************************************************)
Begin(t) ==
    /\ pc[t].step = "idle"
    /\ pc' = [pc EXCEPT ![t] = [step |-> "load", at |-> clock, dropped |-> 0]]

\* An event that is always recorded: a refusal, a login, a logout.
Record(t) ==
    /\ Begin(t)
    /\ Input([history EXCEPT !.events = @ + 1])
    /\ UNCHANGED <<clock, depth, gap, seen, channel, writer, asked, reader>>

\* The map after a use: cleared wholesale when it is full.
SeenAfter(p, fresh) ==
    IF ~fresh THEN seen
    ELSE IF Cardinality({q \in Pairs : seen[q] # NULL}) >= SeenMax
    THEN [q \in Pairs |-> IF q = p THEN clock ELSE NULL]
    ELSE [seen EXCEPT ![p] = clock]

\* should_record: once a window for each pair.
ShouldRecord(p) == Window = 0 \/ seen[p] = NULL \/ clock - seen[p] >= Window

\* A token exchanged or issued, recorded or coalesced.
Use(t, p) ==
    LET fresh == ShouldRecord(p)
    IN  /\ IF fresh THEN Begin(t) ELSE pc[t].step = "idle" /\ UNCHANGED pc
        /\ seen' = IF Window = 0 THEN seen ELSE SeenAfter(p, fresh)
        /\ Input([history EXCEPT !.events = IF fresh THEN @ + 1 ELSE @,
                                 !.used[p] = clock,
                                 !.recorded[p] = IF fresh THEN clock ELSE @])
        /\ UNCHANGED <<clock, depth, gap, channel, writer, asked, reader>>

Go(t, step) == pc' = [pc EXCEPT ![t].step = step]

Load(t) ==
    /\ pc[t].step = "load"
    /\ Go(t, IF depth >= Capacity THEN "drop" ELSE "swap")
    /\ UNCHANGED <<clock, depth, gap, seen, channel, writer, asked, reader, history>>

Drop(t) ==
    /\ pc[t].step = "drop"
    /\ gap' = gap + 1
    /\ pc' = [pc EXCEPT ![t] = AtRest]
    /\ UNCHANGED <<clock, depth, seen, channel, writer, asked, reader, history>>

\* Mutant: the drops are read and not taken.
SwapRead(t) ==
    /\ pc[t].step = "swap"
    /\ pc' = [pc EXCEPT ![t].step = IF gap > 0 THEN "gap add" ELSE "row add", ![t].dropped = gap]
    /\ UNCHANGED <<clock, depth, gap, seen, channel, writer, asked, reader, history>>

\* The drops since the last gap row become this recorder's to report.
Swap(t) ==
    /\ pc[t].step = "swap"
    /\ gap' = 0
    /\ pc' = [pc EXCEPT ![t].step = IF gap > 0 THEN "gap add" ELSE "row add", ![t].dropped = gap]
    /\ UNCHANGED <<clock, depth, seen, channel, writer, asked, reader, history>>

\* enqueue: the depth first, then the channel.
Add(t) ==
    /\ pc[t].step \in {"gap add", "row add"}
    /\ depth' = depth + 1
    /\ Go(t, IF pc[t].step = "gap add" THEN "gap send" ELSE "row send")
    /\ UNCHANGED <<clock, gap, seen, channel, writer, asked, reader, history>>

Send(t) ==
    \/ /\ pc[t].step = "gap send"
       /\ channel' = Append(channel, AuditRow("gap", pc[t].at, pc[t].dropped))
       /\ pc' = [pc EXCEPT ![t].step = "row add", ![t].dropped = 0]
       /\ UNCHANGED <<clock, depth, gap, seen, writer, asked, reader, history>>
    \/ /\ pc[t].step = "row send"
       /\ channel' = Append(channel, AuditRow("event", pc[t].at, 1))
       /\ pc' = [pc EXCEPT ![t] = AtRest]
       /\ UNCHANGED <<clock, depth, gap, seen, writer, asked, reader, history>>

Recorder(t) == Load(t) \/ Drop(t) \/ Swap(t) \/ Add(t) \/ Send(t)

----------------------------------------------------------------------------
(***************************************************************************)
(* Tier A: a change and the row that says so travel as one command, and    *)
(* the administrator waits for its answer.                                 *)
(***************************************************************************)
Ask(act, t) ==
    /\ asked = NULL
    /\ asked' = [act |-> act, about |-> t]
    /\ channel' = Append(channel, [AuditRow(act, clock, 0) EXCEPT !.about = t])
    /\ Input(history)
    /\ UNCHANGED <<clock, sink, writer, reader>>

\* run_audit_pruner: the cutoff is computed when the sweep is asked for.
Prune ==
    /\ Retention > 0 /\ clock >= Retention
    /\ Input(history)
    /\ channel' = Append(channel, AuditRow("prune", clock - Retention, 0))
    /\ UNCHANGED <<clock, sink, writer, asked, reader>>

----------------------------------------------------------------------------
(***************************************************************************)
(* The writer.                                                             *)
(***************************************************************************)
IsAudit(cmd) == cmd.kind \in {"event", "gap"}

AuditCount(cmds) == Cardinality({i \in DOMAIN cmds : IsAudit(cmds[i])})

\* Mutant: one command does not make a batch.
DrainSeveral ==
    /\ stage = "idle" /\ Len(channel) > 1
    /\ batch' = channel /\ channel' = << >>
    /\ stage' = "taken"
    /\ UNCHANGED <<clock, sink, store, asked, reader, history>>

Drain ==
    /\ stage = "idle" /\ channel # << >>
    /\ batch' = channel /\ channel' = << >>
    /\ stage' = "taken"
    /\ UNCHANGED <<clock, sink, store, asked, reader, history>>

Released(cmds) == AuditCount(cmds)

\* Up front and unconditionally, before the transaction that may fail.
Release ==
    /\ stage = "taken"
    /\ depth' = depth - Released(batch)
    /\ stage' = "released"
    /\ UNCHANGED <<clock, gap, seen, pc, channel, batch, store, asked, reader, history>>

Stored(db, row) ==
    [db EXCEPT !.rows = Append(@, [seq |-> db.next, row |-> row]), !.next = @ + 1]

\* insert_tenant and disable_tenant: whether there was something to act on.
Applies(db, cmd) == db.tenants[cmd.about] = IF cmd.kind = "create" THEN "none" ELSE "on"

\* Mutant: the row says what was asked, not what was done.
AskedOutcome(done) == "success"

\* unapplied_reason: the row carries the answer the caller gets.
TierAOutcome(done) == IF done THEN "success" ELSE "failure"

\* How many events the rows of a sequence stand for.
Weight(rows) == FoldSeq(LAMBDA r, sum : sum + r.row.n, 0, rows)

\* One command of the batch.  prune_audit removes what is older than the cutoff.
Executed(db, cmd) ==
    IF IsAudit(cmd) THEN Stored(db, cmd)
    ELSE IF cmd.kind = "prune"
    THEN LET kept == SelectSeq(db.rows, LAMBDA r : r.row.at >= cmd.at)
             gone == SelectSeq(db.rows, LAMBDA r : r.row.at < cmd.at)
         IN  [db EXCEPT !.rows = kept, !.pruned = @ + Weight(gone),
                        !.forgotten = @ \cup {gone[i].row.about : i \in DOMAIN gone}]
    ELSE LET done == Applies(db, cmd)
             changed == IF done THEN [db EXCEPT !.tenants[cmd.about] =
                                        IF cmd.kind = "create" THEN "on" ELSE "off"]
                        ELSE db
         IN  Stored([changed EXCEPT !.answer = done], [cmd EXCEPT !.outcome = TierAOutcome(done)])

Commit ==
    /\ stage = "released"
    /\ LET db == FoldLeft(Executed, store, batch)
       IN  /\ store' = [db EXCEPT !.answer = NULL]
           /\ IF db.answer = NULL THEN UNCHANGED <<asked, history>>
              ELSE /\ asked' = NULL
                   /\ history' = [history EXCEPT
                                    !.told = @ \cup {[act |-> asked.act, about |-> asked.about,
                                                      done |-> db.answer]}]
    /\ batch' = << >> /\ stage' = "idle"
    /\ UNCHANGED <<clock, sink, channel, reader>>

\* For the properties: what the rows of a failed batch stood for.
Carried(cmds) == FoldSeq(LAMBDA c, sum : sum + c.n, 0, cmds)

\* A statement or the commit failed: nothing of the batch is stored.
Fail ==
    /\ stage = "released"
    /\ batch' = << >> /\ stage' = "idle"
    /\ asked' = IF \A i \in DOMAIN batch : batch[i].about = NULL THEN asked ELSE NULL
    /\ Input([history EXCEPT !.lost = @ + Carried(batch)])
    /\ UNCHANGED <<clock, sink, channel, store, reader>>

\* What is in memory is lost: the counters, the channel and the recorders.
InHand(t) == pc[t].dropped + (IF pc[t].step = "idle" THEN 0 ELSE 1)

InHands == MapThenFoldSet(LAMBDA a, b : a + b, 0, InHand, LAMBDA S : CHOOSE t \in S : TRUE, Threads)

Kill ==
    /\ depth' = 0 /\ gap' = 0
    /\ seen' = [p \in Pairs |-> NULL]
    /\ pc' = [t \in Threads |-> AtRest]
    /\ channel' = << >> /\ batch' = << >> /\ stage' = "idle"
    /\ asked' = NULL
    /\ Input([history EXCEPT !.lost = @ + gap + Carried(channel) + Carried(batch) + InHands])
    /\ UNCHANGED <<clock, store, reader>>

Writer == Drain \/ Release \/ Commit \/ Fail

----------------------------------------------------------------------------
(***************************************************************************)
(* GET /admin/audit, page by page, while rows are added and pruned.        *)
(***************************************************************************)
Matches(row, outcome) == outcome = NULL \/ row.outcome = outcome

\* list_audit: the newest rows before the cursor.
Page(before, outcome) ==
    LET found == SelectSeq(store.rows, LAMBDA r : /\ Matches(r.row, outcome)
                                                  /\ before # NULL => r.seq < before)
    IN  [i \in 1..(IF Len(found) < Limit THEN Len(found) ELSE Limit) |->
           found[Len(found) + 1 - i]]

\* next_before_seq: the last row of a full page.
Cursor(page) == IF Len(page) >= Limit THEN page[Len(page)].seq ELSE NULL

Seqs(rows) == {rows[i].seq : i \in DOMAIN rows}

OpenRecord(outcome) ==
    /\ reader = NULL
    /\ Input(history)
    /\ reader' = [before |-> NULL, outcome |-> outcome, first |-> TRUE, got |-> << >>,
                  due |-> {r.seq : r \in {store.rows[i] : i \in
                             {j \in DOMAIN store.rows : Matches(store.rows[j].row, outcome)}}}]
    /\ UNCHANGED <<clock, sink, channel, writer, asked>>

ReadPage ==
    /\ reader # NULL /\ (reader.first \/ reader.before # NULL)
    /\ LET page == Page(reader.before, reader.outcome)
       IN  reader' = [reader EXCEPT !.first = FALSE, !.before = Cursor(page),
                        !.got = @ \o [i \in DOMAIN page |-> page[i].seq]]
    /\ UNCHANGED <<clock, sink, channel, writer, asked, history>>

CloseRecord ==
    /\ reader # NULL /\ ~reader.first /\ reader.before = NULL
    /\ reader' = NULL
    /\ UNCHANGED <<clock, sink, channel, writer, asked, history>>

----------------------------------------------------------------------------
AuditNext ==
    \/ ClockTick \/ Prune \/ Writer \/ Kill
    \/ \E t \in Threads :
         \/ Record(t) \/ Recorder(t)
         \/ \E p \in Pairs : Use(t, p)
    \/ \E act \in {"create", "disable"}, t \in Tenants : Ask(act, t)
    \/ \E outcome \in Outcomes : OpenRecord(outcome)
    \/ ReadPage \/ CloseRecord

\* A recorder never blocks, and the writer is a thread of its own.
AuditSpec ==
    /\ AuditInit /\ [][AuditNext]_auditVars
    /\ WF_auditVars(Writer)
    /\ \A t \in Threads : WF_auditVars(Recorder(t))

----------------------------------------------------------------------------
\* The sink, the recorders, the writer and the record have their types; numbers
\* of the record are given once.
AuditTypeOK ==
    /\ clock \in 0..MaxInputs /\ depth \in Int /\ gap \in Nat
    /\ seen \in [Pairs -> Nat \cup {NULL}]
    /\ \A t \in Threads :
         /\ pc[t].step \in {"idle", "load", "drop", "swap", "gap add", "gap send", "row add", "row send"}
         /\ pc[t].dropped > 0 => pc[t].step \in {"gap add", "gap send"}
    /\ stage \in {"idle", "taken", "released"} /\ (stage = "idle") = (batch = << >>)
    /\ \A i \in DOMAIN store.rows : store.rows[i].seq \in 1..(store.next - 1)

Sending == Cardinality({t \in Threads : pc[t].step \in {"gap send", "row send"}})

\* The depth the capacity is compared with is the number of rows on their way,
\* whatever batches failed: "a depth that was incremented on enqueue but never
\* decremented would ratchet the sink towards a permanent 'queue full' state".
DepthIsQueued ==
    depth = AuditCount(channel) + Sending + (IF stage = "taken" THEN AuditCount(batch) ELSE 0)

\* "The bound ... is what stops a stalled writer from becoming unbounded memory
\* growth": recorders that loaded the depth before others added to it pass the
\* capacity by two rows each, a gap and their own, and by no more.
QueueBounded == AuditCount(channel) <= Capacity - 1 + 2 * Cardinality(Threads)

\* A hole in the record says how large it is: every event is a row, or is counted
\* by a gap row or by the gap to come, once; but for what a failed batch or a
\* crash took with it.
EveryEventAccounted ==
    history.events = Weight(store.rows) + store.pruned + Carried(channel) + Carried(batch)
                     + gap + InHands + history.lost

Successes(act, t) ==
    Cardinality({i \in DOMAIN store.rows :
        LET row == store.rows[i].row IN row.kind = act /\ row.about = t /\ row.outcome = "success"})

\* "No reachable state with one and not the other": a tenant is what the record
\* says was done to it, once, and what its administrator was told; whatever
\* batches failed, and for as long as the rows are kept.
RecordAgrees ==
    \A t \in Tenants :
        LET created == IF store.tenants[t] = "none" THEN 0 ELSE 1
            disabled == IF store.tenants[t] = "off" THEN 1 ELSE 0
        IN  /\ Successes("create", t) <= created /\ Successes("disable", t) <= disabled
            /\ t \notin store.forgotten =>
                 Successes("create", t) = created /\ Successes("disable", t) = disabled
            /\ \A a \in history.told : (a.done /\ a.about = t) =>
                 (IF a.act = "create" THEN created ELSE disabled) = 1

\* "The audit fact is that the backend acted this afternoon": a use that was not
\* recorded has one recorded for the same pair less than a window before it.
CoalescedCovered ==
    \A p \in Pairs : history.used[p] # NULL =>
        /\ history.recorded[p] # NULL
        /\ Window > 0 => history.used[p] - history.recorded[p] < Window

\* The sink keeps count while recorders race the writer and batches fail: of the
\* rows on their way, within its bound, of every event it could not queue, and of
\* the uses it left out.
SinkKeepsCount ==
    AuditTypeOK /\ DepthIsQueued /\ QueueBounded /\ EveryEventAccounted /\ CoalescedCovered

\* "An offset would drift under a concurrent write and a seq cursor cannot": once
\* the last page is read, every row there was at the first, and not pruned since,
\* was shown, and none twice.
PagingComplete ==
    reader # NULL =>
        /\ \A i, j \in DOMAIN reader.got : i < j => reader.got[i] > reader.got[j]
        /\ (~reader.first /\ reader.before = NULL) =>
             reader.due \cap Seqs(store.rows) \subseteq Range(reader.got)

\* The record tells an administrator what was done: its rows are what the state
\* shows, and the pages read are all of them, while the writer adds and prunes.
RecordTellsAll == RecordAgrees /\ PagingComplete

\* "The bound exists to survive a stall, not to be armed by one": a full queue
\* always drains below its capacity, failed batches and crashes included.
StallEnds == (depth >= Capacity) ~> (depth < Capacity)
=============================================================================
