----------------------------- MODULE SessionMap -----------------------------
(***************************************************************************)
(* The hot-path session store (SessionMap in session.rs): a token index in *)
(* front of per-session entries, used by the request workers and by the    *)
(* sweeper at the same time.                                               *)
(*                                                                         *)
(* A call that changes a session has three parts, each an action here:     *)
(* the handler reads the clock; the entry is changed under its lock; and,  *)
(* after the lock is dropped, the index is fixed up and the same changes   *)
(* are enqueued for the store's writer.  `pending' is what a worker still  *)
(* has to do after its lock section.  The lookup in the index and the lock *)
(* section are one step: a hash purged between the two is unknown to       *)
(* classify as well.                                                       *)
(*                                                                         *)
(* Every login takes a custody of its own (http/auth.rs), so a custody is  *)
(* named here by its session.                                              *)
(***************************************************************************)
EXTENDS Session, Sequences

CONSTANTS
    Sids,       \* session ids a login may draw
    Workers,    \* request handlers running at the same time
    Sweeper,    \* the reaper task of main.rs
    Durable,    \* whether the map was built with_durability
    MaxTokens,  \* bound: session tokens minted
    MaxTime,    \* bound: the last second of the clock
    MaxStall    \* bound: seconds a call or a sweep may take

ASSUME MapAssumption ==
    /\ {MaxTokens, MaxTime, MaxStall} \subseteq Nat
    /\ Durable \in BOOLEAN
    /\ Sweeper \notin Workers
    /\ NULL \notin Sids

VARIABLES
    now,       \* the clock
    sessions,  \* DashMap<Sid, SessionEntry>
    index,     \* DashMap<TokenHash, Sid>
    queue,     \* the channel to the store's writer
    call,      \* refreshes that have read the clock and not yet the entry
    pending,   \* what each worker does after it drops the entry's lock
    sweep,     \* the sweeper's progress through the map
    minted,    \* tokens generated so far
    used,      \* session ids drawn so far
    held,      \* tokens some browser has received
    kills      \* session.killed announcements per session

vars == <<now, sessions, index, queue, call, pending, sweep, minted, used,
          held, kills>>

Actors == Workers \cup {Sweeper}
Tokens == 1..MaxTokens

\* writer.rs: the commands the map enqueues.
Command ==
    [cmd : {"insert_session"}, sid : Sids, current_gen : Nat, idle_exp : Nat,
     absolute_exp : Nat]
    \cup [cmd : {"insert_generation"}, sid : Sids, gen : Generation]
    \cup [cmd : {"supersede_generation"}, tok : Nat, at : Nat]
    \cup [cmd : {"delete_generation"}, tok : Nat]
    \cup [cmd : {"update_session_progress"}, sid : Sids, current_gen : Nat,
          idle_exp : Nat]
    \cup [cmd : {"tombstone_session"}, sid : Sids, at : Nat]

\* IndexEffects, with what else its caller does after the lock: whether the
\* session is new, the progress a refresh records, the tombstone of a kill,
\* the token handed to the browser in the end.  `at' is the time the call read.
Pending ==
    [sid : Sids, at : Nat, created : BOOLEAN, added : Option(Generation),
     superseded : Option(Nat), purged : SUBSET RetiredToken,
     progress : Option([current_gen : Nat, idle_exp : Nat]),
     tombstone : BOOLEAN, token : Option(Tokens)]

ASSUME PendingAssumption ==
    NULL \notin Pending \cup [current_gen : Nat, idle_exp : Nat]

NothingPending(sid, at) ==
    [sid |-> sid, at |-> at, created |-> FALSE, added |-> NULL,
     superseded |-> NULL, purged |-> {}, progress |-> NULL,
     tombstone |-> FALSE, token |-> NULL]

TypeOK ==
    /\ now \in Nat
    /\ sessions \in [Sids -> Option(SessionEntry)]
    /\ index \in [Tokens -> Option(Sids)]
    /\ queue \in Seq(Command)
    /\ call \in [Workers -> Option([tok : Tokens, at : Nat])]
    /\ pending \in [Actors -> Option(Pending)]
    /\ sweep \in Option([at : Nat, visit : SUBSET Sids, doomed : SUBSET Sids])
    /\ minted \in 0..MaxTokens
    /\ used \in SUBSET Sids
    /\ held \in SUBSET Tokens
    /\ kills \in [Sids -> Nat]

Init ==
    /\ now = 0
    /\ sessions = [s \in Sids |-> NULL]
    /\ index = [t \in Tokens |-> NULL]
    /\ queue = <<>>
    /\ call = [w \in Workers |-> NULL]
    /\ pending = [a \in Actors |-> NULL]
    /\ sweep = NULL
    /\ minted = 0
    /\ used = {}
    /\ held = {}
    /\ kills = [s \in Sids |-> 0]

----------------------------------------------------------------------------
Live(s) == sessions[s] # NULL

\* SessionMap::resolve at time t.
ResolveAt(tok, t) ==
    IF index[tok] = NULL THEN "unknown"
    ELSE IF sessions[index[tok]] = NULL THEN "unknown"
    ELSE Classify(sessions[index[tok]], tok, t)

Resolve(tok) == ResolveAt(tok, now)

\* SessionMap::persist
Persist(cmds) == queue' = IF Durable THEN queue \o cmds ELSE queue

Idle(w) == call[w] = NULL /\ pending[w] = NULL

\* Every refresh in flight may mint a token: the bound leaves room for it.
MayMint ==
    minted + Cardinality({w \in Workers : call[w] # NULL}) < MaxTokens

\* The clock.  A call is over within MaxStall seconds of reading the clock.
Tick ==
    /\ now < MaxTime
    /\ \A w \in Workers : call[w] # NULL => now < call[w].at + MaxStall
    /\ \A a \in Actors : pending[a] # NULL => now < pending[a].at + MaxStall
    /\ sweep # NULL => now < sweep.at + MaxStall
    /\ now' = now + 1
    /\ UNCHANGED <<sessions, index, queue, call, pending, sweep, minted, used,
                   held, kills>>

----------------------------------------------------------------------------
\* SessionMap::create, called once per finished login with a sid just drawn.
Create(w, s) ==
    /\ Idle(w)
    /\ s \notin used
    /\ MayMint
    /\ minted < MaxTokens
    /\ LET tok == minted + 1
       IN /\ sessions' = [sessions EXCEPT ![s] = NewEntry(tok, now)]
          /\ index' = [index EXCEPT ![tok] = s]
          /\ pending' = [pending EXCEPT ![w] =
                [NothingPending(s, now) EXCEPT
                    !.created = TRUE,
                    !.added = NewGeneration(1, tok, now, 1),
                    !.token = tok]]
          /\ minted' = tok
    /\ used' = used \cup {s}
    /\ UNCHANGED <<now, queue, call, sweep, held, kills>>

\* Mutant: the generation's row before its session's.
FinishCreate_Reversed(w) ==
    /\ pending[w] # NULL
    /\ pending[w].created
    /\ LET p == pending[w]
           e == NewEntry(p.token, p.at)
       IN Persist(<<[cmd |-> "insert_generation", sid |-> p.sid,
                     gen |-> p.added],
                    [cmd |-> "insert_session", sid |-> p.sid,
                     current_gen |-> e.current_gen, idle_exp |-> e.idle_exp,
                     absolute_exp |-> e.absolute_exp]>>)
    /\ held' = held \cup {pending[w].token}
    /\ pending' = [pending EXCEPT ![w] = NULL]
    /\ UNCHANGED <<now, sessions, index, call, sweep, minted, used, kills>>

\* The end of create: the session's row before its first generation's.
FinishCreate(w) ==
    /\ pending[w] # NULL
    /\ pending[w].created
    /\ LET p == pending[w]
           e == NewEntry(p.token, p.at)
       IN Persist(<<[cmd |-> "insert_session", sid |-> p.sid,
                     current_gen |-> e.current_gen, idle_exp |-> e.idle_exp,
                     absolute_exp |-> e.absolute_exp],
                    [cmd |-> "insert_generation", sid |-> p.sid,
                     gen |-> p.added]>>)
    /\ held' = held \cup {pending[w].token}
    /\ pending' = [pending EXCEPT ![w] = NULL]
    /\ UNCHANGED <<now, sessions, index, call, sweep, minted, used, kills>>

----------------------------------------------------------------------------
\* POST or GET /session/refresh: the handler reads the clock.
BeginRefresh(w, tok) ==
    /\ Idle(w)
    /\ tok \in held
    /\ MayMint
    /\ call' = [call EXCEPT ![w] = [tok |-> tok, at |-> now]]
    /\ UNCHANGED <<now, sessions, index, queue, pending, sweep, minted, used,
                   held, kills>>

\* SessionMap::refresh refuses the token.
RefreshDenied(w) ==
    /\ call[w] # NULL
    /\ ResolveAt(call[w].tok, call[w].at) \notin {"active", "stale"}
    /\ call' = [call EXCEPT ![w] = NULL]
    /\ UNCHANGED <<now, sessions, index, queue, pending, sweep, minted, used,
                   held, kills>>

\* Mutant: the number of the generation just superseded.
Progress_Old(e) == [current_gen |-> e.current_gen - 1, idle_exp |-> e.idle_exp]

\* The progress a refresh persists for entry e.
Progress(e) == [current_gen |-> e.current_gen, idle_exp |-> e.idle_exp]

\* SessionMap::refresh under the lock, joining the generation just minted.
RefreshCoalesced(w) ==
    /\ call[w] # NULL
    /\ ResolveAt(call[w].tok, call[w].at) \in {"active", "stale"}
    /\ LET s == index[call[w].tok]
           at == call[w].at
           e == Slide(sessions[s], at)
       IN /\ Coalesces(sessions[s], at)
          /\ sessions' = [sessions EXCEPT ![s] = e]
          /\ pending' = [pending EXCEPT ![w] =
                [NothingPending(s, at) EXCEPT !.progress = Progress(e),
                                              !.token = e.current_token]]
    /\ call' = [call EXCEPT ![w] = NULL]
    /\ UNCHANGED <<now, index, queue, sweep, minted, used, held, kills>>

\* SessionMap::refresh under the lock, rotating.
RefreshRotated(w) ==
    /\ call[w] # NULL
    /\ ResolveAt(call[w].tok, call[w].at) \in {"active", "stale"}
    /\ minted < MaxTokens
    /\ LET s == index[call[w].tok]
           at == call[w].at
           old == Current(sessions[s])
           tok == minted + 1
           rotated == Rotated(sessions[s], tok, at)
           e == Slide(ReapGenerations(rotated, at), at)
       IN /\ ~ Coalesces(sessions[s], at)
          /\ sessions' = [sessions EXCEPT ![s] = e]
          /\ pending' = [pending EXCEPT ![w] =
                [NothingPending(s, at) EXCEPT
                    !.added = NewGeneration(e.current_gen, tok, at, old.pos + 1),
                    !.superseded = old.tok,
                    !.purged = Purged(rotated, at),
                    !.progress = Progress(e),
                    !.token = tok]]
          /\ minted' = tok
    /\ call' = [call EXCEPT ![w] = NULL]
    /\ UNCHANGED <<now, index, queue, sweep, used, held, kills>>

\* Mutant: the index is forgotten.
Apply_Unindexed(w) ==
    /\ pending[w] # NULL
    /\ ~ pending[w].created
    /\ pending[w].added # NULL
    /\ pending' = [pending EXCEPT ![w].added = NULL, ![w].superseded = NULL]
    /\ UNCHANGED <<now, sessions, index, queue, call, sweep, minted, used, held,
                   kills>>

\* SessionMap::apply: index and queue learn of the minted generation.  The
\* two commands commute with what other workers enqueue, so they go together;
\* a batch of the writer may still end between them.
Apply(w) ==
    /\ pending[w] # NULL
    /\ ~ pending[w].created
    /\ pending[w].added # NULL
    /\ index' = [index EXCEPT ![pending[w].added.tok] = pending[w].sid]
    /\ Persist(<<[cmd |-> "insert_generation", sid |-> pending[w].sid,
                  gen |-> pending[w].added],
                 [cmd |-> "supersede_generation",
                  tok |-> pending[w].superseded, at |-> pending[w].at]>>)
    /\ pending' = [pending EXCEPT ![w].added = NULL, ![w].superseded = NULL]
    /\ UNCHANGED <<now, sessions, call, sweep, minted, used, held, kills>>

\* SessionMap::apply: the tokens a reaping forgot, oldest first.
Purge(a) ==
    /\ pending[a] # NULL
    /\ pending[a].added = NULL
    /\ \E r \in pending[a].purged :
          /\ \A q \in pending[a].purged : q.age <= r.age
          /\ index' = [index EXCEPT ![r.tok] = NULL]
          /\ Persist(<<[cmd |-> "delete_generation", tok |-> r.tok]>>)
          /\ pending' = [pending EXCEPT ![a].purged = @ \ {r}]
    /\ UNCHANGED <<now, sessions, call, sweep, minted, used, held, kills>>

\* The end of refresh: persist the progress, answer with the cookie.
FinishRefresh(w) ==
    /\ pending[w] # NULL
    /\ pending[w].added = NULL
    /\ pending[w].purged = {}
    /\ pending[w].progress # NULL
    /\ Persist(<<[cmd |-> "update_session_progress", sid |-> pending[w].sid,
                  current_gen |-> pending[w].progress.current_gen,
                  idle_exp |-> pending[w].progress.idle_exp]>>)
    /\ held' = held \cup {pending[w].token}
    /\ pending' = [pending EXCEPT ![w] = NULL]
    /\ UNCHANGED <<now, sessions, index, call, sweep, minted, used, kills>>

----------------------------------------------------------------------------
\* Mutant: a dead session is killed again.
Tombstone_Again(w, s) ==
    /\ Idle(w)
    /\ Live(s)
    /\ sessions' = [sessions EXCEPT ![s].status = "tombstoned",
                                    ![s].tombstoned_at = now,
                                    ![s].current_token = NULL]
    /\ pending' = [pending EXCEPT ![w] =
          [NothingPending(s, now) EXCEPT !.tombstone = TRUE]]
    /\ UNCHANGED <<now, index, queue, call, sweep, minted, used, held, kills>>

\* tombstone_session_with_reason under the lock: a logout, an administrator's
\* revocation, or tombstone_by_custody once the upstream grant has died.
\* A session that is not alive is left alone.
Tombstone(w, s) ==
    /\ Idle(w)
    /\ Live(s)
    /\ sessions[s].status = "alive"
    /\ sessions' = [sessions EXCEPT ![s].status = "tombstoned",
                                    ![s].tombstoned_at = now,
                                    ![s].current_token = NULL]
    /\ pending' = [pending EXCEPT ![w] =
          [NothingPending(s, now) EXCEPT !.tombstone = TRUE]]
    /\ UNCHANGED <<now, index, queue, call, sweep, minted, used, held, kills>>

\* ... and after it: persist and announce.
FinishTombstone(w) ==
    /\ pending[w] # NULL
    /\ pending[w].tombstone
    /\ Persist(<<[cmd |-> "tombstone_session", sid |-> pending[w].sid,
                  at |-> pending[w].at]>>)
    /\ kills' = [kills EXCEPT ![pending[w].sid] = @ + 1]
    /\ pending' = [pending EXCEPT ![w] = NULL]
    /\ UNCHANGED <<now, sessions, index, call, sweep, minted, used, held>>

\* SessionMap::set_custody_status.  The keepalive worker reports nothing more
\* about a custody it has declared dead.
SetCustodyStatus(s, status) ==
    /\ Live(s)
    /\ sessions[s].custody_status \notin {"dead", status}
    /\ sessions' = [sessions EXCEPT ![s].custody_status = status]
    /\ UNCHANGED <<now, index, queue, call, pending, sweep, minted, used, held,
                   kills>>

----------------------------------------------------------------------------
\* SessionMap::sweep starts: it will visit every entry.
SweepStart ==
    /\ sweep = NULL
    /\ sweep' = [at |-> now, visit |-> {s \in Sids : Live(s)}, doomed |-> {}]
    /\ UNCHANGED <<now, sessions, index, queue, call, pending, minted, used,
                   held, kills>>

\* One entry under its lock that is past its usable life: marked for removal.
SweepMark(s) ==
    /\ sweep # NULL
    /\ s \in sweep.visit
    /\ pending[Sweeper] = NULL
    /\ Live(s)
    /\ Collectible(sessions[s], sweep.at)
    /\ sweep' = [sweep EXCEPT !.visit = @ \ {s}, !.doomed = @ \cup {s}]
    /\ UNCHANGED <<now, sessions, index, queue, call, pending, minted, used,
                   held, kills>>

\* One entry under its lock that stays: its generations are reaped.
SweepReap(s) ==
    /\ sweep # NULL
    /\ s \in sweep.visit
    /\ pending[Sweeper] = NULL
    /\ Live(s)
    /\ ~ Collectible(sessions[s], sweep.at)
    /\ sweep' = [sweep EXCEPT !.visit = @ \ {s}]
    /\ sessions' = [sessions EXCEPT ![s] = ReapGenerations(@, sweep.at)]
    /\ pending' = [pending EXCEPT ![Sweeper] =
          [NothingPending(s, sweep.at) EXCEPT
             !.purged = Purged(sessions[s], sweep.at)]]
    /\ UNCHANGED <<now, index, queue, call, minted, used, held, kills>>

\* The sweeper has applied the effects of one entry and goes on.
SweepApplied ==
    /\ pending[Sweeper] # NULL
    /\ pending[Sweeper].purged = {}
    /\ pending' = [pending EXCEPT ![Sweeper] = NULL]
    /\ UNCHANGED <<now, sessions, index, queue, call, sweep, minted, used, held,
                   kills>>

\* After the pass, one removal: the entry, then every hash it has a claim on.
SweepRemove(s) ==
    /\ sweep # NULL
    /\ sweep.visit = {}
    /\ pending[Sweeper] = NULL
    /\ s \in sweep.doomed
    /\ Live(s)
    /\ sweep' = [sweep EXCEPT !.doomed = @ \ {s}]
    /\ sessions' = [sessions EXCEPT ![s] = NULL]
    /\ index' = [t \in Tokens |->
          IF t \in AllHashes(sessions[s]) THEN NULL ELSE index[t]]
    /\ UNCHANGED <<now, queue, call, pending, minted, used, held, kills>>

SweepEnd ==
    /\ sweep # NULL
    /\ sweep.visit = {}
    /\ sweep.doomed = {}
    /\ pending[Sweeper] = NULL
    /\ sweep' = NULL
    /\ UNCHANGED <<now, sessions, index, queue, call, pending, minted, used,
                   held, kills>>

----------------------------------------------------------------------------
\* A request handler's steps; who may create and who may kill a session is
\* left to the module that knows it.
HandlerNext(w) ==
    \/ FinishCreate(w)
    \/ \E tok \in Tokens : BeginRefresh(w, tok)
    \/ RefreshDenied(w)
    \/ RefreshCoalesced(w)
    \/ RefreshRotated(w)
    \/ Apply(w)
    \/ Purge(w)
    \/ FinishRefresh(w)
    \/ FinishTombstone(w)

SweepNext ==
    \/ SweepStart
    \/ \E s \in Sids : SweepMark(s)
    \/ \E s \in Sids : SweepReap(s)
    \/ Purge(Sweeper)
    \/ SweepApplied
    \/ \E s \in Sids : SweepRemove(s)
    \/ SweepEnd

Next ==
    \/ Tick
    \/ \E w \in Workers, s \in Sids : Create(w, s)
    \/ \E w \in Workers, s \in Sids : Tombstone(w, s)
    \/ \E w \in Workers : HandlerNext(w)
    \/ \E s \in Sids, status \in CustodyStatus : SetCustodyStatus(s, status)
    \/ SweepNext

Spec == Init /\ [][Next]_vars

\* Tokio runs every handler that can go on, and run_reaper sweeps for ever.
Fairness ==
    /\ WF_vars(Tick)
    /\ \A w \in Workers :
          WF_vars(\/ FinishCreate(w) \/ RefreshDenied(w) \/ RefreshCoalesced(w)
                  \/ RefreshRotated(w) \/ Apply(w) \/ Purge(w)
                  \/ FinishRefresh(w) \/ FinishTombstone(w))
    /\ WF_vars(SweepNext)

LiveSpec == Spec /\ Fairness

----------------------------------------------------------------------------
(***************************************************************************)
(* Properties.                                                             *)
(***************************************************************************)

\* The entry a token's session has in the map.
EntryOf(tok) == sessions[index[tok]]

\* g is the generation no other supersedes, last of the vector.
IsCurrent(e, g) ==
    /\ g \in e.gens
    /\ g.gen_no = e.current_gen
    /\ g.superseded_at = NULL
    /\ \A h \in e.gens \ {g} : /\ h.superseded_at # NULL
                                /\ h.pos < g.pos
                                /\ h.gen_no < g.gen_no
                                /\ h.tok < g.tok

\* Whatever refreshes and sweeps interleave, a session keeps exactly one
\* generation that no other supersedes; it is the last of the vector, it has
\* the current number, and reaping never takes it (the expect in
\* SessionEntry::current).
OneCurrentGeneration ==
    \A s \in Sids : Live(s) => \E g \in sessions[s].gens : IsCurrent(sessions[s], g)

\* Each generation of e was superseded by the creation of a later one, at
\* least Coalesce seconds into its own life.
Spaced(e) ==
    /\ \A g \in e.gens :
          g.superseded_at # NULL => g.superseded_at >= g.created_at + Coalesce
    /\ \A g, h \in e.gens :
          g.pos < h.pos => /\ g.superseded_at # NULL
                           /\ g.superseded_at <= h.created_at

\* Coalescing holds across racing refreshes, even ones that read the clock
\* before the mint they join: two mints of one session are at least Coalesce
\* seconds apart, so N refreshes of one moment mint once.
MintsAreSpaced ==
    Coalesce > 0 => \A s \in Sids : Live(s) => Spaced(sessions[s])

\* INV-6: never more than max_live_gens generations per session.
LiveGenerationsBounded ==
    \A s \in Sids : Live(s) => Cardinality(sessions[s].gens) <= Cap

\* Where the cap is narrower than the grace window, what it takes from a cookie
\* it takes from the oldest: a generation that still authenticated leaves the
\* entry only if every one that stays was minted after it.
CapTakesTheOldest ==
    [][\A s \in Sids : Live(s) /\ Live(s)' =>
          \A g \in sessions[s].gens :
             now < ResourceValidUntil(g) =>
                \/ \E h \in sessions'[s].gens : h.tok = g.tok
                \/ \A h \in sessions'[s].gens : h.tok > g.tok]_vars

\* Every generation of an entry is indexed, save one whose minter has dropped
\* the lock and not yet reached apply.
GenerationsIndexed ==
    \A s \in Sids : Live(s) =>
        \A g \in sessions[s].gens :
            \/ index[g.tok] = s
            \/ \E w \in Workers :
                  pending[w] # NULL /\ pending[w].added # NULL
                  /\ pending[w].added.tok = g.tok

\* Kills of session s announced, or about to be by the worker that made it.
Announced(s) ==
    kills[s] + Cardinality({w \in Workers : /\ pending[w] # NULL
                                            /\ pending[w].sid = s
                                            /\ pending[w].tombstone})

\* INV-7 with the announcement: however many logouts and revocations race for
\* a session, one of them kills it and announces it, and no other.
KilledOnce ==
    \A s \in Sids :
        /\ Announced(s) <= 1
        /\ Live(s) => (Announced(s) = 1 <=> sessions[s].status = "tombstoned")

\* Non-invalidating rotation: no step of a refresh or of the sweeper takes
\* resource access from a token that has it; only time, a kill and a dead
\* upstream grant do.  Holds where the cap is wide enough for the grace
\* window, as with the default policy, and refreshes do not stall for it.
RotationInvalidatesNothing ==
    [][\A tok \in Tokens :
          Resolve(tok) = "active" /\ now' = now =>
              \/ Resolve(tok)' = "active"
              \/ EntryOf(tok)' # NULL /\ EntryOf(tok)'.status = "tombstoned"
              \/ EntryOf(tok)' # NULL /\ EntryOf(tok)'.custody_status = "dead"
      ]_vars

\* A token that was refused for good stays refused: retired, aged out, or of
\* a session logged out, past its absolute end or revoked upstream, it never
\* authenticates again.
RefusalIsFinal ==
    [][\A tok \in Tokens :
          /\ Resolve(tok) \in {"stale", "retired", "expired"}
          /\ Resolve(tok) = "expired" => SessionExpiry(EntryOf(tok), now) # "idle"
          => Resolve(tok)' # "active"]_vars

\* A refresh moves the idle end and never the absolute one, and no order of
\* refreshes carries the idle end past it.
AbsoluteEndFixed ==
    [][\A s \in Sids : Live(s) /\ Live(s)' =>
          /\ sessions'[s].absolute_exp = sessions[s].absolute_exp
          /\ sessions'[s].idle_exp <= sessions'[s].absolute_exp]_vars

\* A tombstoned session is forgotten once its grace has passed.
TombstonedIsForgotten ==
    \A s \in Sids :
        (Live(s) /\ sessions[s].status = "tombstoned"
           /\ sessions[s].tombstoned_at + Grace <= MaxTime)
        ~> ~ Live(s)

=============================================================================
