------------------------------ MODULE Session ------------------------------
(***************************************************************************)
(* The per-session state machine of the broker (session.rs): what a        *)
(* session entry holds, what a presented cookie means at a given time, and *)
(* what minting, reaping and sliding do to the entry.  Every operator is   *)
(* pure; SessionMap runs them under the entry's lock.                      *)
(*                                                                         *)
(* A vector of the code is a set of records that carry their place:        *)
(* `gens' (oldest first in the code) is ordered by the field pos, and the  *)
(* deque `retired' (newest last) by the field age, 0 being the newest.     *)
(* A session token and its SHA-256 hash are one number, drawn in minting   *)
(* order: 256 random bits never repeat.  Times are seconds.                *)
(***************************************************************************)
EXTENDS Optional, Integers, FiniteSets

CONSTANTS
    GenTtl,        \* gen_ttl_secs
    Grace,         \* grace_secs
    Coalesce,      \* coalesce_secs
    IdleTtl,       \* idle_ttl_secs
    AbsoluteTtl,   \* absolute_ttl_secs
    MaxLiveGens,   \* max_live_gens
    RetiredMemory, \* retired_memory
    KillOnRevoke   \* on_upstream_revoked = Kill (TRUE) or Degrade (FALSE)

ASSUME PolicyAssumption ==
    /\ {GenTtl, Grace, Coalesce, IdleTtl, AbsoluteTtl, RetiredMemory,
        MaxLiveGens} \subseteq Nat
    /\ KillOnRevoke \in BOOLEAN

\* ExpiredReason: why a session authenticates nothing any more.
ExpiredReason == {"logged_out", "absolute", "idle", "upstream_revoked"}

SessionStatus == {"alive", "tombstoned"}
CustodyStatus == {"ok", "degraded", "dead"}

Generation ==
    [gen_no : Nat, tok : Nat, created_at : Nat, active_until : Nat,
     superseded_at : Option(Nat), pos : Nat]

RetiredToken == [tok : Nat, gen_no : Nat, age : Nat]

SessionEntry ==
    [gens : SUBSET Generation, current_gen : Nat, current_token : Option(Nat),
     idle_exp : Nat, absolute_exp : Nat, status : SessionStatus,
     tombstoned_at : Option(Nat), custody_status : CustodyStatus,
     retired : SUBSET RetiredToken]

ASSUME NullAssumption ==
    NULL \notin Nat \cup ExpiredReason \cup Generation \cup SessionEntry

----------------------------------------------------------------------------
\* clock.rs: a difference never goes below zero.
Since(now, t) == IF now >= t THEN now - t ELSE 0

Earlier(s, t) == IF s <= t THEN s ELSE t

\* Mutant: a superseded generation ends at once.
ResourceValidUntil_NoGrace(g) ==
    IF g.superseded_at = NULL
    THEN g.active_until
    ELSE Earlier(g.active_until, g.superseded_at)

\* Mutant: the grace window is not capped by the generation's own end.
ResourceValidUntil_Uncapped(g) ==
    IF g.superseded_at = NULL THEN g.active_until ELSE g.superseded_at + Grace

\* Generation::resource_valid_until
ResourceValidUntil(g) ==
    IF g.superseded_at = NULL
    THEN g.active_until
    ELSE Earlier(g.active_until, g.superseded_at + Grace)

\* SessionEntry::current: the last generation of the vector.
Current(e) == CHOOSE g \in e.gens : \A h \in e.gens : h.pos <= g.pos

\* SessionEntry::session_expiry, NULL while the session is usable.
SessionExpiry(e, now) ==
    IF e.status = "tombstoned" THEN "logged_out"
    ELSE IF now >= e.absolute_exp THEN "absolute"
    ELSE IF now >= e.idle_exp THEN "idle"
    ELSE IF e.custody_status = "dead" /\ KillOnRevoke THEN "upstream_revoked"
    ELSE NULL

\* SessionEntry::classify: what presenting token tok means at `now'.
Classify(e, tok, now) ==
    IF SessionExpiry(e, now) # NULL THEN "expired"
    ELSE IF \E g \in e.gens : g.tok = tok THEN
        LET g == CHOOSE x \in e.gens : x.tok = tok IN
        IF now < ResourceValidUntil(g) THEN "active"
        ELSE IF g.gen_no = e.current_gen THEN "stale" ELSE "retired"
    ELSE IF \E r \in e.retired : r.tok = tok THEN "retired" ELSE "unknown"

----------------------------------------------------------------------------
\* The cap of reap_generations: max_live_gens.max(1).
Cap == IF MaxLiveGens > 1 THEN MaxLiveGens ELSE 1

\* Mutant: the current generation is not exempt.
Lapsed_Current(e, now) == {g \in e.gens : now >= ResourceValidUntil(g)}

\* First pass of reap_generations: what can authenticate nothing any more.
Lapsed(e, now) ==
    {g \in e.gens : g.gen_no # e.current_gen /\ now >= ResourceValidUntil(g)}

\* Mutant: one generation too many is left.
OverCap_OffByOne(kept) ==
    {g \in kept : Cardinality({h \in kept : h.pos > g.pos}) > Cap}

\* Mutant: the last but one goes instead.
OverCap_LastButOne(kept) ==
    {g \in kept : /\ Cardinality(kept) > Cap
                  /\ Cardinality({h \in kept : h.pos > g.pos}) = 1}

\* Second pass: the oldest go until Cap generations are left.
OverCap(kept) ==
    {g \in kept : Cardinality({h \in kept : h.pos > g.pos}) >= Cap}

Retiring(e, now) ==
    Lapsed(e, now) \cup OverCap(e.gens \ Lapsed(e, now))

\* How many generations the same reaping retires after g: first the lapsed
\* ones, then the ones over the cap, each oldest first.
RetiredAfter(e, g, now) ==
    IF g \in Lapsed(e, now)
    THEN Cardinality({h \in Lapsed(e, now) : h.pos > g.pos})
         + Cardinality(OverCap(e.gens \ Lapsed(e, now)))
    ELSE Cardinality({h \in OverCap(e.gens \ Lapsed(e, now)) : h.pos > g.pos})

\* Mutant: the retired are pushed at the wrong end of the deque.
RetiredWith_Front(e, now) ==
    {[r EXCEPT !.age = @ - Cardinality(Retiring(e, now))] : r \in e.retired}
    \cup {[tok |-> g.tok, gen_no |-> g.gen_no, age |-> RetiredAfter(e, g, now)] :
             g \in Retiring(e, now)}

\* The deque after retire has pushed every retiring generation, before its
\* front is trimmed to RetiredMemory.
RetiredWith(e, now) ==
    {[r EXCEPT !.age = @ + Cardinality(Retiring(e, now))] : r \in e.retired}
    \cup {[tok |-> g.tok, gen_no |-> g.gen_no, age |-> RetiredAfter(e, g, now)] :
             g \in Retiring(e, now)}

\* SessionEntry::reap_generations with retire: the entry it leaves behind...
ReapGenerations(e, now) ==
    [e EXCEPT !.gens = @ \ Retiring(e, now),
              !.retired = {r \in RetiredWith(e, now) : r.age < RetiredMemory}]

\* ... and the tokens it forgets altogether (IndexEffects.purged).
Purged(e, now) == {r \in RetiredWith(e, now) : r.age >= RetiredMemory}

----------------------------------------------------------------------------
\* The generation a mint or a create pushes.
NewGeneration(no, tok, now, pos) ==
    [gen_no |-> no, tok |-> tok, created_at |-> now,
     active_until |-> now + GenTtl, superseded_at |-> NULL, pos |-> pos]

\* SessionEntry::mint before its reaping: supersede the last generation and
\* push the new one.
Rotated(e, tok, now) ==
    [e EXCEPT
        !.gens = {IF g.pos = Current(e).pos
                  THEN [g EXCEPT !.superseded_at = now] ELSE g : g \in e.gens}
                 \cup {NewGeneration(e.current_gen + 1, tok, now,
                                     Current(e).pos + 1)},
        !.current_gen = @ + 1,
        !.current_token = tok]

\* Mutant: sliding forgets the absolute end.
Slide_PastAbsolute(e, now) == [e EXCEPT !.idle_exp = now + IdleTtl]

\* SessionEntry::slide
Slide(e, now) == [e EXCEPT !.idle_exp = Earlier(now + IdleTtl, e.absolute_exp)]

\* Mutant: the coalescing window is a second short.
Coalesces_OffByOne(e, now) ==
    Since(now, Current(e).created_at) + 1 < Coalesce /\ e.current_token # NULL

\* The choice SessionMap::refresh makes for an entry that may refresh.
Coalesces(e, now) ==
    Since(now, Current(e).created_at) < Coalesce /\ e.current_token # NULL

\* SessionMap::create: the entry a finished login inserts.
NewEntry(tok, now) ==
    [gens |-> {NewGeneration(1, tok, now, 1)}, current_gen |-> 1,
     current_token |-> tok,
     idle_exp |-> Earlier(now + IdleTtl, now + AbsoluteTtl),
     absolute_exp |-> now + AbsoluteTtl, status |-> "alive",
     tombstoned_at |-> NULL, custody_status |-> "ok", retired |-> {}]

\* Mutant: a logged-out session is kept as if it had only gone idle.
Collectible_Idle(e, now) ==
    SessionExpiry(e, now) # NULL /\ Since(now, e.idle_exp) >= Grace

\* The test SessionMap::sweep makes before it forgets a session.
Collectible(e, now) ==
    /\ SessionExpiry(e, now) # NULL
    /\ IF SessionExpiry(e, now) = "logged_out"
       THEN e.tombstoned_at # NULL /\ Since(now, e.tombstoned_at) >= Grace
       ELSE Since(now, e.idle_exp) >= Grace

\* SessionEntry::all_hashes
AllHashes(e) == {g.tok : g \in e.gens} \cup {r.tok : r \in e.retired}

=============================================================================
