-------------------------- MODULE SessionMapProofs --------------------------
(***************************************************************************)
(* Proofs about SessionMap, for every policy and every number of sessions, *)
(* workers and tokens: that entries stay whole, and then where each token  *)
(* is, what the cap and the clock leave of it, and who announces the end   *)
(* of a session.                                                           *)
(***************************************************************************)
EXTENDS SessionMap, FiniteSetTheorems, WellFoundedInduction, TLAPS

\* The last generation of the vector is the current one.
LEMMA CurrentIs ==
    ASSUME NEW e \in SessionEntry, NEW g, IsCurrent(e, g)
    PROVE  Current(e) = g
<1>1. g \in e.gens /\ \A h \in e.gens : h.pos <= g.pos
  BY DEF IsCurrent, SessionEntry, Generation
<1>2. ASSUME NEW x \in e.gens, \A h \in e.gens : h.pos <= x.pos
      PROVE  x = g
  BY <1>2 DEF IsCurrent, SessionEntry, Generation
<1> QED BY <1>1, <1>2 DEF Current

\* Reaping types: what is left is a session entry, what is purged are tokens.
LEMMA ReapType ==
    ASSUME NEW e \in SessionEntry, IsFiniteSet(e.gens), NEW t \in Nat
    PROVE  /\ ReapGenerations(e, t) \in SessionEntry
           /\ Purged(e, t) \subseteq RetiredToken
           /\ IsFiniteSet(ReapGenerations(e, t).gens)
<1> DEFINE L == Lapsed(e, t)
           O == OverCap(e.gens \ L)
<1>1. L \subseteq e.gens /\ O \subseteq e.gens /\ Retiring(e, t) = L \cup O
  BY DEF Lapsed, OverCap, Retiring
<1>2. ASSUME NEW S \in SUBSET e.gens PROVE Cardinality(S) \in Nat /\ IsFiniteSet(S)
  BY FS_Subset, FS_CardinalityType
<1>3. Cardinality(Retiring(e, t)) \in Nat
  BY <1>1, <1>2
<1>4. ASSUME NEW g \in Retiring(e, t) PROVE RetiredAfter(e, g, t) \in Nat
  <2>1. Cardinality(O) \in Nat /\ Cardinality({h \in L : h.pos > g.pos}) \in Nat
        /\ Cardinality({h \in O : h.pos > g.pos}) \in Nat
    BY <1>1, <1>2
  <2> QED BY <2>1 DEF RetiredAfter
<1>5. RetiredWith(e, t) \subseteq RetiredToken
  <2>1. ASSUME NEW r \in e.retired
        PROVE  [r EXCEPT !.age = @ + Cardinality(Retiring(e, t))] \in RetiredToken
    BY <1>3 DEF SessionEntry, RetiredToken
  <2>2. ASSUME NEW g \in Retiring(e, t)
        PROVE  [tok |-> g.tok, gen_no |-> g.gen_no,
                age |-> RetiredAfter(e, g, t)] \in RetiredToken
    BY <1>1, <1>4 DEF SessionEntry, RetiredToken, Generation
  <2> QED BY <2>1, <2>2 DEF RetiredWith
<1>6. e.gens \ Retiring(e, t) \in SUBSET Generation
  BY DEF SessionEntry
<1>7. ReapGenerations(e, t) \in SessionEntry
  BY <1>5, <1>6 DEF ReapGenerations, SessionEntry
<1>8. ReapGenerations(e, t).gens = e.gens \ Retiring(e, t)
  BY DEF ReapGenerations, SessionEntry
<1> QED BY <1>2, <1>5, <1>7, <1>8 DEF Purged

----------------------------------------------------------------------------
(***************************************************************************)
(* The invariant of one entry, n tokens having been minted.                *)
(***************************************************************************)
EntryOK(e, n) ==
    /\ IsFiniteSet(e.gens)
    /\ \E g \in e.gens : IsCurrent(e, g)
    /\ \A g \in e.gens : g.tok \in 1..n
    /\ e.current_token # NULL => e.current_token \in 1..n
    /\ e.status = "alive" => e.current_token # NULL
    /\ Coalesce > 0 => Spaced(e)

\* SessionMap::create makes a sound entry.
LEMMA NewEntryOK ==
    ASSUME NEW n \in Nat, NEW t \in Nat
    PROVE  /\ NewGeneration(1, n + 1, t, 1) \in Generation
           /\ NewEntry(n + 1, t) \in SessionEntry
           /\ EntryOK(NewEntry(n + 1, t), n + 1)
<1> DEFINE g == NewGeneration(1, n + 1, t, 1)
           e == NewEntry(n + 1, t)
<1>1. g \in Generation /\ g.tok = n + 1 /\ g.gen_no = 1 /\ g.superseded_at = NULL
  BY PolicyAssumption DEF NewGeneration, Generation, Option
<1>2. e \in SessionEntry
  BY <1>1, PolicyAssumption
  DEF NewEntry, SessionEntry, Option, Earlier, SessionStatus, CustodyStatus
<1>3. /\ e.gens = {g}
      /\ e.current_gen = 1
      /\ e.current_token = n + 1
  BY DEF NewEntry
<1>4. IsFiniteSet(e.gens)
  BY <1>3, FS_Singleton
<1>5. IsCurrent(e, g)
  BY <1>1, <1>3 DEF IsCurrent
<1>6. Spaced(e)
  BY <1>1, <1>3 DEF Spaced, Generation
<1>7. \A x \in e.gens : x.tok \in 1..(n + 1)
  BY <1>1, <1>3
<1>8. n + 1 # NULL
  BY NullAssumption
<1> HIDE DEF g, e
<1> QED BY <1>1, <1>2, <1>3, <1>4, <1>5, <1>6, <1>7, <1>8 DEF EntryOK, g, e

\* Sliding the idle end leaves the generations alone.
LEMMA SlideOK ==
    ASSUME NEW e \in SessionEntry, NEW t \in Nat, NEW n, EntryOK(e, n)
    PROVE  Slide(e, t) \in SessionEntry /\ EntryOK(Slide(e, t), n)
<1> DEFINE f == Slide(e, t)
<1>1. f \in SessionEntry
  BY PolicyAssumption DEF Slide, SessionEntry, Earlier
<1>2. /\ f.gens = e.gens /\ f.current_gen = e.current_gen
      /\ f.current_token = e.current_token /\ f.status = e.status
  BY DEF Slide, SessionEntry
<1> HIDE DEF f
<1>3. \A g : IsCurrent(e, g) => IsCurrent(f, g)
  BY <1>2 DEF IsCurrent
<1>4. Spaced(e) => Spaced(f)
  BY <1>2 DEF Spaced
<1>5. EntryOK(f, n)
  BY <1>2, <1>3, <1>4 DEF EntryOK
<1> QED BY <1>1, <1>5 DEF f

\* Reaping never takes the current generation.
LEMMA ReapKeepsCurrent ==
    ASSUME NEW e \in SessionEntry, NEW t \in Nat, NEW g, IsCurrent(e, g)
    PROVE  g \in ReapGenerations(e, t).gens
<1>1. g \notin Lapsed(e, t)
  BY DEF Lapsed, IsCurrent
<1>2. {h \in e.gens \ Lapsed(e, t) : h.pos > g.pos} = {}
  BY DEF IsCurrent, SessionEntry, Generation
<1>3. Cap \in Nat /\ Cap >= 1
  BY PolicyAssumption DEF Cap
<1>4. g \notin OverCap(e.gens \ Lapsed(e, t))
  BY <1>2, <1>3, FS_EmptySet DEF OverCap
<1>5. ReapGenerations(e, t).gens = e.gens \ Retiring(e, t)
  BY DEF ReapGenerations, SessionEntry
<1> QED BY <1>1, <1>4, <1>5 DEF Retiring, IsCurrent

LEMMA ReapOK ==
    ASSUME NEW e \in SessionEntry, NEW t \in Nat, NEW n, EntryOK(e, n)
    PROVE  /\ ReapGenerations(e, t) \in SessionEntry
           /\ Purged(e, t) \subseteq RetiredToken
           /\ EntryOK(ReapGenerations(e, t), n)
<1> DEFINE f == ReapGenerations(e, t)
<1>1. IsFiniteSet(e.gens)
  BY DEF EntryOK
<1>2. f \in SessionEntry /\ Purged(e, t) \subseteq RetiredToken /\ IsFiniteSet(f.gens)
  BY <1>1, ReapType
<1>3. /\ f.gens \subseteq e.gens /\ f.current_gen = e.current_gen
      /\ f.current_token = e.current_token /\ f.status = e.status
  BY DEF ReapGenerations, SessionEntry
<1>4. PICK g \in e.gens : IsCurrent(e, g)
  BY DEF EntryOK
<1>5. g \in f.gens
  BY <1>4, ReapKeepsCurrent
<1> HIDE DEF f
<1>6. IsCurrent(f, g)
  BY <1>3, <1>4, <1>5 DEF IsCurrent
<1>7. Spaced(e) => Spaced(f)
  BY <1>3 DEF Spaced
<1>8. EntryOK(f, n)
  BY <1>2, <1>3, <1>5, <1>6, <1>7 DEF EntryOK
<1> QED BY <1>2, <1>8 DEF f

\* Rotating supersedes the current generation and puts a new one on top.
LEMMA RotatedOK ==
    ASSUME NEW e \in SessionEntry, NEW t \in Nat, NEW n \in Nat, EntryOK(e, n),
           e.status = "alive", ~ Coalesces(e, t)
    PROVE  /\ Current(e) \in Generation
           /\ NewGeneration(e.current_gen + 1, n + 1, t, Current(e).pos + 1)
                 \in Generation
           /\ Rotated(e, n + 1, t) \in SessionEntry
           /\ EntryOK(Rotated(e, n + 1, t), n + 1)
<1> DEFINE f == Rotated(e, n + 1, t)
<1>1. PICK c \in e.gens : IsCurrent(e, c)
  BY DEF EntryOK
<1>2. Current(e) = c /\ c \in Generation
  BY <1>1, CurrentIs DEF SessionEntry
<1> DEFINE g == NewGeneration(e.current_gen + 1, n + 1, t, c.pos + 1)
           old == [c EXCEPT !.superseded_at = t]
<1>3. /\ g \in Generation /\ g.tok = n + 1 /\ g.gen_no = e.current_gen + 1
      /\ g.pos = c.pos + 1 /\ g.superseded_at = NULL /\ g.created_at = t
  BY <1>2, PolicyAssumption DEF NewGeneration, Generation, Option, SessionEntry
<1>4. /\ old \in Generation /\ old.tok = c.tok /\ old.gen_no = c.gen_no
      /\ old.pos = c.pos /\ old.superseded_at = t /\ old.created_at = c.created_at
  BY <1>2 DEF Generation, Option
<1>5. \A h \in e.gens : h.pos = c.pos <=> h = c
  BY <1>1 DEF IsCurrent, SessionEntry, Generation
<1>6. {IF h.pos = c.pos THEN [h EXCEPT !.superseded_at = t] ELSE h : h \in e.gens}
        = (e.gens \ {c}) \cup {old}
  BY <1>5
<1>7. /\ f.gens = (e.gens \ {c}) \cup {old, g}
      /\ f.current_gen = e.current_gen + 1
      /\ f.current_token = n + 1
      /\ f.status = e.status
  BY <1>2, <1>6 DEF Rotated, SessionEntry
<1>8. f \in SessionEntry
  <2>1. (e.gens \ {c}) \cup {old, g} \in SUBSET Generation
    BY <1>3, <1>4 DEF SessionEntry
  <2>2. {IF h.pos = c.pos THEN [h EXCEPT !.superseded_at = t] ELSE h : h \in e.gens}
          \cup {g} \in SUBSET Generation
    BY <1>6, <2>1
  <2> DEFINE S == {IF h.pos = c.pos THEN [h EXCEPT !.superseded_at = t] ELSE h :
                     h \in e.gens} \cup {g}
  <2>3. f = [e EXCEPT !.gens = S, !.current_gen = @ + 1, !.current_token = n + 1]
    BY <1>2 DEF Rotated
  <2> HIDE DEF f, g, old, S
  <2>4. S \in SUBSET Generation
    BY <2>2 DEF S
  <2>5. e.current_gen + 1 \in Nat /\ n + 1 \in Option(Nat)
    BY DEF SessionEntry, Option
  <2> QED BY <2>3, <2>4, <2>5 DEF SessionEntry
<1>9. IsFiniteSet(f.gens)
  <2>1. IsFiniteSet(e.gens \ {c})
    BY FS_Subset DEF EntryOK
  <2>2. IsFiniteSet((e.gens \ {c}) \cup {old})
    BY <2>1, FS_AddElement
  <2>3. IsFiniteSet(((e.gens \ {c}) \cup {old}) \cup {g})
    BY <2>2, FS_AddElement
  <2>4. f.gens = ((e.gens \ {c}) \cup {old}) \cup {g}
    BY <1>7
  <2> QED BY <2>3, <2>4
<1> HIDE DEF f, g, old
<1>10. \A h \in e.gens : h \in Generation /\ h.tok \in 1..n
  BY DEF EntryOK, SessionEntry
<1>11. \A h \in f.gens \ {g} : h = old \/ (h \in e.gens \ {c})
  BY <1>7
<1>12. \A h \in e.gens \ {c} :
          /\ h.superseded_at # NULL /\ h.pos < c.pos /\ h.gen_no < c.gen_no
          /\ h.tok < c.tok
  BY <1>1 DEF IsCurrent
<1>13. IsCurrent(f, g)
  <2>1. t # NULL
    BY NullAssumption
  <2>2. c.gen_no = e.current_gen
    BY <1>1 DEF IsCurrent
  <2>3. \A h \in f.gens \ {g} : /\ h.superseded_at # NULL /\ h.pos < g.pos
                                /\ h.gen_no < g.gen_no /\ h.tok < g.tok
    BY <1>1, <1>2, <1>3, <1>4, <1>10, <1>11, <1>12, <2>1, <2>2 DEF Generation
  <2> QED BY <1>3, <1>7, <2>3 DEF IsCurrent
<1>14. \A h \in f.gens : h.tok \in 1..(n + 1)
  BY <1>1, <1>3, <1>4, <1>7, <1>10
<1>15. ASSUME Coalesce > 0 PROVE Spaced(f)
  <2>1. Spaced(e)
    BY <1>15 DEF EntryOK
  <2>2. e.current_token # NULL
    BY DEF EntryOK
  <2>3. Since(t, c.created_at) >= Coalesce
    BY <1>2, <2>2, PolicyAssumption DEF Coalesces, Since, Generation
  <2>4. t >= c.created_at + Coalesce
    BY <1>2, <1>15, <2>3, PolicyAssumption DEF Since, Generation
  <2>5. t # NULL
    BY NullAssumption
  <2>6. \A h \in f.gens : h.superseded_at # NULL =>
                            h.superseded_at >= h.created_at + Coalesce
    BY <1>3, <1>4, <1>7, <2>1, <2>4 DEF Spaced
  <2>7. \A h \in e.gens \ {c} :
           h.superseded_at # NULL /\ h.superseded_at <= c.created_at
    BY <1>1, <1>12, <2>1 DEF Spaced
  <2>8. \A h \in e.gens \ {c} : h.superseded_at \in Nat /\ h.superseded_at <= t
    BY <1>2, <1>10, <2>4, <2>7, PolicyAssumption DEF Generation, Option
  <2>9. \A h \in f.gens \ {g} : h.superseded_at # NULL /\ h.superseded_at <= t
    BY <1>4, <1>11, <2>5, <2>7, <2>8
  <2>10. \A h \in f.gens \ {g} : h.pos < g.pos
    BY <1>13 DEF IsCurrent
  <2>11. ASSUME NEW x \in f.gens, NEW y \in f.gens, x.pos < y.pos
         PROVE  x.superseded_at # NULL /\ x.superseded_at <= y.created_at
    <3>1. x # g
      <4>1. y = g \/ y.pos < g.pos
        BY <2>10
      <4>2. y.pos \in Nat /\ g.pos \in Nat
        BY <1>3, <1>8 DEF SessionEntry, Generation
      <4> QED BY <2>11, <4>1, <4>2
    <3>2. CASE y = g
      BY <1>3, <2>9, <3>1, <3>2
    <3>3. CASE y = old
      <4>1. x \in e.gens \ {c}
        BY <1>4, <1>11, <2>11, <3>1, <3>3, <1>2 DEF Generation
      <4> QED BY <1>4, <2>7, <3>3, <4>1
    <3>4. CASE y \in e.gens \ {c}
      <4>1. x # old
        BY <1>2, <1>4, <1>10, <1>12, <2>11, <3>4 DEF Generation
      <4>2. x \in e.gens
        BY <1>11, <3>1, <4>1
      <4> QED BY <2>1, <2>11, <3>4, <4>2 DEF Spaced
    <3> QED BY <1>11, <3>2, <3>3, <3>4
  <2> QED BY <2>6, <2>11 DEF Spaced
<1>16. f.current_token \in 1..(n + 1) /\ f.current_token # NULL
  BY <1>7, NullAssumption
<1>17. EntryOK(f, n + 1)
  BY <1>3, <1>7, <1>9, <1>13, <1>14, <1>15, <1>16 DEF EntryOK
<1> QED BY <1>2, <1>3, <1>8, <1>17 DEF f, g

\* A token that may refresh belongs to a session that is alive.
LEMMA RefreshableAlive ==
    ASSUME NEW e \in SessionEntry, NEW tok, NEW t,
           Classify(e, tok, t) \in {"active", "stale"}
    PROVE  e.status = "alive"
<1>1. SessionExpiry(e, t) = NULL
  BY DEF Classify
<1>2. NULL # "logged_out"
  BY NullAssumption DEF ExpiredReason
<1>3. e.status # "tombstoned"
  BY <1>1, <1>2 DEF SessionExpiry
<1> QED BY <1>3 DEF SessionEntry, SessionStatus

----------------------------------------------------------------------------
(***************************************************************************)
(* The inductive invariant: every entry of the map is sound, and a worker  *)
(* that has dropped the lock carries what its last steps need.             *)
(***************************************************************************)
EntriesOK == \A s \in Sids : Live(s) => EntryOK(sessions[s], minted)

PendingOK ==
    \A a \in Actors : pending[a] # NULL =>
        /\ pending[a].created => /\ pending[a].added \in Generation
                                 /\ pending[a].token # NULL
        /\ ~ pending[a].created /\ pending[a].added # NULL
             => pending[a].superseded # NULL
        /\ pending[a].progress # NULL => pending[a].token # NULL

IInv == TypeOK /\ EntriesOK /\ PendingOK

\* What persist enqueues keeps the channel well typed.
LEMMA PersistType ==
    ASSUME queue \in Seq(Command), NEW cmds \in Seq(Command), Persist(cmds)
    PROVE  queue' \in Seq(Command)
BY DEF Persist

\* More tokens minted for other sessions do not disturb an entry.
LEMMA EntryMono ==
    ASSUME NEW e, NEW n \in Nat, NEW m \in Nat, n <= m, EntryOK(e, n)
    PROVE  EntryOK(e, m)
BY DEF EntryOK

\* A call in flight whose token may refresh names a live session of the map.
LEMMA RefreshEntry ==
    ASSUME IInv, NEW w \in Workers, call[w] # NULL,
           ResolveAt(call[w].tok, call[w].at) \in {"active", "stale"}
    PROVE  /\ index[call[w].tok] \in Sids
           /\ call[w].at \in Nat
           /\ Live(index[call[w].tok])
           /\ sessions[index[call[w].tok]] \in SessionEntry
           /\ sessions[index[call[w].tok]].status = "alive"
           /\ EntryOK(sessions[index[call[w].tok]], minted)
<1>1. call[w] \in [tok : Tokens, at : Nat]
  BY DEF IInv, TypeOK, Option
<1>2. index[call[w].tok] # NULL /\ sessions[index[call[w].tok]] # NULL
  BY DEF ResolveAt
<1>3. index[call[w].tok] \in Sids
  BY <1>1, <1>2 DEF IInv, TypeOK, Option
<1>4. sessions[index[call[w].tok]] \in SessionEntry
  BY <1>2, <1>3 DEF IInv, TypeOK, Option
<1>5. Classify(sessions[index[call[w].tok]], call[w].tok, call[w].at)
        \in {"active", "stale"}
  BY <1>2 DEF ResolveAt
<1>6. sessions[index[call[w].tok]].status = "alive"
  BY <1>4, <1>5, RefreshableAlive
<1> QED BY <1>1, <1>2, <1>3, <1>4, <1>6 DEF IInv, EntriesOK, Live

\* The map starts empty.
LEMMA InitIInv == Init => IInv
<1> SUFFICES ASSUME Init PROVE IInv
  OBVIOUS
<1>1. TypeOK
  BY MapAssumption DEF Init, TypeOK, Option
<1>2. EntriesOK
  BY DEF Init, EntriesOK, Live
<1>3. PendingOK
  BY DEF Init, PendingOK
<1> QED BY <1>1, <1>2, <1>3 DEF IInv

\* Replacing one entry by a sound one, and minting, keeps the entries sound.
LEMMA EntriesStep ==
    ASSUME TypeOK, EntriesOK, NEW s \in Sids, NEW e,
           minted' \in Nat, minted <= minted', EntryOK(e, minted'),
           sessions' = [sessions EXCEPT ![s] = e]
    PROVE  EntriesOK'
<1>1. \A x \in Sids : x # s => sessions'[x] = sessions[x]
  BY DEF TypeOK
<1>2. sessions'[s] = e
  BY DEF TypeOK
<1>3. minted \in Nat
  BY DEF TypeOK
<1>4. ASSUME NEW x \in Sids, Live(x)' PROVE EntryOK(sessions'[x], minted')
  <2>1. CASE x = s
    BY <1>2, <2>1
  <2>2. CASE x # s
    BY <1>1, <1>3, <1>4, <2>2, EntryMono DEF EntriesOK, Live
  <2> QED BY <2>1, <2>2
<1> QED BY <1>4 DEF EntriesOK, EntryOK, IsCurrent, Spaced

----------------------------------------------------------------------------
\* Create preserves the invariant.
LEMMA CreateStep ==
    ASSUME IInv, NEW w \in Workers, NEW s \in Sids, Create(w, s)
    PROVE  IInv'
<1> DEFINE tok == minted + 1
           e == NewEntry(tok, now)
           g == NewGeneration(1, tok, now, 1)
           p == [NothingPending(s, now) EXCEPT
                    !.created = TRUE,
                    !.added = g,
                    !.token = tok]
<1>1. minted \in Nat /\ now \in Nat /\ tok \in Tokens /\ minted < MaxTokens
      /\ tok \in 0..MaxTokens
  BY MapAssumption DEF IInv, TypeOK, Create, Tokens
<1>2. g \in Generation /\ e \in SessionEntry /\ EntryOK(e, tok)
  BY <1>1, NewEntryOK
<1>3. p \in Pending /\ p.created /\ p.added = g /\ p.token = tok
  BY <1>1, <1>2 DEF NothingPending, Pending, Option
<1>4. /\ sessions' = [sessions EXCEPT ![s] = e]
      /\ index' = [index EXCEPT ![tok] = s]
      /\ pending' = [pending EXCEPT ![w] = p]
      /\ minted' = tok
      /\ used' = used \cup {s}
      /\ UNCHANGED <<now, queue, call, sweep, held, kills>>
  BY DEF Create
<1> HIDE DEF tok, e, g, p
<1>5. TypeOK'
  BY <1>1, <1>2, <1>3, <1>4 DEF IInv, TypeOK, Option
<1>6. EntriesOK'
  <2>1. minted' \in Nat /\ minted <= minted'
    BY <1>1, <1>4 DEF tok
  <2> QED BY <1>2, <1>4, <2>1, EntriesStep DEF IInv
<1>7. PendingOK'
  <2>1. tok # NULL
    BY <1>1, NullAssumption DEF tok
  <2> QED BY <1>2, <1>3, <1>4, <2>1 DEF IInv, PendingOK, TypeOK
<1> QED BY <1>5, <1>6, <1>7 DEF IInv

\* FinishCreate preserves the invariant.
LEMMA FinishCreateStep ==
    ASSUME IInv, NEW w \in Workers, FinishCreate(w)
    PROVE  IInv'
<1> DEFINE p == pending[w]
           e == NewEntry(p.token, p.at)
<1>1. p \in Pending /\ p.created
  BY DEF IInv, TypeOK, FinishCreate, Option, Actors
<1>2. p.added \in Generation /\ p.token \in Tokens /\ p.sid \in Sids /\ p.at \in Nat
  BY <1>1 DEF IInv, PendingOK, FinishCreate, Actors, Pending, Option
<1>3. e.current_gen \in Nat /\ e.idle_exp \in Nat /\ e.absolute_exp \in Nat
  BY <1>2, PolicyAssumption DEF NewEntry, Earlier
<1>4. <<[cmd |-> "insert_session", sid |-> p.sid, current_gen |-> e.current_gen,
         idle_exp |-> e.idle_exp, absolute_exp |-> e.absolute_exp],
        [cmd |-> "insert_generation", sid |-> p.sid, gen |-> p.added]>>
        \in Seq(Command)
  <2> HIDE DEF p, e
  <2> QED BY <1>2, <1>3 DEF Command
<1>5. queue' \in Seq(Command)
  BY <1>4, PersistType DEF IInv, TypeOK, FinishCreate
<1>6. TypeOK'
  BY <1>2, <1>5 DEF IInv, TypeOK, FinishCreate, Option
<1>7. EntriesOK'
  BY DEF IInv, EntriesOK, FinishCreate, Live
<1>8. PendingOK'
  BY DEF IInv, TypeOK, PendingOK, FinishCreate
<1> QED BY <1>6, <1>7, <1>8 DEF IInv

\* RefreshCoalesced preserves the invariant.
LEMMA RefreshCoalescedStep ==
    ASSUME IInv, NEW w \in Workers, RefreshCoalesced(w)
    PROVE  IInv'
<1> DEFINE s == index[call[w].tok]
           at == call[w].at
           e == Slide(sessions[s], at)
           p == [NothingPending(s, at) EXCEPT !.progress = Progress(e),
                                              !.token = e.current_token]
<1>1. /\ s \in Sids /\ at \in Nat /\ sessions[s] \in SessionEntry
      /\ EntryOK(sessions[s], minted)
  BY RefreshEntry DEF RefreshCoalesced
<1>2. e \in SessionEntry /\ EntryOK(e, minted)
  BY <1>1, SlideOK
<1>3. e.current_token = sessions[s].current_token /\ sessions[s].current_token # NULL
  BY <1>1 DEF RefreshCoalesced, Coalesces, Slide, SessionEntry
<1>4. e.current_token \in Tokens
  <2>1. e.current_token \in 1..minted
    BY <1>2, <1>3 DEF EntryOK
  <2>2. minted \in 0..MaxTokens
    BY DEF IInv, TypeOK
  <2> QED BY ONLY <2>1, <2>2, MapAssumption DEF Tokens
<1>5. Progress(e) \in [current_gen : Nat, idle_exp : Nat]
  BY <1>2 DEF Progress, SessionEntry
<1>6. /\ sessions' = [sessions EXCEPT ![s] = e]
      /\ pending' = [pending EXCEPT ![w] = p]
      /\ call' = [call EXCEPT ![w] = NULL]
      /\ UNCHANGED <<now, index, queue, sweep, minted, used, held, kills>>
  BY DEF RefreshCoalesced
<1> HIDE DEF s, at, e
<1>7. p \in Pending /\ ~ p.created /\ p.added = NULL /\ p.token # NULL
  BY <1>1, <1>3, <1>4, <1>5 DEF NothingPending, Pending, Option
<1> HIDE DEF p
<1>8. TypeOK'
  <2>1. sessions' \in [Sids -> Option(SessionEntry)]
    BY <1>1, <1>2, <1>6 DEF IInv, TypeOK, Option
  <2>2. pending' \in [Actors -> Option(Pending)]
    BY <1>6, <1>7 DEF IInv, TypeOK, Option
  <2>3. call' \in [Workers -> Option([tok : Tokens, at : Nat])]
    BY <1>6 DEF IInv, TypeOK, Option
  <2> QED BY <1>6, <2>1, <2>2, <2>3 DEF IInv, TypeOK
<1>9. EntriesOK'
  <2>1. minted' \in Nat /\ minted <= minted' /\ EntryOK(e, minted')
    BY <1>2, <1>6 DEF IInv, TypeOK
  <2> QED BY <1>1, <1>6, <2>1, EntriesStep DEF IInv
<1>10. PendingOK'
  BY <1>6, <1>7 DEF IInv, PendingOK, TypeOK
<1> QED BY <1>8, <1>9, <1>10 DEF IInv

\* RefreshRotated preserves the invariant.
LEMMA RefreshRotatedStep ==
    ASSUME IInv, NEW w \in Workers, RefreshRotated(w)
    PROVE  IInv'
<1> DEFINE s == index[call[w].tok]
           at == call[w].at
           old == Current(sessions[s])
           tok == minted + 1
           rotated == Rotated(sessions[s], tok, at)
           reaped == ReapGenerations(rotated, at)
           e == Slide(reaped, at)
           g == NewGeneration(e.current_gen, tok, at, old.pos + 1)
           p == [NothingPending(s, at) EXCEPT
                    !.added = g, !.superseded = old.tok,
                    !.purged = Purged(rotated, at),
                    !.progress = Progress(e), !.token = tok]
<1>1. /\ s \in Sids /\ at \in Nat /\ sessions[s] \in SessionEntry
      /\ sessions[s].status = "alive" /\ EntryOK(sessions[s], minted)
  BY RefreshEntry DEF RefreshRotated
<1>2. minted \in Nat /\ tok \in Tokens /\ tok \in Nat /\ tok \in 0..MaxTokens
  BY MapAssumption DEF IInv, TypeOK, RefreshRotated, Tokens
<1>3. ~ Coalesces(sessions[s], at)
  BY DEF RefreshRotated
<1>4. /\ old \in Generation
      /\ NewGeneration(sessions[s].current_gen + 1, tok, at, old.pos + 1) \in Generation
      /\ rotated \in SessionEntry
      /\ EntryOK(rotated, tok)
  BY <1>1, <1>2, <1>3, RotatedOK
<1>5. rotated.current_gen = sessions[s].current_gen + 1
  BY <1>1 DEF Rotated, SessionEntry
<1>6. /\ sessions' = [sessions EXCEPT ![s] = e]
      /\ pending' = [pending EXCEPT ![w] = p]
      /\ minted' = tok
      /\ call' = [call EXCEPT ![w] = NULL]
      /\ UNCHANGED <<now, index, queue, sweep, used, held, kills>>
  BY DEF RefreshRotated
<1> HIDE DEF s, at, old, rotated
<1>7. reaped \in SessionEntry /\ Purged(rotated, at) \subseteq RetiredToken
      /\ EntryOK(reaped, tok)
  BY <1>1, <1>4, ReapOK
<1>8. reaped.current_gen = rotated.current_gen
  BY <1>4 DEF ReapGenerations, SessionEntry
<1> HIDE DEF reaped
<1>9. e \in SessionEntry /\ EntryOK(e, tok)
  BY <1>1, <1>7, SlideOK
<1>10. e.current_gen = reaped.current_gen
  BY <1>7 DEF Slide, SessionEntry
<1>11. g \in Generation
  BY <1>4, <1>5, <1>8, <1>10
<1>12. Progress(e) \in [current_gen : Nat, idle_exp : Nat]
  BY <1>9 DEF Progress, SessionEntry
<1>13. old.tok \in Nat /\ old.tok # NULL /\ tok # NULL
  BY <1>2, <1>4, NullAssumption DEF Generation
<1> HIDE DEF e, tok, g
<1>14. p \in Pending /\ ~ p.created /\ p.token # NULL /\ p.superseded # NULL
  BY <1>1, <1>2, <1>7, <1>11, <1>12, <1>13 DEF NothingPending, Pending, Option
<1> HIDE DEF p
<1>15. TypeOK'
  BY <1>1, <1>2, <1>6, <1>9, <1>14 DEF IInv, TypeOK, Option
<1>16. EntriesOK'
  <2>1. minted <= minted' /\ minted' \in Nat
    BY <1>2, <1>6 DEF tok
  <2> QED BY <1>1, <1>6, <1>9, <2>1, EntriesStep DEF IInv
<1>17. PendingOK'
  BY <1>6, <1>14 DEF IInv, PendingOK, TypeOK
<1> QED BY <1>15, <1>16, <1>17 DEF IInv

\* Apply, Purge and the two Finish steps preserve the invariant.
LEMMA ApplyStep ==
    ASSUME IInv, NEW w \in Workers, Apply(w)
    PROVE  IInv'
<1> DEFINE p == pending[w]
           q == [p EXCEPT !.added = NULL, !.superseded = NULL]
<1>1. p \in Pending /\ p.added \in Generation /\ p.sid \in Sids /\ p.at \in Nat
      /\ p.superseded \in Nat
  BY DEF IInv, TypeOK, PendingOK, Apply, Option, Actors, Pending
<1>2. <<[cmd |-> "insert_generation", sid |-> p.sid, gen |-> p.added],
        [cmd |-> "supersede_generation", tok |-> p.superseded, at |-> p.at]>>
        \in Seq(Command)
  <2> HIDE DEF p
  <2> QED BY <1>1 DEF Command
<1>3. queue' \in Seq(Command)
  BY <1>2, PersistType DEF IInv, TypeOK, Apply
<1>4. pending' = [pending EXCEPT ![w] = q]
  BY DEF Apply
<1>5. q \in Pending /\ q.added = NULL /\ q.created = p.created /\ q.token = p.token
      /\ q.progress = p.progress
  BY <1>1 DEF Pending, Option
<1> HIDE DEF q
<1>6. TypeOK'
  <2>1. pending' \in [Actors -> Option(Pending)]
    BY <1>4, <1>5 DEF IInv, TypeOK, Option
  <2>2. index' \in [Tokens -> Option(Sids)]
    BY <1>1 DEF IInv, TypeOK, Apply, Option
  <2> QED BY <1>3, <2>1, <2>2 DEF IInv, TypeOK, Apply
<1>7. EntriesOK'
  BY DEF IInv, EntriesOK, Apply, Live
<1>8. PendingOK'
  BY <1>4, <1>5 DEF IInv, PendingOK, TypeOK, Apply, Actors
<1> QED BY <1>6, <1>7, <1>8 DEF IInv

LEMMA PurgeStep ==
    ASSUME IInv, NEW a \in Actors, Purge(a)
    PROVE  IInv'
<1> DEFINE p == pending[a]
<1>1. p \in Pending
  BY DEF IInv, TypeOK, Purge, Option
<1>2. PICK r \in p.purged :
         /\ index' = [index EXCEPT ![r.tok] = NULL]
         /\ Persist(<<[cmd |-> "delete_generation", tok |-> r.tok]>>)
         /\ pending' = [pending EXCEPT ![a] = [p EXCEPT !.purged = @ \ {r}]]
  BY DEF Purge
<1> DEFINE q == [p EXCEPT !.purged = @ \ {r}]
<1>3. r.tok \in Nat
  BY <1>1 DEF Pending, RetiredToken
<1>4. <<[cmd |-> "delete_generation", tok |-> r.tok]>> \in Seq(Command)
  BY <1>3 DEF Command
<1>5. queue' \in Seq(Command)
  BY <1>2, <1>4, PersistType DEF IInv, TypeOK
<1>6. q \in Pending /\ q.created = p.created /\ q.added = p.added
      /\ q.token = p.token /\ q.progress = p.progress /\ q.superseded = p.superseded
  BY <1>1 DEF Pending
<1> HIDE DEF q
<1>7. pending' = [pending EXCEPT ![a] = q]
  BY <1>2 DEF q
<1>8. TypeOK'
  <2>1. pending' \in [Actors -> Option(Pending)]
    BY <1>6, <1>7 DEF IInv, TypeOK, Option
  <2>2. index' \in [Tokens -> Option(Sids)]
    BY <1>2 DEF IInv, TypeOK, Option
  <2> QED BY <1>5, <2>1, <2>2 DEF IInv, TypeOK, Purge
<1>9. EntriesOK'
  BY DEF IInv, EntriesOK, Purge, Live
<1>10. PendingOK'
  BY <1>6, <1>7 DEF IInv, PendingOK, TypeOK, Purge
<1> QED BY <1>8, <1>9, <1>10 DEF IInv

LEMMA FinishRefreshStep ==
    ASSUME IInv, NEW w \in Workers, FinishRefresh(w)
    PROVE  IInv'
<1> DEFINE p == pending[w]
<1>1. p \in Pending /\ p.sid \in Sids /\ p.token \in Tokens
      /\ p.progress \in [current_gen : Nat, idle_exp : Nat]
  BY DEF IInv, TypeOK, PendingOK, FinishRefresh, Option, Actors, Pending
<1>2. <<[cmd |-> "update_session_progress", sid |-> p.sid,
         current_gen |-> p.progress.current_gen,
         idle_exp |-> p.progress.idle_exp]>> \in Seq(Command)
  <2> HIDE DEF p
  <2> QED BY <1>1 DEF Command
<1>3. queue' \in Seq(Command)
  BY <1>2, PersistType DEF IInv, TypeOK, FinishRefresh
<1>4. TypeOK'
  BY <1>1, <1>3 DEF IInv, TypeOK, FinishRefresh, Option
<1>5. EntriesOK'
  BY DEF IInv, EntriesOK, FinishRefresh, Live
<1>6. PendingOK'
  BY DEF IInv, PendingOK, TypeOK, FinishRefresh
<1> QED BY <1>4, <1>5, <1>6 DEF IInv

LEMMA FinishTombstoneStep ==
    ASSUME IInv, NEW w \in Workers, FinishTombstone(w)
    PROVE  IInv'
<1> DEFINE p == pending[w]
<1>1. p \in Pending /\ p.sid \in Sids /\ p.at \in Nat
  BY DEF IInv, TypeOK, FinishTombstone, Option, Actors, Pending
<1>2. <<[cmd |-> "tombstone_session", sid |-> p.sid, at |-> p.at]>> \in Seq(Command)
  <2> HIDE DEF p
  <2> QED BY <1>1 DEF Command
<1>3. queue' \in Seq(Command)
  BY <1>2, PersistType DEF IInv, TypeOK, FinishTombstone
<1>4. TypeOK'
  <2>1. kills' \in [Sids -> Nat]
    BY <1>1 DEF IInv, TypeOK, FinishTombstone
  <2>2. pending' \in [Actors -> Option(Pending)]
    BY DEF IInv, TypeOK, FinishTombstone, Option
  <2> QED BY <1>3, <2>1, <2>2 DEF IInv, TypeOK, FinishTombstone
<1>5. EntriesOK'
  BY DEF IInv, EntriesOK, FinishTombstone, Live
<1>6. PendingOK'
  BY DEF IInv, PendingOK, TypeOK, FinishTombstone
<1> QED BY <1>4, <1>5, <1>6 DEF IInv

\* Tombstone, SetCustodyStatus and the sweeper's steps preserve it.
LEMMA TombstoneStep ==
    ASSUME IInv, NEW w \in Workers, NEW s \in Sids, Tombstone(w, s)
    PROVE  IInv'
<1> DEFINE f == sessions[s]
           e == [f EXCEPT !.status = "tombstoned", !.tombstoned_at = now,
                          !.current_token = NULL]
           p == [NothingPending(s, now) EXCEPT !.tombstone = TRUE]
<1>1. f \in SessionEntry /\ EntryOK(f, minted) /\ now \in Nat
  BY DEF IInv, TypeOK, EntriesOK, Tombstone, Live, Option
<1>2. /\ e \in SessionEntry /\ e.gens = f.gens /\ e.current_gen = f.current_gen
      /\ e.current_token = NULL /\ e.status = "tombstoned"
  BY <1>1 DEF SessionEntry, Option, SessionStatus
<1>3. /\ sessions' = [sessions EXCEPT ![s] = e]
      /\ pending' = [pending EXCEPT ![w] = p]
      /\ UNCHANGED <<now, index, queue, call, sweep, minted, used, held, kills>>
  BY DEF Tombstone
<1>4. p \in Pending /\ ~ p.created /\ p.added = NULL /\ p.progress = NULL
  BY <1>1 DEF NothingPending, Pending, Option
<1> HIDE DEF f, e, p
<1>5. EntryOK(e, minted)
  BY <1>1, <1>2 DEF EntryOK, IsCurrent, Spaced
<1>6. TypeOK'
  <2>1. sessions' \in [Sids -> Option(SessionEntry)]
    BY <1>2, <1>3 DEF IInv, TypeOK, Option
  <2>2. pending' \in [Actors -> Option(Pending)]
    BY <1>3, <1>4 DEF IInv, TypeOK, Option
  <2> QED BY <1>3, <2>1, <2>2 DEF IInv, TypeOK
<1>7. EntriesOK'
  <2>1. minted' \in Nat /\ minted <= minted' /\ EntryOK(e, minted')
    BY <1>3, <1>5 DEF IInv, TypeOK
  <2> QED BY <1>3, <2>1, EntriesStep DEF IInv
<1>8. PendingOK'
  BY <1>3, <1>4 DEF IInv, PendingOK, TypeOK
<1> QED BY <1>6, <1>7, <1>8 DEF IInv

LEMMA SetCustodyStatusStep ==
    ASSUME IInv, NEW s \in Sids, NEW status \in CustodyStatus,
           SetCustodyStatus(s, status)
    PROVE  IInv'
<1> DEFINE f == sessions[s]
           e == [f EXCEPT !.custody_status = status]
<1>1. f \in SessionEntry /\ EntryOK(f, minted)
  BY DEF IInv, TypeOK, EntriesOK, SetCustodyStatus, Live, Option
<1>2. /\ e \in SessionEntry /\ e.gens = f.gens /\ e.current_gen = f.current_gen
      /\ e.current_token = f.current_token /\ e.status = f.status
  BY <1>1 DEF SessionEntry
<1>3. /\ sessions' = [sessions EXCEPT ![s] = e]
      /\ UNCHANGED <<now, index, queue, call, pending, sweep, minted, used, held,
                     kills>>
  BY DEF SetCustodyStatus
<1> HIDE DEF f, e
<1>4. EntryOK(e, minted)
  BY <1>1, <1>2 DEF EntryOK, IsCurrent, Spaced
<1>5. TypeOK'
  <2>1. sessions' \in [Sids -> Option(SessionEntry)]
    BY <1>2, <1>3 DEF IInv, TypeOK, Option
  <2> QED BY <1>3, <2>1 DEF IInv, TypeOK
<1>6. EntriesOK'
  <2>1. minted' \in Nat /\ minted <= minted' /\ EntryOK(e, minted')
    BY <1>3, <1>4 DEF IInv, TypeOK
  <2> QED BY <1>3, <2>1, EntriesStep DEF IInv
<1>7. PendingOK'
  BY <1>3 DEF IInv, PendingOK
<1> QED BY <1>5, <1>6, <1>7 DEF IInv

LEMMA SweepReapStep ==
    ASSUME IInv, NEW s \in Sids, SweepReap(s)
    PROVE  IInv'
<1> DEFINE f == sessions[s]
           e == ReapGenerations(f, sweep.at)
           p == [NothingPending(s, sweep.at) EXCEPT !.purged = Purged(f, sweep.at)]
<1>1. f \in SessionEntry /\ EntryOK(f, minted)
  BY DEF IInv, TypeOK, EntriesOK, SweepReap, Live, Option
<1>2. sweep \in [at : Nat, visit : SUBSET Sids, doomed : SUBSET Sids]
  BY DEF IInv, TypeOK, SweepReap, Option
<1>3. e \in SessionEntry /\ Purged(f, sweep.at) \subseteq RetiredToken
      /\ EntryOK(e, minted)
  BY <1>1, <1>2, ReapOK
<1>4. /\ sessions' = [sessions EXCEPT ![s] = e]
      /\ pending' = [pending EXCEPT ![Sweeper] = p]
      /\ sweep' = [sweep EXCEPT !.visit = @ \ {s}]
      /\ UNCHANGED <<now, index, queue, call, minted, used, held, kills>>
  BY DEF SweepReap
<1>5. p \in Pending /\ ~ p.created /\ p.added = NULL /\ p.progress = NULL
  <2> DEFINE q == Purged(f, sweep.at)
  <2>1. q \in SUBSET RetiredToken
    BY <1>3
  <2> HIDE DEF q
  <2>2. p = [NothingPending(s, sweep.at) EXCEPT !.purged = q]
    BY DEF q
  <2> QED BY <1>2, <2>1, <2>2 DEF NothingPending, Pending, Option
<1> HIDE DEF f, e, p
<1>6. TypeOK'
  <2>1. sessions' \in [Sids -> Option(SessionEntry)]
    BY <1>3, <1>4 DEF IInv, TypeOK, Option
  <2>2. pending' \in [Actors -> Option(Pending)]
    BY <1>4, <1>5 DEF IInv, TypeOK, Option
  <2>3. sweep' \in Option([at : Nat, visit : SUBSET Sids, doomed : SUBSET Sids])
    BY <1>2, <1>4 DEF Option
  <2> QED BY <1>4, <2>1, <2>2, <2>3 DEF IInv, TypeOK
<1>7. EntriesOK'
  <2>1. minted' \in Nat /\ minted <= minted' /\ EntryOK(e, minted')
    BY <1>3, <1>4 DEF IInv, TypeOK
  <2> QED BY <1>4, <2>1, EntriesStep DEF IInv
<1>8. PendingOK'
  BY <1>4, <1>5 DEF IInv, PendingOK, TypeOK
<1> QED BY <1>6, <1>7, <1>8 DEF IInv

LEMMA SweepRemoveStep ==
    ASSUME IInv, NEW s \in Sids, SweepRemove(s)
    PROVE  IInv'
<1>1. sweep' \in Option([at : Nat, visit : SUBSET Sids, doomed : SUBSET Sids])
  BY DEF IInv, TypeOK, SweepRemove, Option
<1>2. sessions' \in [Sids -> Option(SessionEntry)]
  BY DEF IInv, TypeOK, SweepRemove, Option
<1>3. index' \in [Tokens -> Option(Sids)]
  BY DEF IInv, TypeOK, SweepRemove, Option
<1>4. TypeOK'
  BY <1>1, <1>2, <1>3 DEF IInv, TypeOK, SweepRemove
<1>5. EntriesOK'
  BY DEF IInv, TypeOK, EntriesOK, SweepRemove, Live
<1>6. PendingOK'
  BY DEF IInv, PendingOK, SweepRemove
<1> QED BY <1>4, <1>5, <1>6 DEF IInv

\* Every step of the map preserves the invariant.
LEMMA NextIInv == IInv /\ [Next]_vars => IInv'
<1> SUFFICES ASSUME IInv, [Next]_vars PROVE IInv'
  OBVIOUS
<1>1. CASE Tick
  <2>1. TypeOK'
    <3>1. now' = now + 1 /\ UNCHANGED <<sessions, index, queue, call, pending,
             sweep, minted, used, held, kills>>
      BY <1>1 DEF Tick
    <3>2. now' \in Nat
      BY <3>1 DEF IInv, TypeOK
    <3>3. TypeOK
      BY DEF IInv
    <3> QED BY ONLY <3>1, <3>2, <3>3 DEF TypeOK
  <2>2. EntriesOK' /\ PendingOK'
    BY <1>1 DEF IInv, EntriesOK, PendingOK, Tick, Live
  <2> QED BY <2>1, <2>2 DEF IInv
<1>2. ASSUME NEW w \in Workers, HandlerNext(w) PROVE IInv'
  <2>1. ASSUME NEW tok \in Tokens, BeginRefresh(w, tok) PROVE IInv'
    <3>1. call' \in [Workers -> Option([tok : Tokens, at : Nat])]
      BY <2>1 DEF IInv, TypeOK, BeginRefresh, Option
    <3>2. TypeOK'
      BY <2>1, <3>1 DEF IInv, TypeOK, BeginRefresh
    <3> QED BY <2>1, <3>2 DEF IInv, EntriesOK, PendingOK, BeginRefresh, Live
  <2>2. CASE RefreshDenied(w)
    <3>1. call' \in [Workers -> Option([tok : Tokens, at : Nat])]
      BY <2>2 DEF IInv, TypeOK, RefreshDenied, Option
    <3>2. TypeOK'
      BY <2>2, <3>1 DEF IInv, TypeOK, RefreshDenied
    <3> QED BY <2>2, <3>2 DEF IInv, EntriesOK, PendingOK, RefreshDenied, Live
  <2>3. w \in Actors
    BY DEF Actors
  <2> QED BY <1>2, <2>1, <2>2, <2>3, FinishCreateStep,
             RefreshCoalescedStep, RefreshRotatedStep, ApplyStep, PurgeStep,
             FinishRefreshStep, FinishTombstoneStep
          DEF HandlerNext
<1>3. CASE SweepNext
  <2>1. CASE SweepStart
    <3>1. sweep' \in Option([at : Nat, visit : SUBSET Sids, doomed : SUBSET Sids])
      BY <2>1 DEF IInv, TypeOK, SweepStart, Option
    <3> QED BY <2>1, <3>1 DEF IInv, TypeOK, EntriesOK, PendingOK, SweepStart, Live
  <2>2. ASSUME NEW s \in Sids, SweepMark(s) PROVE IInv'
    <3>1. sweep' \in Option([at : Nat, visit : SUBSET Sids, doomed : SUBSET Sids])
      BY <2>2 DEF IInv, TypeOK, SweepMark, Option
    <3> QED BY <2>2, <3>1 DEF IInv, TypeOK, EntriesOK, PendingOK, SweepMark, Live
  <2>3. CASE SweepApplied
    <3>1. pending' \in [Actors -> Option(Pending)]
      BY <2>3 DEF IInv, TypeOK, SweepApplied, Option
    <3> QED BY <2>3, <3>1 DEF IInv, TypeOK, EntriesOK, PendingOK, SweepApplied, Live
  <2>4. CASE SweepEnd
    BY <2>4 DEF IInv, TypeOK, EntriesOK, PendingOK, SweepEnd, Live, Option
  <2>5. Sweeper \in Actors
    BY DEF Actors
  <2> QED BY <1>3, <2>1, <2>2, <2>3, <2>4, <2>5, PurgeStep, SweepReapStep,
             SweepRemoveStep DEF SweepNext
<1>4. CASE UNCHANGED vars
  BY <1>4 DEF vars, IInv, TypeOK, EntriesOK, PendingOK, Live
<1> QED BY <1>1, <1>2, <1>3, <1>4, CreateStep, TombstoneStep,
           SetCustodyStatusStep DEF Next

LEMMA Invariance == Spec => []IInv
BY InitIInv, NextIInv, PTL DEF Spec

\* Every variable of the map keeps its type: in particular no cookie is ever
\* issued that the map did not mint, and no entry loses its shape.
THEOREM TypeCorrect == Spec => []TypeOK
<1>1. IInv => TypeOK
  BY DEF IInv
<1> QED BY <1>1, Invariance, PTL

\* However refreshes, kills and sweeps interleave, every session in the map
\* keeps exactly one generation that no other supersedes, on top of its
\* vector and with the current number: the expect in SessionEntry::current
\* never fails, and the credential that refreshes the session is never reaped.
THEOREM CurrentGenerationKept == Spec => []OneCurrentGeneration
<1>1. IInv => OneCurrentGeneration
  BY DEF IInv, EntriesOK, EntryOK, OneCurrentGeneration
<1> QED BY <1>1, Invariance, PTL

\* Racing refreshes of one session mint at most once per coalescing window.
THEOREM CoalescingSpacesMints == Spec => []MintsAreSpaced
<1>1. IInv => MintsAreSpaced
  BY DEF IInv, EntriesOK, EntryOK, MintsAreSpaced
<1> QED BY <1>1, Invariance, PTL

----------------------------------------------------------------------------
(***************************************************************************)
(* One entry.                                                              *)
(***************************************************************************)
\* A vector of generations, oldest first, is in order of minting too.
Ordered(gens) ==
    \A g, h \in gens :
        g # h => \/ g.pos < h.pos /\ g.tok < h.tok
                 \/ h.pos < g.pos /\ h.tok < g.tok

\* Between a generation's end and a later one's birth there is a coalescing
\* window for each one in between, reaped or not.
Rationed(gens) ==
    \A g, h \in gens : g.pos < h.pos =>
        /\ g.superseded_at # NULL
        /\ g.superseded_at + (h.pos - g.pos - 1) * Coalesce <= h.created_at

\* An entry once `n' tokens are minted, at time `t': what its generations know
\* of each other, of the deque and of the clock.
Sound(e, n, t) ==
    /\ Ordered(e.gens)
    /\ \A g \in e.gens, r \in e.retired : g.tok # r.tok
    /\ \A r \in e.retired : r.tok \in 1..n
    /\ \A g \in e.gens : /\ g.created_at <= t
                         /\ g.superseded_at # NULL => g.superseded_at <= t
    /\ e.idle_exp <= e.absolute_exp
    /\ Coalesce > 0 => Rationed(e.gens)

\* A nonempty set of numbers has a least one.
LEMMA LeastElement ==
  ASSUME NEW S \in SUBSET Nat, S # {}
  PROVE  \E m \in S : \A x \in S : m <= x
<1> DEFINE R == OpToRel(<, Nat)
<1>1. R = {ss \in Nat \X Nat : ss[1] < ss[2]}
  BY DEF OpToRel
<1>2. IsWellFoundedOn(R, Nat)
  BY NatLessThanWellFounded
<1> HIDE DEF R
<1>3. PICK m \in S : \A x \in S : ~ (<<x, m>> \in R)
  BY <1>2, WFMin
<1>4. \A x \in S : ~ (x < m)
  BY <1>1, <1>3
<1> QED BY <1>3, <1>4

\* The second pass of reap_generations leaves at most Cap generations: all but
\* the oldest of those that stay are younger than that one.
LEMMA UnderCap ==
  ASSUME NEW kept \in SUBSET Generation, IsFiniteSet(kept), Ordered(kept)
  PROVE  Cardinality(kept \ OverCap(kept)) <= Cap
<1> DEFINE left == kept \ OverCap(kept)
<1>1. Cap \in Nat /\ Cap >= 1
  BY PolicyAssumption DEF Cap
<1>2. CASE left = {}
  BY <1>1, <1>2, FS_EmptySet
<1>3. CASE left # {}
  <2> DEFINE P == {g.pos : g \in left}
  <2>1. P \in SUBSET Nat /\ P # {}
    BY <1>3 DEF Generation
  <2>2. PICK m \in P : \A x \in P : m <= x
    BY <2>1, LeastElement
  <2>3. PICK o \in left : o.pos = m
    BY <2>2
  <2> DEFINE young == {h \in kept : h.pos > o.pos}
  <2>4. IsFiniteSet(young) /\ Cardinality(young) \in Nat
    BY FS_Subset, FS_CardinalityType
  <2>5. Cardinality(young) < Cap
    BY <1>1, <2>3, <2>4 DEF OverCap
  <2>6. left \subseteq young \cup {o}
    BY <2>2, <2>3 DEF Ordered, Generation
  <2>7. IsFiniteSet(young \cup {o}) /\ Cardinality(young \cup {o}) <= Cardinality(young) + 1
    <3> HIDE DEF young
    <3>1. /\ IsFiniteSet(young \cup {o})
          /\ Cardinality(young \cup {o})
                = IF o \in young THEN Cardinality(young) ELSE Cardinality(young) + 1
      BY <2>4, FS_AddElement, Zenon
    <3> QED BY <2>4, <3>1
  <2>8. Cardinality(left) <= Cardinality(young \cup {o})
        /\ Cardinality(left) \in Nat /\ Cardinality(young \cup {o}) \in Nat
    BY <2>6, <2>7, FS_Subset, FS_CardinalityType
  <2> QED BY <1>1, <2>4, <2>5, <2>7, <2>8
<1> QED BY <1>2, <1>3

\* What the cap evicts is older than everything it leaves.
LEMMA CapTakesOldest ==
  ASSUME NEW kept \in SUBSET Generation, IsFiniteSet(kept), Ordered(kept),
         NEW g \in OverCap(kept), NEW h \in kept \ OverCap(kept)
  PROVE  g.pos < h.pos /\ g.tok < h.tok
<1> DEFINE above(x) == {y \in kept : y.pos > x.pos}
<1>1. Cap \in Nat
  BY PolicyAssumption DEF Cap
<1>2. /\ Cardinality(above(g)) \in Nat /\ Cardinality(above(h)) \in Nat
      /\ IsFiniteSet(above(h))
  BY FS_Subset, FS_CardinalityType
<1>3. g \in kept /\ Cardinality(above(g)) >= Cap /\ ~ (Cardinality(above(h)) >= Cap)
  BY DEF OverCap
<1>4. ASSUME h.pos <= g.pos PROVE FALSE
  <2>1. above(g) \subseteq above(h)
    BY <1>3, <1>4 DEF Generation
  <2>2. Cardinality(above(g)) <= Cardinality(above(h))
    BY <1>2, <2>1, FS_Subset
  <2> QED BY <1>1, <1>2, <1>3, <2>2
<1> QED BY <1>3, <1>4 DEF Ordered, Generation

\* Reaping moves tokens from the vector to the deque, or out of the entry, and
\* leaves no more than the cap.
LEMMA ReapSound ==
  ASSUME NEW e \in SessionEntry, NEW t \in Nat, NEW n \in Nat, NEW m \in Nat,
         EntryOK(e, n), Sound(e, n, m)
  PROVE  /\ Sound(ReapGenerations(e, t), n, m)
         /\ AllHashes(ReapGenerations(e, t)) \subseteq AllHashes(e)
         /\ Cardinality(ReapGenerations(e, t).gens) <= Cap
         /\ \A r \in Purged(e, t) :
               /\ r.tok \in AllHashes(e)
               /\ \A g \in ReapGenerations(e, t).gens : g.tok # r.tok
<1> DEFINE f == ReapGenerations(e, t)
           gone == Retiring(e, t)
<1>1. gone \subseteq e.gens
  BY DEF Retiring, Lapsed, OverCap
<1>2. /\ f.gens = e.gens \ gone
      /\ f.retired \subseteq RetiredWith(e, t)
      /\ f.idle_exp = e.idle_exp /\ f.absolute_exp = e.absolute_exp
  BY DEF ReapGenerations, SessionEntry
<1>3. ASSUME NEW r \in RetiredWith(e, t)
      PROVE  (\E q \in e.retired : r.tok = q.tok) \/ (\E g \in gone : r.tok = g.tok)
  <2>1. CASE \E q \in e.retired :
               r = [q EXCEPT !.age = @ + Cardinality(Retiring(e, t))]
    BY <2>1 DEF SessionEntry, RetiredToken
  <2>2. CASE \E g \in gone :
               r = [tok |-> g.tok, gen_no |-> g.gen_no, age |-> RetiredAfter(e, g, t)]
    BY <2>2
  <2> QED BY <2>1, <2>2 DEF RetiredWith
<1> HIDE DEF f, gone
<1>4. ASSUME NEW r \in RetiredWith(e, t)
      PROVE  r.tok \in AllHashes(e) /\ \A g \in f.gens : g.tok # r.tok
  <2>1. r.tok \in AllHashes(e)
    BY <1>1, <1>3 DEF AllHashes
  <2>2. \A g \in f.gens, h \in gone : g.tok # h.tok
    BY <1>1, <1>2 DEF Sound, Ordered, SessionEntry, Generation
  <2> QED BY <1>2, <1>3, <2>1, <2>2 DEF Sound
<1>5. AllHashes(e) \subseteq 1..n
  BY DEF AllHashes, Sound, EntryOK
<1>6. \A r \in f.retired : r.tok \in 1..n
  BY <1>2, <1>4, <1>5
<1>7. Sound(f, n, m)
  BY <1>2, <1>4, <1>6 DEF Sound, Ordered, Rationed
<1>8. AllHashes(f) \subseteq AllHashes(e)
  BY <1>2, <1>4 DEF AllHashes
<1>9. Cardinality(f.gens) <= Cap
  <2> DEFINE kept == e.gens \ Lapsed(e, t)
  <2>1. f.gens = kept \ OverCap(kept)
    BY <1>2 DEF gone, Retiring
  <2>2. kept \in SUBSET Generation /\ IsFiniteSet(kept) /\ Ordered(kept)
    BY FS_Subset DEF SessionEntry, EntryOK, Sound, Ordered
  <2> HIDE DEF kept
  <2> QED BY <2>1, <2>2, UnderCap
<1> QED BY <1>4, <1>7, <1>8, <1>9 DEF f, Purged

\* Sliding moves the idle end only.
LEMMA SlideSound ==
  ASSUME NEW e \in SessionEntry, NEW t \in Nat, NEW n, NEW m, Sound(e, n, m)
  PROVE  /\ Sound(Slide(e, t), n, m)
         /\ AllHashes(Slide(e, t)) = AllHashes(e)
         /\ Slide(e, t).gens = e.gens
         /\ Slide(e, t).absolute_exp = e.absolute_exp
<1> DEFINE f == Slide(e, t)
<1>1. /\ f.gens = e.gens /\ f.retired = e.retired
      /\ f.absolute_exp = e.absolute_exp
      /\ f.idle_exp = Earlier(t + IdleTtl, e.absolute_exp)
  BY DEF Slide, SessionEntry
<1>2. f.idle_exp <= f.absolute_exp
  BY <1>1, PolicyAssumption DEF Earlier, SessionEntry
<1> HIDE DEF f
<1>3. Sound(f, n, m)
  BY <1>1, <1>2 DEF Sound
<1> QED BY <1>1, <1>3 DEF f, AllHashes

\* One more window: the arithmetic of Rationed.
LEMMA OneMoreWindow ==
  ASSUME NEW a \in Nat, NEW k \in Nat, NEW b \in Nat, NEW t \in Nat,
         a + k * Coalesce <= b, b + Coalesce <= t
  PROVE  a + (k + 1) * Coalesce <= t
<1>1. Coalesce \in Nat
  BY PolicyAssumption
<1>2. (k + 1) * Coalesce = k * Coalesce + Coalesce
  BY <1>1
<1>3. k * Coalesce \in Nat
  BY <1>1
<1> QED BY <1>1, <1>2, <1>3

\* The entry a login inserts.
LEMMA NewEntrySound ==
  ASSUME NEW n \in Nat, NEW t \in Nat
  PROVE  /\ Sound(NewEntry(n + 1, t), n + 1, t)
         /\ AllHashes(NewEntry(n + 1, t)) = {n + 1}
         /\ Cardinality(NewEntry(n + 1, t).gens) <= Cap
<1> DEFINE g == NewGeneration(1, n + 1, t, 1)
           e == NewEntry(n + 1, t)
<1>1. /\ e.gens = {g} /\ e.retired = {}
      /\ e.idle_exp <= e.absolute_exp
  BY PolicyAssumption DEF NewEntry, Earlier
<1>2. g.tok = n + 1 /\ g.created_at = t /\ g.superseded_at = NULL /\ g.pos = 1
  BY DEF NewGeneration
<1> HIDE DEF e, g
<1>3. Sound(e, n + 1, t)
  BY <1>1, <1>2 DEF Sound, Ordered, Rationed
<1>4. AllHashes(e) = {n + 1}
  BY <1>1, <1>2 DEF AllHashes
<1>5. Cardinality(e.gens) <= Cap
  <2>1. Cardinality({g}) = 1
    BY FS_Singleton, Zenon
  <2>2. Cap >= 1
    BY PolicyAssumption DEF Cap
  <2> QED BY <1>1, <2>1, <2>2
<1> QED BY <1>3, <1>4, <1>5 DEF e

\* What a rotation does to the vector: the last generation is superseded, a
\* new one goes on top.
LEMMA RotatedGens ==
  ASSUME NEW e \in SessionEntry, NEW t \in Nat, NEW n \in Nat,
         NEW c \in e.gens, IsCurrent(e, c)
  PROVE  LET g == NewGeneration(e.current_gen + 1, n, t, c.pos + 1)
             old == [c EXCEPT !.superseded_at = t]
             f == Rotated(e, n, t)
         IN /\ Current(e) = c
            /\ f.gens = (e.gens \ {c}) \cup {old, g}
            /\ old.tok = c.tok /\ old.pos = c.pos /\ old.superseded_at = t
            /\ old.created_at = c.created_at /\ old.active_until = c.active_until
            /\ old.gen_no = c.gen_no
            /\ g.tok = n /\ g.pos = c.pos + 1 /\ g.superseded_at = NULL
            /\ g.created_at = t
            /\ f.retired = e.retired /\ f.idle_exp = e.idle_exp
            /\ f.absolute_exp = e.absolute_exp /\ f.status = e.status
            /\ f.custody_status = e.custody_status
            /\ f.current_gen = e.current_gen + 1
<1>1. Current(e) = c
  BY CurrentIs
<1>2. c \in Generation
  BY DEF SessionEntry
<1> DEFINE g == NewGeneration(e.current_gen + 1, n, t, c.pos + 1)
           old == [c EXCEPT !.superseded_at = t]
           f == Rotated(e, n, t)
<1>3. \A h \in e.gens : h.pos = c.pos <=> h = c
  BY <1>2 DEF IsCurrent, SessionEntry, Generation
<1>4. {IF h.pos = c.pos THEN [h EXCEPT !.superseded_at = t] ELSE h : h \in e.gens}
        = (e.gens \ {c}) \cup {old}
  BY <1>3
<1>5. /\ f.gens = (e.gens \ {c}) \cup {old, g}
      /\ f.retired = e.retired /\ f.idle_exp = e.idle_exp
      /\ f.absolute_exp = e.absolute_exp /\ f.status = e.status
      /\ f.custody_status = e.custody_status
      /\ f.current_gen = e.current_gen + 1
  BY <1>1, <1>4 DEF Rotated, SessionEntry
<1>6. /\ old.tok = c.tok /\ old.pos = c.pos /\ old.superseded_at = t
      /\ old.created_at = c.created_at /\ old.active_until = c.active_until
      /\ old.gen_no = c.gen_no
  BY <1>2 DEF Generation
<1>7. /\ g.tok = n /\ g.pos = c.pos + 1 /\ g.superseded_at = NULL /\ g.created_at = t
  BY DEF NewGeneration
<1> HIDE DEF g, old, f
<1>8. /\ Current(e) = c
      /\ f.gens = (e.gens \ {c}) \cup {old, g}
      /\ old.tok = c.tok /\ old.pos = c.pos /\ old.superseded_at = t
      /\ old.created_at = c.created_at /\ old.active_until = c.active_until
      /\ old.gen_no = c.gen_no
      /\ g.tok = n /\ g.pos = c.pos + 1 /\ g.superseded_at = NULL
      /\ g.created_at = t
      /\ f.retired = e.retired /\ f.idle_exp = e.idle_exp
      /\ f.absolute_exp = e.absolute_exp /\ f.status = e.status
      /\ f.custody_status = e.custody_status
      /\ f.current_gen = e.current_gen + 1
  BY <1>1, <1>5, <1>6, <1>7
<1> QED BY <1>8 DEF g, old, f

\* A rotation keeps an entry sound and puts the token just minted in it.
LEMMA RotatedSound ==
  ASSUME NEW e \in SessionEntry, NEW t \in Nat, NEW n \in Nat, NEW m \in Nat,
         EntryOK(e, n), Sound(e, n, m), t <= m,
         e.status = "alive", ~ Coalesces(e, t)
  PROVE  /\ Sound(Rotated(e, n + 1, t), n + 1, m)
         /\ AllHashes(Rotated(e, n + 1, t)) = AllHashes(e) \cup {n + 1}
<1>1. PICK c \in e.gens : IsCurrent(e, c)
  BY DEF EntryOK
<1> DEFINE g == NewGeneration(e.current_gen + 1, n + 1, t, c.pos + 1)
           old == [c EXCEPT !.superseded_at = t]
           f == Rotated(e, n + 1, t)
<1>2. /\ Current(e) = c
      /\ f.gens = (e.gens \ {c}) \cup {old, g}
      /\ old.tok = c.tok /\ old.pos = c.pos /\ old.superseded_at = t
      /\ old.created_at = c.created_at
      /\ g.tok = n + 1 /\ g.pos = c.pos + 1 /\ g.superseded_at = NULL
      /\ g.created_at = t
      /\ f.retired = e.retired /\ f.idle_exp = e.idle_exp
      /\ f.absolute_exp = e.absolute_exp
  <2>1. n + 1 \in Nat
    OBVIOUS
  <2> QED BY <1>1, <2>1, RotatedGens
<1> HIDE DEF g, old, f
<1>3. \A h \in e.gens : /\ h \in Generation /\ h.tok \in 1..n
                        /\ h.pos \in Nat /\ h.tok \in Nat
                        /\ h.created_at \in Nat
                        /\ h.superseded_at # NULL => h.superseded_at \in Nat
  BY DEF EntryOK, SessionEntry, Generation, Option
<1>4. \A h \in e.gens \ {c} : h.superseded_at # NULL /\ h.pos < c.pos /\ h.tok < c.tok
  BY <1>1 DEF IsCurrent
<1>5. \A h \in f.gens : h = g \/ h = old \/ h \in e.gens \ {c}
  BY <1>2
<1>6. Ordered(f.gens)
  BY <1>2, <1>3, <1>4, <1>5 DEF Sound, Ordered
<1>7. \A r \in f.retired : r.tok \in 1..(n + 1)
  BY <1>2 DEF Sound
<1>8. \A x \in f.gens, r \in f.retired : x.tok # r.tok
  <2>1. \A r \in e.retired : r.tok # n + 1
    BY DEF Sound
  <2> QED BY <1>1, <1>2, <1>5, <2>1 DEF Sound
<1>9. \A x \in f.gens : x.created_at <= m /\ (x.superseded_at # NULL => x.superseded_at <= m)
  BY <1>2, <1>3, <1>5 DEF Sound
<1>10. ASSUME Coalesce > 0 PROVE Rationed(f.gens)
  <2>1. e.current_token # NULL
    BY DEF EntryOK
  <2>2. t >= c.created_at + Coalesce
    BY <1>2, <1>3, <1>10, <2>1, PolicyAssumption DEF Coalesces, Since
  <2>3. t # NULL
    BY NullAssumption
  <2>4. Coalesce \in Nat
    BY PolicyAssumption
  <2>5. ASSUME NEW x \in f.gens, NEW y \in f.gens, x.pos < y.pos
        PROVE  /\ x.superseded_at # NULL
               /\ x.superseded_at + (y.pos - x.pos - 1) * Coalesce <= y.created_at
    <3>1. CASE x \in e.gens \ {c} /\ y = g
      <4> DEFINE k == c.pos - x.pos - 1
      <4>1. x.superseded_at \in Nat /\ x.superseded_at + k * Coalesce <= c.created_at
        BY <1>1, <1>3, <1>4, <1>10, <3>1 DEF Sound, Rationed
      <4>2. k \in Nat /\ y.pos - x.pos - 1 = k + 1
        BY <1>2, <1>3, <1>4, <3>1
      <4> HIDE DEF k
      <4>3. x.superseded_at + (k + 1) * Coalesce <= t
        BY <1>3, <2>2, <4>1, <4>2, OneMoreWindow
      <4> QED BY <1>2, <1>4, <3>1, <4>2, <4>3
    <3>2. CASE x = old /\ y = g
      <4>1. y.pos - x.pos - 1 = 0
        BY <1>2, <1>3, <3>2
      <4>2. 0 * Coalesce = 0
        BY <2>4
      <4> QED BY <1>2, <2>3, <3>2, <4>1, <4>2
    <3>3. CASE x \in e.gens \ {c} /\ y = old
      BY <1>1, <1>2, <1>4, <1>10, <2>5, <3>3 DEF Sound, Rationed
    <3>4. CASE x \in e.gens \ {c} /\ y \in e.gens \ {c}
      BY <1>10, <2>5, <3>4 DEF Sound, Rationed
    <3>5. x # g /\ ~ (x = old /\ y # g)
      BY <1>2, <1>3, <1>4, <1>5, <2>5
    <3> QED BY <1>5, <3>1, <3>2, <3>3, <3>4, <3>5
  <2> QED BY <2>5 DEF Rationed
<1>11. Sound(f, n + 1, m)
  BY <1>2, <1>6, <1>7, <1>8, <1>9, <1>10 DEF Sound
<1>12. AllHashes(f) = AllHashes(e) \cup {n + 1}
  BY <1>1, <1>2 DEF AllHashes
<1> QED BY <1>11, <1>12 DEF f

\* A rotating refresh: rotate, reap, slide.
Refreshed(e, n, t) == Slide(ReapGenerations(Rotated(e, n, t), t), t)

LEMMA RefreshedSound ==
  ASSUME NEW e \in SessionEntry, NEW t \in Nat, NEW n \in Nat, NEW m \in Nat,
         EntryOK(e, n), Sound(e, n, m), t <= m,
         e.status = "alive", ~ Coalesces(e, t)
  PROVE  /\ Sound(Refreshed(e, n + 1, t), n + 1, m)
         /\ AllHashes(Refreshed(e, n + 1, t)) \subseteq AllHashes(e) \cup {n + 1}
         /\ Cardinality(Refreshed(e, n + 1, t).gens) <= Cap
         /\ Refreshed(e, n + 1, t).absolute_exp = e.absolute_exp
         /\ Refreshed(e, n + 1, t).status = e.status
         /\ Refreshed(e, n + 1, t).custody_status = e.custody_status
         /\ \A r \in Purged(Rotated(e, n + 1, t), t) :
               /\ r.tok \in AllHashes(e) \cup {n + 1}
               /\ \A g \in Refreshed(e, n + 1, t).gens : g.tok # r.tok
<1> DEFINE f == Rotated(e, n + 1, t)
           h == ReapGenerations(f, t)
<1>1. /\ f \in SessionEntry /\ EntryOK(f, n + 1) /\ Sound(f, n + 1, m)
      /\ AllHashes(f) = AllHashes(e) \cup {n + 1}
  BY RotatedOK, RotatedSound
<1>2. f.absolute_exp = e.absolute_exp /\ f.status = e.status /\ f.custody_status = e.custody_status
  BY DEF Rotated, SessionEntry
<1> HIDE DEF f
<1>3. /\ h \in SessionEntry /\ Sound(h, n + 1, m)
      /\ AllHashes(h) \subseteq AllHashes(f)
      /\ Cardinality(h.gens) <= Cap
      /\ \A r \in Purged(f, t) : /\ r.tok \in AllHashes(f)
                                 /\ \A g \in h.gens : g.tok # r.tok
  <2>1. n + 1 \in Nat
    OBVIOUS
  <2> QED BY <1>1, <2>1, ReapOK, ReapSound
<1>4. h.absolute_exp = f.absolute_exp /\ h.status = f.status /\ h.custody_status = f.custody_status
  BY <1>1 DEF ReapGenerations, SessionEntry
<1> HIDE DEF h
<1>5. /\ Sound(Slide(h, t), n + 1, m) /\ AllHashes(Slide(h, t)) = AllHashes(h)
      /\ Slide(h, t).gens = h.gens /\ Slide(h, t).absolute_exp = h.absolute_exp
  BY <1>3, SlideSound
<1>6. Slide(h, t).status = h.status /\ Slide(h, t).custody_status = h.custody_status
  BY <1>3 DEF Slide, SessionEntry
<1> QED BY <1>1, <1>2, <1>3, <1>4, <1>5, <1>6 DEF Refreshed, f, h

----------------------------------------------------------------------------
(***************************************************************************)
(* How a step of the map may change one entry.                             *)
(***************************************************************************)
\* tombstone_session_with_reason at time t.
Killed(e, t) ==
    [e EXCEPT !.status = "tombstoned", !.tombstoned_at = t, !.current_token = NULL]

\* At clock u, with n tokens minted before the step and m after it, an entry e
\* the map keeps becomes f; t is what the step's caller read of the clock.
Moves(e, f, t, u, n, m) ==
    \/ f = e
    \/ /\ f = Slide(e, t)
       /\ SessionExpiry(e, t) = NULL
       /\ u <= t + MaxStall
    \/ /\ f = Refreshed(e, n + 1, t)
       /\ m = n + 1
       /\ SessionExpiry(e, t) = NULL
       /\ ~ Coalesces(e, t)
       /\ u <= t + MaxStall
    \/ f = Killed(e, u) /\ e.status = "alive"
    \/ \E status \in CustodyStatus :
          f = [e EXCEPT !.custody_status = status] /\ e.custody_status # "dead"
    \/ f = ReapGenerations(e, t)

\* A refresh or a sweep in flight is never older than MaxStall.
ClocksOK ==
    /\ \A w \in Workers : call[w] # NULL =>
          call[w].at <= now /\ now <= call[w].at + MaxStall
    /\ sweep # NULL => sweep.at <= now /\ now <= sweep.at + MaxStall

LEMMA InitClocks == Init => ClocksOK
BY DEF Init, ClocksOK

LEMMA NextClocks == IInv /\ ClocksOK /\ [Next]_vars => ClocksOK'
<1> SUFFICES ASSUME IInv, ClocksOK, [Next]_vars PROVE ClocksOK'
  OBVIOUS
<1>1. /\ now \in Nat /\ MaxStall \in Nat
      /\ call \in [Workers -> Option([tok : Tokens, at : Nat])]
      /\ sweep \in Option([at : Nat, visit : SUBSET Sids, doomed : SUBSET Sids])
  BY MapAssumption DEF IInv, TypeOK
<1>2. CASE Tick
  <2>1. /\ now' = now + 1 /\ call' = call /\ sweep' = sweep
        /\ \A w \in Workers : call[w] # NULL => now < call[w].at + MaxStall
        /\ sweep # NULL => now < sweep.at + MaxStall
    BY <1>2 DEF Tick
  <2>2. \A w \in Workers : call[w] # NULL => call[w].at \in Nat
    BY <1>1 DEF Option
  <2>3. sweep # NULL => sweep.at \in Nat
    BY <1>1 DEF Option
  <2> QED BY <1>1, <2>1, <2>2, <2>3 DEF ClocksOK
<1>3. ASSUME now' = now,
             \A w \in Workers : \/ call'[w] \in {call[w], NULL}
                                \/ call'[w].at = now,
             \/ sweep' \in {sweep, NULL} \/ sweep'.at = now
             \/ sweep # NULL /\ sweep'.at = sweep.at
      PROVE  ClocksOK'
  BY <1>1, <1>3 DEF ClocksOK
<1>4. CASE \E w \in Workers, s \in Sids : Create(w, s) \/ Tombstone(w, s)
  <2>1. now' = now /\ call' = call /\ sweep' = sweep
    BY <1>4 DEF Create, Tombstone
  <2> QED BY <1>3, <2>1
<1>5. ASSUME NEW w \in Workers, HandlerNext(w) PROVE ClocksOK'
  <2>1. ASSUME NEW tok \in Tokens, BeginRefresh(w, tok) PROVE ClocksOK'
    <3>1. /\ now' = now /\ sweep' = sweep
          /\ call' = [call EXCEPT ![w] = [tok |-> tok, at |-> now]]
      BY <2>1 DEF BeginRefresh
    <3> QED BY <1>1, <1>3, <3>1
  <2>2. CASE RefreshDenied(w) \/ RefreshCoalesced(w) \/ RefreshRotated(w)
    <3>1. now' = now /\ sweep' = sweep /\ call' = [call EXCEPT ![w] = NULL]
      BY <2>2 DEF RefreshDenied, RefreshCoalesced, RefreshRotated
    <3> QED BY <1>1, <1>3, <3>1
  <2>3. CASE FinishCreate(w) \/ Apply(w) \/ Purge(w) \/ FinishRefresh(w)
             \/ FinishTombstone(w)
    <3>1. now' = now /\ call' = call /\ sweep' = sweep
      BY <2>3 DEF FinishCreate, Apply, Purge, FinishRefresh, FinishTombstone
    <3> QED BY <1>3, <3>1
  <2> QED BY <1>5, <2>1, <2>2, <2>3 DEF HandlerNext
<1>6. ASSUME NEW s \in Sids, NEW status \in CustodyStatus, SetCustodyStatus(s, status)
      PROVE  ClocksOK'
  <2>1. now' = now /\ call' = call /\ sweep' = sweep
    BY <1>6 DEF SetCustodyStatus
  <2> QED BY <1>3, <2>1
<1>7. CASE SweepNext
  <2>1. CASE SweepStart
    <3>1. now' = now /\ call' = call /\ sweep'.at = now
      BY <2>1 DEF SweepStart
    <3> QED BY <1>3, <3>1
  <2>2. ASSUME NEW s \in Sids, SweepMark(s) \/ SweepReap(s) \/ SweepRemove(s)
        PROVE  ClocksOK'
    <3>1. now' = now /\ call' = call /\ sweep # NULL /\ sweep'.at = sweep.at
      BY <1>1, <2>2 DEF SweepMark, SweepReap, SweepRemove, Option
    <3> QED BY <1>3, <3>1
  <2>3. CASE Purge(Sweeper) \/ SweepApplied \/ SweepEnd
    <3>1. now' = now /\ call' = call /\ sweep' \in {sweep, NULL}
      BY <2>3 DEF Purge, SweepApplied, SweepEnd
    <3> QED BY <1>3, <3>1
  <2> QED BY <1>7, <2>1, <2>2, <2>3 DEF SweepNext
<1>8. CASE UNCHANGED vars
  <2>1. now' = now /\ call' = call /\ sweep' = sweep
    BY <1>8 DEF vars
  <2> QED BY <1>3, <2>1
<1> QED BY <1>2, <1>4, <1>5, <1>6, <1>7, <1>8 DEF Next

\* Session ids are drawn, never put back.
LEMMA UsedGrows == [Next]_vars => used \subseteq used'
<1>1. CASE Tick
  BY <1>1 DEF Tick
<1>2. CASE \E w \in Workers, s \in Sids : Create(w, s)
  BY <1>2 DEF Create
<1>3. CASE \E w \in Workers, s \in Sids : Tombstone(w, s)
  BY <1>3 DEF Tombstone
<1>4. CASE \E w \in Workers : HandlerNext(w)
  BY <1>4 DEF HandlerNext, FinishCreate, BeginRefresh, RefreshDenied, RefreshCoalesced,
              RefreshRotated, Apply, Purge, FinishRefresh, FinishTombstone
<1>5. CASE \E s \in Sids, status \in CustodyStatus : SetCustodyStatus(s, status)
  BY <1>5 DEF SetCustodyStatus
<1>6. CASE SweepNext
  BY <1>6 DEF SweepNext, SweepStart, SweepMark, SweepReap, Purge, SweepApplied,
              SweepRemove, SweepEnd
<1>7. CASE UNCHANGED vars
  BY <1>7 DEF vars
<1> QED BY <1>1, <1>2, <1>3, <1>4, <1>5, <1>6, <1>7 DEF Next

\* An entry in the map after a step was put there by a login that drew its id,
\* or was there before and made one of the moves.
LEMMA EntryMoves ==
  ASSUME IInv, ClocksOK, [Next]_vars, NEW s \in Sids, Live(s)'
  PROVE  \/ /\ s \notin used /\ s \in used'
            /\ sessions'[s] = NewEntry(minted + 1, now)
            /\ minted' = minted + 1 /\ now' = now
         \/ /\ Live(s)
            /\ \E t \in Nat : t <= now /\ Moves(sessions[s], sessions'[s], t, now, minted, minted')
            /\ minted <= minted' /\ minted' \in Nat
            /\ now' = now \/ (now' = now + 1 /\ sessions' = sessions)
<1>1. /\ now \in Nat /\ minted \in Nat
      /\ sessions \in [Sids -> Option(SessionEntry)]
      /\ sessions'[s] # NULL
  BY DEF IInv, TypeOK, Live
<1> DEFINE moved == /\ Live(s)
                    /\ \E t \in Nat : t <= now /\ Moves(sessions[s], sessions'[s], t, now, minted, minted')
                    /\ minted <= minted' /\ minted' \in Nat
                    /\ now' = now \/ (now' = now + 1 /\ sessions' = sessions)
<1>2. ASSUME sessions'[s] = sessions[s], minted <= minted', minted' \in Nat,
             now' = now \/ (now' = now + 1 /\ sessions' = sessions)
      PROVE  moved
  BY <1>1, <1>2 DEF Moves, Live
<1> HIDE DEF moved
<1>3. ASSUME NEW x \in Sids, NEW t \in Nat, sessions[x] # NULL, t <= now,
             \A y \in Sids : y # x => sessions'[y] = sessions[y],
             Moves(sessions[x], sessions'[x], t, now, minted, minted'),
             minted <= minted', minted' \in Nat, now' = now
      PROVE  moved
  <2>1. CASE x = s
    BY <1>1, <1>3, <2>1 DEF moved, Live
  <2>2. CASE x # s
    BY <1>1, <1>2, <1>3, <2>2
  <2> QED BY <2>1, <2>2
<1>4. ASSUME Tick PROVE moved
  BY <1>1, <1>2, <1>4 DEF Tick
<1>5. ASSUME NEW w \in Workers, NEW x \in Sids, Create(w, x)
      PROVE  \/ moved
             \/ /\ s \notin used /\ s \in used'
                /\ sessions'[s] = NewEntry(minted + 1, now)
                /\ minted' = minted + 1 /\ now' = now
  <2>1. /\ x \notin used /\ used' = used \cup {x} /\ minted' = minted + 1 /\ now' = now
        /\ sessions' = [sessions EXCEPT ![x] = NewEntry(minted + 1, now)]
    BY <1>5 DEF Create
  <2>2. CASE x = s
    BY <1>1, <2>1, <2>2
  <2>3. CASE x # s
    BY <1>1, <1>2, <2>1, <2>3
  <2> QED BY <2>2, <2>3
<1>6. ASSUME NEW w \in Workers, NEW x \in Sids, Tombstone(w, x) PROVE moved
  <2>1. /\ Live(x) /\ sessions[x].status = "alive" /\ minted' = minted /\ now' = now
        /\ sessions' = [sessions EXCEPT ![x] = Killed(sessions[x], now)]
    BY <1>6 DEF Tombstone, Killed
  <2>2. Moves(sessions[x], Killed(sessions[x], now), now, now, minted, minted')
    BY <2>1 DEF Moves
  <2> QED BY <1>1, <1>3, <2>1, <2>2 DEF Live
<1>7. ASSUME NEW x \in Sids, NEW status \in CustodyStatus, SetCustodyStatus(x, status)
      PROVE  moved
  <2> DEFINE f == [sessions[x] EXCEPT !.custody_status = status]
  <2>1. /\ Live(x) /\ sessions[x].custody_status # "dead"
        /\ minted' = minted /\ now' = now
        /\ sessions' = [sessions EXCEPT ![x] = f]
    BY <1>7 DEF SetCustodyStatus
  <2>2. Moves(sessions[x], f, now, now, minted, minted')
    BY <2>1 DEF Moves
  <2> HIDE DEF f
  <2> QED BY <1>1, <1>3, <2>1, <2>2 DEF Live
<1>8. ASSUME NEW w \in Workers, RefreshCoalesced(w) \/ RefreshRotated(w) PROVE moved
  <2> DEFINE x == index[call[w].tok]
             at == call[w].at
  <2>1. /\ x \in Sids /\ at \in Nat /\ Live(x)
        /\ ResolveAt(call[w].tok, at) \in {"active", "stale"}
        /\ call[w] # NULL
    BY <1>8, RefreshEntry DEF RefreshCoalesced, RefreshRotated
  <2>2. at <= now /\ now <= at + MaxStall
    BY <2>1 DEF ClocksOK
  <2>3. SessionExpiry(sessions[x], at) = NULL
    BY <2>1 DEF ResolveAt, Classify, Live
  <2>4. CASE RefreshCoalesced(w)
    <3>1. /\ sessions' = [sessions EXCEPT ![x] = Slide(sessions[x], at)]
          /\ minted' = minted /\ now' = now
      BY <2>4 DEF RefreshCoalesced
    <3> HIDE DEF x, at
    <3>2. Moves(sessions[x], Slide(sessions[x], at), at, now, minted, minted')
      BY <2>2, <2>3 DEF Moves
    <3> QED BY <1>1, <1>3, <2>1, <2>2, <3>1, <3>2 DEF Live
  <2>5. CASE RefreshRotated(w)
    <3>1. /\ sessions' = [sessions EXCEPT ![x] = Refreshed(sessions[x], minted + 1, at)]
          /\ minted' = minted + 1 /\ now' = now
          /\ ~ Coalesces(sessions[x], at)
      BY <2>5 DEF RefreshRotated, Refreshed
    <3> HIDE DEF x, at
    <3>2. Moves(sessions[x], Refreshed(sessions[x], minted + 1, at), at, now, minted, minted')
      BY <2>2, <2>3, <3>1 DEF Moves
    <3> QED BY <1>1, <1>3, <2>1, <2>2, <3>1, <3>2 DEF Live
  <2> QED BY <1>8, <2>4, <2>5
<1>9. ASSUME NEW x \in Sids, SweepReap(x) PROVE moved
  <2>1. /\ sweep # NULL /\ Live(x) /\ minted' = minted /\ now' = now
        /\ sessions' = [sessions EXCEPT ![x] = ReapGenerations(sessions[x], sweep.at)]
    BY <1>9 DEF SweepReap
  <2>2. sweep.at \in Nat /\ sweep.at <= now
    BY <2>1 DEF ClocksOK, IInv, TypeOK, Option
  <2>3. Moves(sessions[x], ReapGenerations(sessions[x], sweep.at), sweep.at, now, minted, minted')
    BY DEF Moves
  <2> QED BY <1>1, <1>3, <2>1, <2>2, <2>3 DEF Live
<1>10. ASSUME NEW x \in Sids, SweepRemove(x) PROVE moved
  <2>1. /\ minted' = minted /\ now' = now
        /\ sessions' = [sessions EXCEPT ![x] = NULL]
    BY <1>10 DEF SweepRemove
  <2>2. x # s
    BY <1>1, <2>1
  <2> QED BY <1>1, <1>2, <2>1, <2>2
<1>11. ASSUME UNCHANGED <<sessions, minted, now>> PROVE moved
  BY <1>1, <1>2, <1>11
<1>12. ASSUME NEW w \in Workers, HandlerNext(w) PROVE moved
  <2>1. CASE RefreshCoalesced(w) \/ RefreshRotated(w)
    BY <1>8, <2>1
  <2>2. CASE \/ FinishCreate(w) \/ RefreshDenied(w) \/ Apply(w) \/ Purge(w)
            \/ FinishRefresh(w) \/ FinishTombstone(w)
            \/ \E tok \in Tokens : BeginRefresh(w, tok)
    <3>1. UNCHANGED <<sessions, minted, now>>
      BY <2>2 DEF FinishCreate, RefreshDenied, Apply, Purge, FinishRefresh,
                  FinishTombstone, BeginRefresh
    <3> QED BY <1>11, <3>1
  <2> QED BY <1>12, <2>1, <2>2 DEF HandlerNext
<1>13. ASSUME SweepNext PROVE moved
  <2>1. CASE \E x \in Sids : SweepReap(x) \/ SweepRemove(x)
    BY <1>9, <1>10, <2>1
  <2>2. CASE \/ SweepStart \/ Purge(Sweeper) \/ SweepApplied \/ SweepEnd
            \/ \E x \in Sids : SweepMark(x)
    <3>1. UNCHANGED <<sessions, minted, now>>
      BY <2>2 DEF SweepStart, Purge, SweepApplied, SweepEnd, SweepMark
    <3> QED BY <1>11, <3>1
  <2> QED BY <1>13, <2>1, <2>2 DEF SweepNext
<1>14. ASSUME UNCHANGED vars PROVE moved
  BY <1>11, <1>14 DEF vars
<1> QED
  BY <1>4, <1>5, <1>6, <1>7, <1>12, <1>13, <1>14 DEF Next, moved

----------------------------------------------------------------------------
(***************************************************************************)
(* Every entry is sound and within the cap.                                *)
(***************************************************************************)
SoundEntries ==
    \A s \in Sids : Live(s) =>
        /\ Sound(sessions[s], minted, now)
        /\ Cardinality(sessions[s].gens) <= Cap

\* An entry that has not expired is alive.
LEMMA UsableAlive ==
  ASSUME NEW e \in SessionEntry, NEW t, SessionExpiry(e, t) = NULL
  PROVE  e.status = "alive"
<1>1. NULL # "logged_out"
  BY NullAssumption DEF ExpiredReason
<1> QED BY <1>1 DEF SessionExpiry, SessionEntry, SessionStatus

\* Soundness survives more tokens and a later clock.
LEMMA SoundMono ==
  ASSUME NEW e \in SessionEntry, NEW n \in Nat, NEW m \in Nat, NEW t \in Nat,
         NEW u \in Nat, n <= m, t <= u, Sound(e, n, t)
  PROVE  Sound(e, m, u)
<1>1. \A g \in e.gens : /\ g.created_at \in Nat
                        /\ g.superseded_at # NULL => g.superseded_at \in Nat
  BY DEF SessionEntry, Generation, Option
<1> QED BY <1>1 DEF Sound

\* A move keeps an entry sound; it adds no hash but the one just minted, and
\* never moves the absolute end.
LEMMA MoveSound ==
  ASSUME NEW e \in SessionEntry, NEW f, NEW t \in Nat, NEW u \in Nat,
         NEW n \in Nat, NEW m \in Nat, n <= m, t <= u,
         EntryOK(e, n), Sound(e, n, u), Cardinality(e.gens) <= Cap,
         Moves(e, f, t, u, n, m)
  PROVE  /\ Sound(f, m, u) /\ Cardinality(f.gens) <= Cap
         /\ \A k \in AllHashes(f) : k \in AllHashes(e) \/ (k = n + 1 /\ m = n + 1)
         /\ f.absolute_exp = e.absolute_exp
<1>1. CASE f = e
  BY <1>1, SoundMono
<1>2. CASE f = Slide(e, t)
  <2>1. Slide(e, t) \in SessionEntry
    BY SlideOK
  <2> QED BY <1>2, <2>1, SlideSound, SoundMono
<1>3. CASE f = Refreshed(e, n + 1, t) /\ m = n + 1 /\ SessionExpiry(e, t) = NULL
           /\ ~ Coalesces(e, t)
  <2>1. e.status = "alive"
    BY <1>3, UsableAlive
  <2> QED BY <1>3, <2>1, RefreshedSound
<1>4. CASE f = Killed(e, u)
  <2>1. /\ f.gens = e.gens /\ f.retired = e.retired
        /\ f.idle_exp = e.idle_exp /\ f.absolute_exp = e.absolute_exp
    BY <1>4 DEF Killed, SessionEntry
  <2>2. Sound(e, m, u)
    BY SoundMono
  <2> QED BY <2>1, <2>2 DEF Sound, AllHashes
<1>5. CASE \E status \in CustodyStatus : f = [e EXCEPT !.custody_status = status]
  <2>1. /\ f.gens = e.gens /\ f.retired = e.retired
        /\ f.idle_exp = e.idle_exp /\ f.absolute_exp = e.absolute_exp
    BY <1>5 DEF SessionEntry
  <2>2. Sound(e, m, u)
    BY SoundMono
  <2> QED BY <2>1, <2>2 DEF Sound, AllHashes
<1>6. CASE f = ReapGenerations(e, t)
  <2>1. ReapGenerations(e, t) \in SessionEntry
    BY ReapOK
  <2>2. Sound(f, n, u) /\ AllHashes(f) \subseteq AllHashes(e) /\ Cardinality(f.gens) <= Cap
    BY <1>6, ReapSound
  <2>3. f.absolute_exp = e.absolute_exp
    BY <1>6 DEF ReapGenerations, SessionEntry
  <2> QED BY <1>6, <2>1, <2>2, <2>3, SoundMono
<1> QED BY <1>1, <1>2, <1>3, <1>4, <1>5, <1>6 DEF Moves

LEMMA InitSound == Init => SoundEntries
BY DEF Init, SoundEntries, Live

LEMMA NextSound ==
  ASSUME IInv, IInv', ClocksOK, SoundEntries, [Next]_vars
  PROVE  SoundEntries'
<1> SUFFICES ASSUME NEW s \in Sids, Live(s)'
             PROVE  Sound(sessions[s], minted, now)' /\ (Cardinality(sessions[s].gens) <= Cap)'
  BY DEF SoundEntries
<1>1. minted \in Nat /\ now \in Nat /\ minted' \in Nat /\ now' \in Nat
  BY DEF IInv, TypeOK
<1>2. CASE sessions'[s] = NewEntry(minted + 1, now) /\ minted' = minted + 1 /\ now' = now
  BY <1>1, <1>2, NewEntrySound DEF Sound, Ordered, Rationed
<1>3. ASSUME Live(s), NEW t \in Nat, t <= now,
             Moves(sessions[s], sessions'[s], t, now, minted, minted'),
             minted <= minted', now' = now \/ now' = now + 1
      PROVE  Sound(sessions[s], minted, now)' /\ (Cardinality(sessions[s].gens) <= Cap)'
  <2>1. /\ sessions[s] \in SessionEntry /\ sessions'[s] \in SessionEntry
        /\ EntryOK(sessions[s], minted)
    BY <1>3 DEF IInv, TypeOK, EntriesOK, Live, Option
  <2>2. Sound(sessions'[s], minted', now) /\ Cardinality(sessions'[s].gens) <= Cap
    BY <1>1, <1>3, <2>1, MoveSound DEF SoundEntries
  <2>3. Sound(sessions'[s], minted', now')
    BY <1>1, <1>3, <2>1, <2>2, SoundMono
  <2> QED BY <2>2, <2>3 DEF Sound, Ordered, Rationed
<1> QED BY <1>2, <1>3, EntryMoves

\* The id of every session in the map was drawn.
Drawn == \A s \in Sids : Live(s) => s \in used

LEMMA NextDrawn == IInv /\ ClocksOK /\ Drawn /\ [Next]_vars => Drawn'
BY UsedGrows, EntryMoves DEF Drawn

\* What is true of every entry, and of every clock read.
Solid == IInv /\ ClocksOK /\ SoundEntries /\ Drawn

LEMMA InitSolid == Init => Solid
BY InitIInv, InitClocks, InitSound DEF Solid, Drawn, Init, Live

LEMMA NextSolid == Solid /\ [Next]_vars => Solid'
BY NextIInv, NextClocks, NextSound, NextDrawn DEF Solid

\* One step of a session that stays in the map.
LEMMA SolidMoves ==
  ASSUME Solid, [Next]_vars, NEW s \in Sids, Live(s), Live(s)'
  PROVE  /\ sessions[s] \in SessionEntry /\ sessions'[s] \in SessionEntry
         /\ EntryOK(sessions[s], minted)
         /\ Sound(sessions[s], minted, now) /\ Sound(sessions'[s], minted', now')
         /\ Cardinality(sessions[s].gens) <= Cap
         /\ now \in Nat /\ minted \in Nat /\ minted' \in Nat /\ minted <= minted'
         /\ \E t \in Nat :
               t <= now /\ Moves(sessions[s], sessions'[s], t, now, minted, minted')
         /\ now' = now \/ (now' = now + 1 /\ sessions' = sessions)
<1>1. Solid'
  BY NextSolid
<1>2. s \in used
  BY DEF Solid, Drawn
<1>3. /\ sessions[s] \in SessionEntry /\ sessions'[s] \in SessionEntry
      /\ EntryOK(sessions[s], minted) /\ Sound(sessions[s], minted, now)
      /\ Cardinality(sessions[s].gens) <= Cap
      /\ now \in Nat /\ minted \in Nat
  BY <1>1 DEF Solid, IInv, TypeOK, EntriesOK, SoundEntries, Live, Option
<1>4. Sound(sessions'[s], minted', now')
  BY <1>1 DEF Solid, SoundEntries, Sound, Ordered, Rationed
<1> QED BY <1>2, <1>3, <1>4, EntryMoves DEF Solid

\* No interleaving of refreshes and sweeps leaves a session more generations
\* than max_live_gens (INV-6).
THEOREM GenerationsWithinCap == Spec => []LiveGenerationsBounded
<1>1. Solid => LiveGenerationsBounded
  BY DEF Solid, SoundEntries, LiveGenerationsBounded
<1> QED BY <1>1, InitSolid, NextSolid, PTL DEF Spec

\* No refresh, whatever clock it read, moves a session's absolute end, and none
\* carries the idle end past it.
THEOREM AbsoluteEndKept == Spec => AbsoluteEndFixed
<1>1. ASSUME Solid, [Next]_vars, NEW s \in Sids, Live(s), Live(s)'
      PROVE  /\ sessions'[s].absolute_exp = sessions[s].absolute_exp
             /\ sessions'[s].idle_exp <= sessions'[s].absolute_exp
  BY <1>1, SolidMoves, MoveSound DEF Sound
<1>2. Solid /\ [Next]_vars =>
        [\A s \in Sids : Live(s) /\ Live(s)' =>
          /\ sessions'[s].absolute_exp = sessions[s].absolute_exp
          /\ sessions'[s].idle_exp <= sessions'[s].absolute_exp]_vars
  BY <1>1
<1> QED BY <1>2, InitSolid, NextSolid, PTL DEF Spec, AbsoluteEndFixed
----------------------------------------------------------------------------
(***************************************************************************)
(* What the cap takes.                                                     *)
(***************************************************************************)
\* A reaping at t keeps a generation that authenticates at t, or takes one that
\* is older than all it keeps.
LEMMA ReapTakesOldest ==
  ASSUME NEW e \in SessionEntry, NEW t \in Nat, NEW n, NEW m,
         EntryOK(e, n), Sound(e, n, m), NEW g \in e.gens, t < ResourceValidUntil(g)
  PROVE  \/ g \in ReapGenerations(e, t).gens
         \/ \A h \in ReapGenerations(e, t).gens : g.pos < h.pos /\ g.tok < h.tok
<1> DEFINE kept == e.gens \ Lapsed(e, t)
<1>1. ReapGenerations(e, t).gens = kept \ OverCap(kept)
  BY DEF ReapGenerations, SessionEntry, Retiring
<1>2. g.active_until \in Nat /\ (g.superseded_at # NULL => g.superseded_at \in Nat)
  BY DEF SessionEntry, Generation, Option
<1>3. ResourceValidUntil(g) \in Nat
  BY <1>2, PolicyAssumption DEF ResourceValidUntil, Earlier
<1>4. g \in kept
  BY <1>3 DEF Lapsed
<1>5. kept \in SUBSET Generation /\ IsFiniteSet(kept) /\ Ordered(kept)
  BY FS_Subset DEF SessionEntry, EntryOK, Sound, Ordered
<1> HIDE DEF kept
<1> QED BY <1>1, <1>4, <1>5, CapTakesOldest

\* The same for a whole refresh, where a generation that authenticates now is
\* superseded at t, not later than now.
LEMMA RefreshTakesOldest ==
  ASSUME NEW e \in SessionEntry, NEW t \in Nat, NEW n \in Nat, NEW u \in Nat, t <= u,
         EntryOK(e, n), Sound(e, n, u), e.status = "alive", ~ Coalesces(e, t),
         Grace > 0 \/ Coalesce > 0,
         NEW g \in e.gens, u < ResourceValidUntil(g)
  PROVE  \/ \E h \in Refreshed(e, n + 1, t).gens : h.tok = g.tok
         \/ \A h \in Refreshed(e, n + 1, t).gens : h.tok > g.tok
<1> DEFINE f == Rotated(e, n + 1, t)
           r == ReapGenerations(f, t)
<1>1. f \in SessionEntry /\ EntryOK(f, n + 1) /\ Sound(f, n + 1, u)
  BY RotatedOK, RotatedSound
<1>2. PICK c \in e.gens : IsCurrent(e, c)
  BY DEF EntryOK
<1> DEFINE top == NewGeneration(e.current_gen + 1, n + 1, t, c.pos + 1)
           old == [c EXCEPT !.superseded_at = t]
<1>3. /\ f.gens = (e.gens \ {c}) \cup {old, top}
      /\ Current(e) = c
      /\ old.tok = c.tok /\ old.superseded_at = t /\ old.active_until = c.active_until
      /\ top.tok = n + 1
      /\ f.current_gen = e.current_gen + 1
  <2>1. n + 1 \in Nat
    OBVIOUS
  <2> QED BY <1>2, <2>1, RotatedGens
<1> HIDE DEF f, top, old
<1>4. Refreshed(e, n + 1, t).gens = r.gens
  <2>1. r \in SessionEntry
    BY <1>1, ReapOK
  <2> QED BY <2>1 DEF Refreshed, Slide, f, SessionEntry
<1>5. /\ g \in Generation /\ g.active_until \in Nat /\ g.tok \in 1..n
      /\ g.superseded_at # NULL => g.superseded_at \in Nat
  BY DEF SessionEntry, Generation, Option, EntryOK
<1>6. ResourceValidUntil(g) \in Nat /\ t < ResourceValidUntil(g)
  BY <1>5, PolicyAssumption DEF ResourceValidUntil, Earlier
<1>7. \A h \in r.gens : h \in f.gens /\ h.tok \in Nat
  <2>1. r.gens \subseteq f.gens
    BY <1>1 DEF ReapGenerations, SessionEntry
  <2> QED BY <1>1, <2>1 DEF SessionEntry, Generation
<1>8. CASE g # c
  <2>1. g \in f.gens
    BY <1>3, <1>8
  <2>2. g \in r.gens \/ \A h \in r.gens : g.tok < h.tok
    BY <1>1, <1>6, <2>1, ReapTakesOldest
  <2> QED BY <1>4, <1>5, <1>7, <2>2
<1>9. CASE g = c /\ Grace > 0
  <2>1. t < ResourceValidUntil(old)
    <3>1. ResourceValidUntil(old) = Earlier(c.active_until, t + Grace)
      BY <1>3, NullAssumption DEF ResourceValidUntil
    <3>2. t < c.active_until
      BY <1>2, <1>5, <1>6, <1>9 DEF ResourceValidUntil, IsCurrent
    <3> QED BY <1>5, <1>9, <3>1, <3>2, PolicyAssumption DEF Earlier
  <2>2. old \in r.gens \/ \A h \in r.gens : old.tok < h.tok
    BY <1>1, <1>3, <2>1, ReapTakesOldest
  <2> QED BY <1>3, <1>4, <1>5, <1>7, <1>9, <2>2
<1>10. CASE g = c /\ Grace = 0 /\ Coalesce > 0
  <2>1. c.created_at \in Nat /\ c.created_at <= t
    <3>1. c.created_at \in Nat
      BY DEF SessionEntry, Generation
    <3>2. e.current_token # NULL
      BY DEF EntryOK
    <3> QED BY <1>3, <1>10, <3>1, <3>2, PolicyAssumption DEF Coalesces, Since
  <2>2. ASSUME NEW h \in e.gens \ {c} PROVE h \in Lapsed(f, t)
    <3>1. h.pos < c.pos /\ h.superseded_at # NULL /\ h.gen_no < c.gen_no
      BY <1>2 DEF IsCurrent
    <3>2. h.superseded_at <= c.created_at
      BY <1>10, <3>1 DEF EntryOK, Spaced
    <3>3. h.superseded_at \in Nat /\ h.active_until \in Nat /\ h.gen_no \in Nat
          /\ c.gen_no \in Nat
      BY <3>1 DEF SessionEntry, Generation, Option
    <3>4. t >= ResourceValidUntil(h)
      BY <1>10, <2>1, <3>1, <3>2, <3>3 DEF ResourceValidUntil, Earlier
    <3>5. h.gen_no # f.current_gen
      BY <1>2, <1>3, <3>1, <3>3 DEF IsCurrent
    <3> QED BY <1>3, <3>4, <3>5 DEF Lapsed
  <2>3. r.gens \subseteq {old, top}
    <3>1. r.gens = f.gens \ Retiring(f, t)
      BY <1>1 DEF ReapGenerations, SessionEntry
    <3> QED BY <1>3, <2>2, <3>1 DEF Retiring
  <2>4. CASE old \in r.gens
    BY <1>3, <1>4, <1>10, <2>4
  <2>5. CASE old \notin r.gens
    BY <1>3, <1>4, <1>5, <2>3, <2>5
  <2> QED BY <2>4, <2>5
<1> QED BY <1>8, <1>9, <1>10, PolicyAssumption

\* Where the cap is narrower than the grace window, what it takes from a cookie
\* it takes from the oldest.  (With no grace and no coalescing at all, a refresh
\* that read the clock before the previous one may end its own cookie first.)
THEOREM CapTakesOldestFirst ==
    Grace > 0 \/ Coalesce > 0 => (Spec => CapTakesTheOldest)
<1> SUFFICES ASSUME Grace > 0 \/ Coalesce > 0 PROVE Spec => CapTakesTheOldest
  OBVIOUS
<1>1. ASSUME Solid, [Next]_vars, NEW s \in Sids, Live(s), Live(s)',
             NEW g \in sessions[s].gens, now < ResourceValidUntil(g)
      PROVE  \/ \E h \in sessions'[s].gens : h.tok = g.tok
             \/ \A h \in sessions'[s].gens : h.tok > g.tok
  <2> DEFINE e == sessions[s]
             f == sessions'[s]
             n == minted
  <2>1. /\ e \in SessionEntry /\ f \in SessionEntry /\ EntryOK(e, n) /\ Sound(e, n, now)
        /\ now \in Nat /\ n \in Nat
    BY <1>1, SolidMoves
  <2>2. PICK t \in Nat : t <= now /\ Moves(e, f, t, now, n, minted')
    BY <1>1, SolidMoves
  <2> HIDE DEF e, f, n
  <2>3. CASE f.gens = e.gens
    BY <1>1, <2>3 DEF e, f
  <2>4. CASE f = Refreshed(e, n + 1, t) /\ SessionExpiry(e, t) = NULL /\ ~ Coalesces(e, t)
    <3>1. e.status = "alive"
      BY <2>1, <2>4, UsableAlive
    <3>2. g \in e.gens
      BY <1>1 DEF e
    <3>3. \/ \E h \in f.gens : h.tok = g.tok
          \/ \A h \in f.gens : h.tok > g.tok
      BY <1>1, <2>1, <2>2, <2>4, <3>1, <3>2, RefreshTakesOldest
    <3> QED BY <3>3 DEF f
  <2>5. CASE f = ReapGenerations(e, t)
    <3>1. g \in e.gens /\ g.tok \in Nat /\ g.active_until \in Nat
          /\ (g.superseded_at # NULL => g.superseded_at \in Nat)
      BY <1>1, <2>1 DEF e, SessionEntry, Generation, Option
    <3>2. t < ResourceValidUntil(g)
      BY <1>1, <2>1, <2>2, <3>1, PolicyAssumption DEF ResourceValidUntil, Earlier
    <3>3. g \in f.gens \/ \A h \in f.gens : g.tok < h.tok
      BY <2>1, <2>5, <3>1, <3>2, ReapTakesOldest
    <3>4. \A h \in f.gens : h.tok \in Nat
      BY <2>1 DEF SessionEntry, Generation
    <3> QED BY <3>1, <3>3, <3>4 DEF f
  <2>6. CASE \/ f = e \/ f = Slide(e, t) \/ f = Killed(e, now)
            \/ \E status \in CustodyStatus : f = [e EXCEPT !.custody_status = status]
    <3>1. f.gens = e.gens
      BY <2>1, <2>6 DEF Slide, Killed, SessionEntry
    <3> QED BY <2>3, <3>1
  <2> QED BY <2>2, <2>4, <2>5, <2>6 DEF Moves
<1>2. Solid /\ [Next]_vars =>
        [\A s \in Sids : Live(s) /\ Live(s)' =>
          \A g \in sessions[s].gens :
             now < ResourceValidUntil(g) =>
                \/ \E h \in sessions'[s].gens : h.tok = g.tok
                \/ \A h \in sessions'[s].gens : h.tok > g.tok]_vars
  BY <1>1
<1> QED BY <1>2, InitSolid, NextSolid, PTL DEF Spec, CapTakesTheOldest
----------------------------------------------------------------------------
(***************************************************************************)
(* Where each token is: in the entry of one session, in the index, with a  *)
(* worker that has not reached apply, or on the list of what to purge.     *)
(***************************************************************************)
\* Worker w has minted a token and dropped the lock before indexing it.
Minting(w) ==
    /\ pending[w] # NULL
    /\ pending[w].added # NULL
    /\ ~ pending[w].created

\* A worker is before its lock section or after it.
OneThing == \A w \in Workers : call[w] = NULL \/ pending[w] = NULL

\* A worker that kills a session does nothing else in the same call.
KillsOnly ==
    \A a \in Actors : pending[a] # NULL /\ pending[a].tombstone =>
        ~ pending[a].created /\ pending[a].added = NULL /\ pending[a].progress = NULL

Hands == OneThing /\ KillsOnly

\* No two sessions have a claim on the same hash.
Disjoint ==
    \A s, x \in Sids : Live(s) /\ Live(x) /\ s # x =>
        AllHashes(sessions[s]) \cap AllHashes(sessions[x]) = {}

\* What is about to be purged is in no vector any more.
PurgedGone ==
    \A a \in Actors : pending[a] # NULL =>
        \A r \in pending[a].purged :
            /\ r.tok \in 1..minted
            /\ \A s \in Sids : Live(s) => \A g \in sessions[s].gens : g.tok # r.tok

\* A token on its way to the index is nobody else's.
MintingOK ==
    \A w \in Workers : Minting(w) =>
        /\ pending[w].added.tok \in 1..minted
        /\ index[pending[w].added.tok] = NULL
        /\ \A s \in Sids :
              Live(s) /\ pending[w].added.tok \in AllHashes(sessions[s])
                => s = pending[w].sid
        /\ \A x \in Workers :
              Minting(x) /\ pending[x].added.tok = pending[w].added.tok => x = w

IndexMinted == \A t \in Tokens : index[t] # NULL => t \in 1..minted

\* Every generation is indexed, or about to be.
Indexed ==
    \A s \in Sids : Live(s) =>
        \A g \in sessions[s].gens :
            \/ index[g.tok] = s
            \/ \E w \in Workers : Minting(w) /\ pending[w].added.tok = g.tok

Tracked == Hands /\ Disjoint /\ PurgedGone /\ MintingOK /\ IndexMinted /\ Indexed

\* The hashes of an entry were minted.
LEMMA HashesMinted ==
  ASSUME Solid, NEW s \in Sids, Live(s)
  PROVE  AllHashes(sessions[s]) \subseteq 1..minted
BY DEF Solid, SoundEntries, Sound, IInv, EntriesOK, EntryOK, AllHashes

\* The tokens of a vector after a move: some of those before it, and the one
\* just minted if the move rotates.
LEMMA MoveToks ==
  ASSUME NEW e \in SessionEntry, NEW f, NEW t \in Nat, NEW u, NEW n \in Nat,
         NEW m, EntryOK(e, n), Moves(e, f, t, u, n, m)
  PROVE  \A g \in f.gens : (\E h \in e.gens : h.tok = g.tok) \/ (g.tok = n + 1 /\ m = n + 1)
<1>1. CASE \/ f = e \/ f = Slide(e, t) \/ f = Killed(e, u)
          \/ \E status \in CustodyStatus : f = [e EXCEPT !.custody_status = status]
  <2>1. f.gens = e.gens
    BY <1>1 DEF Slide, Killed, SessionEntry
  <2> QED BY <2>1
<1>2. CASE f = ReapGenerations(e, t)
  <2>1. f.gens \subseteq e.gens
    BY <1>2 DEF ReapGenerations, SessionEntry
  <2> QED BY <2>1
<1>3. CASE f = Refreshed(e, n + 1, t) /\ m = n + 1 /\ SessionExpiry(e, t) = NULL
           /\ ~ Coalesces(e, t)
  <2> DEFINE x == Rotated(e, n + 1, t)
             y == ReapGenerations(x, t)
  <2>1. e.status = "alive"
    BY <1>3, UsableAlive
  <2>2. x \in SessionEntry /\ EntryOK(x, n + 1)
    BY <1>3, <2>1, RotatedOK
  <2>3. PICK c \in e.gens : IsCurrent(e, c)
    BY DEF EntryOK
  <2>4. \A g \in x.gens : g.tok = n + 1 \/ \E h \in e.gens : h.tok = g.tok
    <3> DEFINE old == [c EXCEPT !.superseded_at = t]
               top == NewGeneration(e.current_gen + 1, n + 1, t, c.pos + 1)
    <3>1. n + 1 \in Nat
      OBVIOUS
    <3>2. /\ x.gens = (e.gens \ {c}) \cup {old, top}
          /\ old.tok = c.tok /\ top.tok = n + 1
      BY <2>3, <3>1, RotatedGens
    <3> HIDE DEF x, old, top
    <3> QED BY <3>2
  <2> HIDE DEF x
  <2>5. y \in SessionEntry /\ y.gens \subseteq x.gens
    BY <2>2, ReapOK DEF ReapGenerations, SessionEntry
  <2> HIDE DEF y
  <2>6. f.gens = y.gens
    BY <1>3, <2>5 DEF Refreshed, Slide, SessionEntry, x, y
  <2> QED BY <1>3, <2>4, <2>5, <2>6
<1> QED BY <1>1, <1>2, <1>3 DEF Moves

LEMMA InitTracked == Init => Tracked
BY DEF Init, Tracked, Hands, OneThing, KillsOnly, Disjoint, PurgedGone, MintingOK, IndexMinted, Indexed,
       Minting, Live, Actors

\* Nothing the invariant speaks of changes.
LEMMA TrackedSame ==
  ASSUME Tracked, UNCHANGED <<sessions, index, pending, minted>>, Hands'
  PROVE  Tracked'
BY DEF Tracked, Disjoint, PurgedGone, MintingOK, IndexMinted, Indexed, Minting, Live

\* One entry makes a move that mints nothing; its mover may have tokens to
\* purge afterwards.
LEMMA TrackedMove ==
  ASSUME Solid, Tracked, Hands', NEW x \in Sids, NEW a \in Actors, NEW t \in Nat, t <= now,
         Live(x), Live(x)',
         \A s \in Sids : s # x => sessions'[s] = sessions[s],
         Moves(sessions[x], sessions'[x], t, now, minted, minted),
         minted' = minted, index' = index,
         \A b \in Actors : b # a => pending'[b] = pending[b],
         \/ pending' = pending
         \/ /\ pending[a] = NULL /\ pending'[a] # NULL /\ pending'[a].added = NULL
            /\ \A r \in pending'[a].purged :
                  /\ r.tok \in AllHashes(sessions[x])
                  /\ \A g \in sessions'[x].gens : g.tok # r.tok
  PROVE  Tracked'
<1>1. /\ sessions[x] \in SessionEntry /\ minted \in Nat /\ now \in Nat
      /\ EntryOK(sessions[x], minted) /\ Sound(sessions[x], minted, now)
      /\ Cardinality(sessions[x].gens) <= Cap
  BY DEF Solid, IInv, TypeOK, EntriesOK, SoundEntries, Live, Option
<1>2. AllHashes(sessions'[x]) \subseteq AllHashes(sessions[x])
  <2>1. \A k \in AllHashes(sessions'[x]) :
           k \in AllHashes(sessions[x]) \/ (k = minted + 1 /\ minted = minted + 1)
    <3> DEFINE e == sessions[x]
               f == sessions'[x]
               n == minted
    <3>1. /\ e \in SessionEntry /\ n \in Nat /\ now \in Nat /\ n <= n
          /\ EntryOK(e, n) /\ Sound(e, n, now) /\ Cardinality(e.gens) <= Cap
          /\ Moves(e, f, t, now, n, n)
      BY <1>1
    <3> HIDE DEF e, f, n
    <3>2. \A k \in AllHashes(f) : k \in AllHashes(e) \/ (k = n + 1 /\ n = n + 1)
      BY <3>1, MoveSound, SMTT(30)
    <3> QED BY <3>2 DEF e, f, n
  <2> QED BY <1>1, <2>1
<1>3. \A g \in sessions'[x].gens : \E h \in sessions[x].gens : h.tok = g.tok
  BY <1>1, MoveToks
<1>4. AllHashes(sessions[x]) \subseteq 1..minted
  BY HashesMinted
<1>5. \A s \in Sids : Live(s)' <=> Live(s)
  BY DEF Live
<1>6. \A w \in Workers : /\ Minting(w)' <=> Minting(w)
                         /\ Minting(w) => pending'[w] = pending[w]
  BY DEF Minting, Actors
<1>7. Disjoint'
  <2>1. ASSUME NEW s \in Sids, Live(s)'
        PROVE  Live(s) /\ AllHashes(sessions'[s]) \subseteq AllHashes(sessions[s])
    BY <1>2, <1>5, <2>1
  <2>2. \A s, y \in Sids : (Live(s) /\ Live(y) /\ s # y)' =>
           AllHashes(sessions'[s]) \cap AllHashes(sessions'[y]) = {}
    BY <2>1 DEF Tracked, Disjoint
  <2> QED BY <2>2 DEF Disjoint, AllHashes
<1>8. PurgedGone'
  <2> SUFFICES ASSUME NEW b \in Actors, pending'[b] # NULL, NEW r \in pending'[b].purged
               PROVE  /\ r.tok \in 1..minted
                      /\ \A s \in Sids : Live(s) =>
                            \A g \in sessions'[s].gens : g.tok # r.tok
    BY <1>5 DEF PurgedGone
  <2>1. CASE pending'[b] = pending[b]
    BY <1>3, <2>1 DEF Tracked, PurgedGone
  <2>2. CASE pending'[b] # pending[b]
    <3>1. /\ b = a /\ r.tok \in AllHashes(sessions[x])
          /\ \A g \in sessions'[x].gens : g.tok # r.tok
      BY <2>2
    <3>2. \A s \in Sids : Live(s) /\ s # x => r.tok \notin AllHashes(sessions[s])
      BY <3>1 DEF Tracked, Disjoint
    <3> QED BY <1>4, <3>1, <3>2 DEF AllHashes
  <2> QED BY <2>1, <2>2
<1>9. MintingOK'
  <2> SUFFICES ASSUME NEW w \in Workers, Minting(w)
               PROVE  /\ pending[w].added.tok \in 1..minted
                      /\ index[pending[w].added.tok] = NULL
                      /\ \A s \in Sids :
                            Live(s) /\ pending[w].added.tok \in AllHashes(sessions'[s])
                              => s = pending[w].sid
                      /\ \A y \in Workers :
                            Minting(y) /\ pending[y].added.tok = pending[w].added.tok
                              => y = w
    BY <1>5, <1>6 DEF MintingOK, AllHashes
  <2> QED BY <1>2 DEF Tracked, MintingOK
<1>10. IndexMinted'
  BY DEF Tracked, IndexMinted
<1>11. Indexed'
  <2> SUFFICES ASSUME NEW s \in Sids, Live(s), NEW g \in sessions'[s].gens
               PROVE  \/ index[g.tok] = s
                      \/ \E w \in Workers : Minting(w) /\ pending[w].added.tok = g.tok
    BY <1>5, <1>6 DEF Indexed
  <2>1. \E h \in sessions[s].gens : h.tok = g.tok
    BY <1>3
  <2> QED BY <2>1 DEF Tracked, Indexed
<1> QED BY <1>7, <1>8, <1>9, <1>10, <1>11 DEF Tracked
\* A worker's rotating refresh: the token it mints is its own until apply.
LEMMA TrackedRotate ==
  ASSUME Solid, Tracked, Hands', NEW x \in Sids, NEW w \in Workers, NEW t \in Nat, t <= now,
         Live(x), Live(x)', pending[w] = NULL,
         \A s \in Sids : s # x => sessions'[s] = sessions[s],
         sessions'[x] = Refreshed(sessions[x], minted + 1, t),
         ~ Coalesces(sessions[x], t), SessionExpiry(sessions[x], t) = NULL,
         minted < MaxTokens, minted' = minted + 1, index' = index,
         \A b \in Actors : b # w => pending'[b] = pending[b],
         pending'[w] # NULL, pending'[w].sid = x, ~ pending'[w].created,
         pending'[w].added # NULL, pending'[w].added.tok = minted + 1,
         pending'[w].purged = Purged(Rotated(sessions[x], minted + 1, t), t)
  PROVE  Tracked'
<1> DEFINE e == sessions[x]
           f == sessions'[x]
           n == minted
<1>1. /\ e \in SessionEntry /\ n \in Nat /\ now \in Nat
      /\ EntryOK(e, n) /\ Sound(e, n, now) /\ n + 1 \in Tokens
      /\ index \in [Tokens -> Option(Sids)]
  BY MapAssumption DEF Solid, IInv, TypeOK, EntriesOK, SoundEntries, Live, Option, Tokens
<1>2. /\ f = Refreshed(e, n + 1, t) /\ e.status = "alive" /\ ~ Coalesces(e, t)
      /\ SessionExpiry(e, t) = NULL
  BY <1>1, UsableAlive
<1>3. pending'[w].purged = Purged(Rotated(e, n + 1, t), t)
  OBVIOUS
<1>4. /\ AllHashes(e) \subseteq 1..n
      /\ \A s \in Sids : s # x /\ Live(s) =>
            /\ AllHashes(sessions[s]) \subseteq 1..n
            /\ AllHashes(sessions[s]) \cap AllHashes(e) = {}
  BY HashesMinted DEF Tracked, Disjoint
<1> HIDE DEF e, f, n
<1>5. /\ AllHashes(f) \subseteq AllHashes(e) \cup {n + 1}
      /\ \A r \in Purged(Rotated(e, n + 1, t), t) :
            /\ r.tok \in AllHashes(e) \cup {n + 1}
            /\ \A g \in f.gens : g.tok # r.tok
  BY <1>1, <1>2, RefreshedSound
<1>6. \A g \in f.gens : g.tok = n + 1 \/ \E h \in e.gens : h.tok = g.tok
  <2>1. Moves(e, f, t, t, n, n + 1)
    <3>1. t <= t + MaxStall
      BY MapAssumption
    <3> QED BY <1>2, <3>1 DEF Moves
  <2> QED BY <1>1, <2>1, MoveToks
<1>7. \A s \in Sids : Live(s)' <=> Live(s)
  BY DEF Live
<1>8. /\ \A y \in Workers : y # w => (Minting(y)' <=> Minting(y)) /\ pending'[y] = pending[y]
      /\ Minting(w)' /\ ~ Minting(w)
  BY DEF Minting, Actors
<1>9. index[n + 1] = NULL /\ minted' = n + 1 /\ minted = n /\ n + 1 \notin 1..n
  BY <1>1 DEF Tracked, IndexMinted, n
<1>10. Disjoint'
  <2>1. \A s, y \in Sids : (Live(s) /\ Live(y) /\ s # y)' =>
           AllHashes(sessions'[s]) \cap AllHashes(sessions'[y]) = {}
    BY <1>4, <1>5, <1>7, <1>9 DEF Tracked, Disjoint, f
  <2> QED BY <2>1 DEF Disjoint, AllHashes
<1>11. PurgedGone'
  <2> SUFFICES ASSUME NEW b \in Actors, pending'[b] # NULL, NEW r \in pending'[b].purged
               PROVE  /\ r.tok \in 1..(n + 1)
                      /\ \A s \in Sids : Live(s) =>
                            \A g \in sessions'[s].gens : g.tok # r.tok
    BY <1>7, <1>9 DEF PurgedGone
  <2>1. CASE b # w
    <3>1. /\ r.tok \in 1..n
          /\ \A s \in Sids : Live(s) => \A g \in sessions[s].gens : g.tok # r.tok
      BY <1>9, <2>1 DEF Tracked, PurgedGone
    <3>2. \A g \in f.gens : g.tok # r.tok
      BY <1>6, <1>9, <3>1 DEF e
    <3> QED BY <1>1, <3>1, <3>2 DEF f
  <2>2. CASE b = w
    <3>1. /\ r.tok \in AllHashes(e) \cup {n + 1}
          /\ \A g \in f.gens : g.tok # r.tok
      BY <1>3, <1>5, <2>2
    <3>2. \A s \in Sids : Live(s) /\ s # x => r.tok \notin AllHashes(sessions[s])
      BY <1>4, <1>9, <3>1
    <3> QED BY <1>1, <1>4, <3>1, <3>2 DEF AllHashes, f
  <2> QED BY <2>1, <2>2
<1>12. MintingOK'
  <2> SUFFICES ASSUME NEW y \in Workers, Minting(y)'
               PROVE  /\ pending'[y].added.tok \in 1..(n + 1)
                      /\ index[pending'[y].added.tok] = NULL
                      /\ \A s \in Sids :
                            Live(s) /\ pending'[y].added.tok \in AllHashes(sessions'[s])
                              => s = pending'[y].sid
                      /\ \A z \in Workers :
                            Minting(z)' /\ pending'[z].added.tok = pending'[y].added.tok
                              => z = y
    BY <1>7, <1>9 DEF MintingOK, AllHashes
  <2>1. \A z \in Workers : z # w /\ Minting(z) => pending[z].added.tok \in 1..n
    BY <1>9 DEF Tracked, MintingOK
  <2>2. CASE y = w
    <3>1. pending'[y].added.tok = n + 1 /\ pending'[y].sid = x
      BY <2>2 DEF n
    <3> QED BY <1>1, <1>4, <1>8, <1>9, <2>1, <2>2, <3>1
  <2>3. CASE y # w
    <3>1. Minting(y) /\ pending'[y] = pending[y]
      BY <1>8, <2>3
    <3>2. /\ pending[y].added.tok \in 1..n
          /\ index[pending[y].added.tok] = NULL
          /\ \A s \in Sids :
                Live(s) /\ pending[y].added.tok \in AllHashes(sessions[s])
                  => s = pending[y].sid
          /\ \A z \in Workers :
                Minting(z) /\ pending[z].added.tok = pending[y].added.tok => z = y
      BY <1>9, <3>1 DEF Tracked, MintingOK
    <3>3. pending'[w].added.tok = n + 1
      BY DEF n
    <3>4. pending[y].added.tok \in AllHashes(f) => pending[y].added.tok \in AllHashes(e)
      BY <1>5, <1>9, <3>2
    <3>5. \A s \in Sids :
             Live(s) /\ pending[y].added.tok \in AllHashes(sessions'[s])
               => s = pending[y].sid
      BY <3>2, <3>4 DEF e, f
    <3> QED BY <1>1, <1>8, <1>9, <3>1, <3>2, <3>3, <3>5
  <2> QED BY <2>2, <2>3
<1>13. IndexMinted'
  BY <1>1, <1>9 DEF Tracked, IndexMinted
<1>14. Indexed'
  <2> SUFFICES ASSUME NEW s \in Sids, Live(s), NEW g \in sessions'[s].gens
               PROVE  \/ index[g.tok] = s
                      \/ \E y \in Workers : Minting(y)' /\ pending'[y].added.tok = g.tok
    BY <1>7 DEF Indexed
  <2>1. CASE \E h \in sessions[s].gens : h.tok = g.tok
    <3>1. \/ index[g.tok] = s
          \/ \E y \in Workers : Minting(y) /\ pending[y].added.tok = g.tok
      BY <2>1 DEF Tracked, Indexed
    <3> QED BY <1>8, <3>1
  <2>2. CASE s = x /\ g.tok = n + 1
    <3>1. pending'[w].added.tok = n + 1
      BY DEF n
    <3> QED BY <1>8, <2>2, <3>1
  <2> QED BY <1>6, <2>1, <2>2 DEF e, f
<1> QED BY <1>10, <1>11, <1>12, <1>13, <1>14 DEF Tracked

\* A finished login: its session's only token is indexed at once.
LEMMA TrackedCreate ==
  ASSUME Solid, Tracked, Hands', NEW x \in Sids, NEW w \in Workers, ~ Live(x),
         pending[w] = NULL,
         \A s \in Sids : s # x => sessions'[s] = sessions[s],
         sessions'[x] = NewEntry(minted + 1, now),
         minted < MaxTokens, minted' = minted + 1,
         index' = [index EXCEPT ![minted + 1] = x],
         \A b \in Actors : b # w => pending'[b] = pending[b],
         pending'[w] # NULL, pending'[w].created, pending'[w].purged = {}
  PROVE  Tracked'
<1> DEFINE f == sessions'[x]
           n == minted
<1>1. n \in Nat /\ now \in Nat /\ n + 1 \in Tokens /\ index \in [Tokens -> Option(Sids)]
  BY MapAssumption DEF Solid, IInv, TypeOK, Tokens
<1>2. f = NewEntry(n + 1, now)
  OBVIOUS
<1>3. \A s \in Sids : Live(s) => AllHashes(sessions[s]) \subseteq 1..n
  BY HashesMinted
<1>4. minted = n /\ minted' = n + 1 /\ n + 1 \notin 1..n
  BY <1>1
<1> HIDE DEF f, n
<1>5. AllHashes(f) = {n + 1} /\ \A g \in f.gens : g.tok = n + 1
  <2>1. AllHashes(f) = {n + 1}
    BY <1>1, <1>2, NewEntrySound
  <2> QED BY <2>1 DEF AllHashes
<1>6. \A s \in Sids : s # x => (Live(s)' <=> Live(s))
  BY DEF Live
<1>7. /\ \A y \in Workers : y # w => (Minting(y)' <=> Minting(y)) /\ pending'[y] = pending[y]
      /\ ~ Minting(w)' /\ ~ Minting(w)
  BY DEF Minting, Actors
<1>8. index'[n + 1] = x /\ \A k \in Tokens : k # n + 1 => index'[k] = index[k]
  BY <1>1, <1>4
<1>9. Disjoint'
  <2>1. \A s, y \in Sids : (Live(s) /\ Live(y) /\ s # y)' =>
           AllHashes(sessions'[s]) \cap AllHashes(sessions'[y]) = {}
    BY <1>3, <1>4, <1>5, <1>6 DEF Tracked, Disjoint, f
  <2> QED BY <2>1 DEF Disjoint, AllHashes
<1>10. PurgedGone'
  <2> SUFFICES ASSUME NEW b \in Actors, pending'[b] # NULL, NEW r \in pending'[b].purged
               PROVE  /\ r.tok \in 1..(n + 1)
                      /\ \A s \in Sids : Live(s)' =>
                            \A g \in sessions'[s].gens : g.tok # r.tok
    BY <1>4 DEF PurgedGone
  <2>1. /\ b # w /\ r.tok \in 1..n
        /\ \A s \in Sids : Live(s) => \A g \in sessions[s].gens : g.tok # r.tok
    BY <1>4 DEF Tracked, PurgedGone
  <2>2. \A g \in f.gens : g.tok # r.tok
    BY <1>4, <1>5, <2>1
  <2> QED BY <1>1, <1>6, <2>1, <2>2 DEF f
<1>11. MintingOK'
  <2> SUFFICES ASSUME NEW y \in Workers, Minting(y)'
               PROVE  /\ pending'[y].added.tok \in 1..(n + 1)
                      /\ index'[pending'[y].added.tok] = NULL
                      /\ \A s \in Sids :
                            Live(s)' /\ pending'[y].added.tok \in AllHashes(sessions'[s])
                              => s = pending'[y].sid
                      /\ \A z \in Workers :
                            Minting(z)' /\ pending'[z].added.tok = pending'[y].added.tok
                              => z = y
    BY <1>4 DEF MintingOK, AllHashes
  <2>1. y # w /\ Minting(y) /\ pending'[y] = pending[y]
    BY <1>7
  <2>2. /\ pending[y].added.tok \in 1..n
        /\ index[pending[y].added.tok] = NULL
        /\ \A s \in Sids :
              Live(s) /\ pending[y].added.tok \in AllHashes(sessions[s])
                => s = pending[y].sid
        /\ \A z \in Workers :
              Minting(z) /\ pending[z].added.tok = pending[y].added.tok => z = y
    BY <1>4, <2>1 DEF Tracked, MintingOK
  <2>3. pending[y].added.tok \in Tokens /\ pending[y].added.tok # n + 1
    BY <1>1, <2>2, MapAssumption DEF Tokens
  <2>4. \A s \in Sids :
           Live(s)' /\ pending[y].added.tok \in AllHashes(sessions'[s]) => s = pending[y].sid
    BY <1>5, <1>6, <2>2, <2>3 DEF f
  <2> QED BY <1>1, <1>7, <1>8, <2>1, <2>2, <2>3, <2>4
<1>12. IndexMinted'
  BY <1>1, <1>4, <1>8 DEF Tracked, IndexMinted
<1>13. Indexed'
  <2> SUFFICES ASSUME NEW s \in Sids, Live(s)', NEW g \in sessions'[s].gens
               PROVE  \/ index'[g.tok] = s
                      \/ \E y \in Workers : Minting(y)' /\ pending'[y].added.tok = g.tok
    BY DEF Indexed
  <2>1. CASE s # x
    <3>1. /\ Live(s) /\ g \in sessions[s].gens
          /\ \/ index[g.tok] = s
             \/ \E y \in Workers : Minting(y) /\ pending[y].added.tok = g.tok
      BY <1>6, <2>1 DEF Tracked, Indexed
    <3>2. g.tok \in 1..n
      BY <1>3, <3>1 DEF AllHashes
    <3>3. g.tok \in Tokens /\ g.tok # n + 1
      BY <1>1, <3>2, MapAssumption DEF Tokens
    <3> QED BY <1>7, <1>8, <3>1, <3>3
  <2>2. CASE s = x
    BY <1>5, <1>8, <2>2 DEF f
  <2> QED BY <2>1, <2>2
<1> QED BY <1>9, <1>10, <1>11, <1>12, <1>13 DEF Tracked
\* SessionMap::apply: the minted token reaches the index.
LEMMA TrackedApply ==
  ASSUME Solid, Tracked, Hands', NEW w \in Workers, Apply(w)
  PROVE  Tracked'
<1> DEFINE k == pending[w].added.tok
           x == pending[w].sid
<1>1. /\ Minting(w) /\ pending[w] \in Pending
      /\ index' = [index EXCEPT ![k] = x]
      /\ pending' = [pending EXCEPT ![w].added = NULL, ![w].superseded = NULL]
      /\ UNCHANGED <<sessions, minted>>
  BY DEF Apply, Minting, Solid, IInv, TypeOK, Actors, Option
<1>2. /\ k \in 1..minted /\ index[k] = NULL /\ x \in Sids /\ k \in Tokens
      /\ \A s \in Sids : Live(s) /\ k \in AllHashes(sessions[s]) => s = x
      /\ \A y \in Workers : Minting(y) /\ pending[y].added.tok = k => y = w
  <2>1. minted \in 0..MaxTokens
    BY DEF Solid, IInv, TypeOK
  <2> QED BY <1>1, <2>1, MapAssumption DEF Tracked, MintingOK, Pending, Tokens
<1>3. index \in [Tokens -> Option(Sids)] /\ pending \in [Actors -> Option(Pending)]
  BY DEF Solid, IInv, TypeOK
<1> HIDE DEF k, x
<1>4. /\ \A b \in Actors : b # w => pending'[b] = pending[b]
      /\ pending'[w] # NULL => pending'[w].added = NULL /\ pending'[w].purged = pending[w].purged
      /\ pending[w] # NULL
  <2>1. pending'[w] = [pending[w] EXCEPT !.added = NULL, !.superseded = NULL]
    BY <1>1, <1>3 DEF Actors
  <2>2. pending'[w].added = NULL /\ pending'[w].purged = pending[w].purged
    BY <1>1, <2>1 DEF Pending
  <2> QED BY <1>1, <1>3, <2>2 DEF Minting
<1>5. /\ \A y \in Workers : y # w => (Minting(y)' <=> Minting(y)) /\ pending'[y] = pending[y]
      /\ ~ Minting(w)'
  BY <1>4 DEF Minting, Actors
<1>6. index'[k] = x /\ \A j \in Tokens : j # k => index'[j] = index[j]
  BY <1>1, <1>2, <1>3
<1>7. \A s \in Sids : Live(s)' <=> Live(s)
  BY <1>1 DEF Live
<1>8. Disjoint'
  BY <1>1, <1>7 DEF Tracked, Disjoint, AllHashes
<1>9. PurgedGone'
  <2> SUFFICES ASSUME NEW b \in Actors, pending'[b] # NULL, NEW r \in pending'[b].purged
               PROVE  /\ r.tok \in 1..minted
                      /\ \A s \in Sids : Live(s) =>
                            \A g \in sessions[s].gens : g.tok # r.tok
    BY <1>1, <1>7 DEF PurgedGone
  <2>1. pending[b] # NULL /\ r \in pending[b].purged
    BY <1>4
  <2> QED BY <2>1 DEF Tracked, PurgedGone
<1>10. MintingOK'
  <2> SUFFICES ASSUME NEW y \in Workers, Minting(y)'
               PROVE  /\ pending'[y].added.tok \in 1..minted
                      /\ index'[pending'[y].added.tok] = NULL
                      /\ \A s \in Sids :
                            Live(s) /\ pending'[y].added.tok \in AllHashes(sessions[s])
                              => s = pending'[y].sid
                      /\ \A z \in Workers :
                            Minting(z)' /\ pending'[z].added.tok = pending'[y].added.tok
                              => z = y
    BY <1>1, <1>7 DEF MintingOK, AllHashes
  <2>1. y # w /\ Minting(y) /\ pending'[y] = pending[y]
    BY <1>5
  <2>2. /\ pending[y].added.tok \in 1..minted
        /\ index[pending[y].added.tok] = NULL
        /\ \A s \in Sids :
              Live(s) /\ pending[y].added.tok \in AllHashes(sessions[s])
                => s = pending[y].sid
        /\ \A z \in Workers :
              Minting(z) /\ pending[z].added.tok = pending[y].added.tok => z = y
    BY <2>1 DEF Tracked, MintingOK
  <2>3. pending[y].added.tok # k /\ pending[y].added.tok \in Tokens
    <3>1. minted \in 0..MaxTokens
      BY DEF Solid, IInv, TypeOK
    <3> QED BY <1>2, <2>1, <2>2, <3>1, MapAssumption DEF Tokens
  <2> QED BY <1>5, <1>6, <2>1, <2>2, <2>3
<1>11. IndexMinted'
  BY <1>1, <1>2, <1>6 DEF Tracked, IndexMinted
<1>12. Indexed'
  <2> SUFFICES ASSUME NEW s \in Sids, Live(s), NEW g \in sessions[s].gens
               PROVE  \/ index'[g.tok] = s
                      \/ \E y \in Workers : Minting(y)' /\ pending'[y].added.tok = g.tok
    BY <1>1, <1>7 DEF Indexed
  <2>1. \/ index[g.tok] = s
        \/ \E y \in Workers : Minting(y) /\ pending[y].added.tok = g.tok
    BY DEF Tracked, Indexed
  <2>2. g.tok \in AllHashes(sessions[s]) /\ g.tok \in Tokens
    <3>1. minted \in 0..MaxTokens
      BY DEF Solid, IInv, TypeOK
    <3>2. g.tok \in AllHashes(sessions[s])
      BY DEF AllHashes
    <3> QED BY <3>1, <3>2, HashesMinted, MapAssumption DEF Tokens
  <2>3. CASE g.tok = k
    BY <1>2, <1>6, <2>2, <2>3
  <2>4. CASE g.tok # k
    BY <1>5, <1>6, <2>1, <2>2, <2>4 DEF k
  <2> QED BY <2>3, <2>4
<1> QED BY <1>8, <1>9, <1>10, <1>11, <1>12 DEF Tracked

\* SessionMap::apply: one forgotten token leaves the index.
LEMMA TrackedPurge ==
  ASSUME Solid, Tracked, Hands', NEW a \in Actors, Purge(a)
  PROVE  Tracked'
<1>1. PICK r \in pending[a].purged :
         /\ index' = [index EXCEPT ![r.tok] = NULL]
         /\ pending' = [pending EXCEPT ![a].purged = @ \ {r}]
  BY DEF Purge
<1>2. /\ pending[a] # NULL /\ pending[a].added = NULL /\ pending[a] \in Pending
      /\ UNCHANGED <<sessions, minted>>
      /\ index \in [Tokens -> Option(Sids)] /\ pending \in [Actors -> Option(Pending)]
  BY DEF Purge, Solid, IInv, TypeOK, Option
<1>3. /\ \A b \in Actors : b # a => pending'[b] = pending[b]
      /\ pending'[a].added = NULL /\ pending'[a].purged \subseteq pending[a].purged
  <2>1. pending'[a] = [pending[a] EXCEPT !.purged = @ \ {r}]
    BY <1>1, <1>2
  <2>2. pending'[a].added = NULL /\ pending'[a].purged = pending[a].purged \ {r}
    BY <1>2, <2>1 DEF Pending
  <2> QED BY <1>1, <1>2, <2>2
<1>4. \A w \in Workers : /\ Minting(w)' <=> Minting(w)
                         /\ Minting(w) => pending'[w] = pending[w]
  BY <1>2, <1>3 DEF Minting, Actors
<1>5. /\ index'[r.tok] = NULL \/ r.tok \notin Tokens
      /\ \A k \in Tokens : k # r.tok => index'[k] = index[k]
  BY <1>1, <1>2
<1>6. \A s \in Sids : Live(s)' <=> Live(s)
  BY <1>2 DEF Live
<1>7. \A s \in Sids : Live(s) => \A g \in sessions[s].gens : g.tok # r.tok
  BY <1>2 DEF Tracked, PurgedGone
<1>8. Disjoint'
  BY <1>2, <1>6 DEF Tracked, Disjoint, AllHashes
<1>9. PurgedGone'
  BY <1>2, <1>3, <1>6 DEF Tracked, PurgedGone
<1>10. minted \in 0..MaxTokens
  BY DEF Solid, IInv, TypeOK
<1>11. MintingOK'
  <2> SUFFICES ASSUME NEW y \in Workers, Minting(y)
               PROVE  /\ pending[y].added.tok \in 1..minted
                      /\ index'[pending[y].added.tok] = NULL
                      /\ \A s \in Sids :
                            Live(s) /\ pending[y].added.tok \in AllHashes(sessions[s])
                              => s = pending[y].sid
                      /\ \A z \in Workers :
                            Minting(z) /\ pending[z].added.tok = pending[y].added.tok
                              => z = y
    BY <1>2, <1>4, <1>6 DEF MintingOK, AllHashes
  <2>1. pending[y].added.tok \in 1..minted /\ index[pending[y].added.tok] = NULL
    BY DEF Tracked, MintingOK
  <2>2. pending[y].added.tok \in Tokens
    BY <1>10, <2>1, MapAssumption DEF Tokens
  <2>3. index'[pending[y].added.tok] = NULL
    BY <1>5, <2>1, <2>2
  <2> QED BY <2>3 DEF Tracked, MintingOK
<1>12. IndexMinted'
  BY <1>2, <1>5 DEF Tracked, IndexMinted
<1>13. Indexed'
  <2> SUFFICES ASSUME NEW s \in Sids, Live(s), NEW g \in sessions[s].gens
               PROVE  \/ index'[g.tok] = s
                      \/ \E y \in Workers : Minting(y) /\ pending[y].added.tok = g.tok
    BY <1>2, <1>4, <1>6 DEF Indexed
  <2>1. g.tok # r.tok /\ g.tok \in Tokens
    <3>1. g.tok \in 1..minted
      BY HashesMinted DEF AllHashes
    <3> QED BY <1>7, <1>10, <3>1, MapAssumption DEF Tokens
  <2> QED BY <1>5, <2>1 DEF Tracked, Indexed
<1> QED BY <1>8, <1>9, <1>11, <1>12, <1>13 DEF Tracked

\* SessionMap::sweep forgets a session and its hashes.
LEMMA TrackedRemove ==
  ASSUME Solid, Tracked, Hands', NEW x \in Sids, SweepRemove(x)
  PROVE  Tracked'
<1>1. /\ Live(x)
      /\ sessions' = [sessions EXCEPT ![x] = NULL]
      /\ index' = [t \in Tokens |-> IF t \in AllHashes(sessions[x]) THEN NULL ELSE index[t]]
      /\ UNCHANGED <<pending, minted>>
      /\ sessions \in [Sids -> Option(SessionEntry)]
  BY DEF SweepRemove, Solid, IInv, TypeOK
<1>2. /\ ~ Live(x)'
      /\ \A s \in Sids : s # x => (Live(s)' <=> Live(s)) /\ sessions'[s] = sessions[s]
  BY <1>1 DEF Live
<1>3. \A w \in Workers : Minting(w)' <=> Minting(w)
  BY <1>1 DEF Minting
<1>4. \A k \in Tokens : index'[k] = NULL \/ index'[k] = index[k]
  BY <1>1
<1>5. Disjoint'
  <2>1. \A s, y \in Sids : (Live(s) /\ Live(y) /\ s # y)' =>
           AllHashes(sessions'[s]) \cap AllHashes(sessions'[y]) = {}
    BY <1>2 DEF Tracked, Disjoint
  <2> QED BY <2>1 DEF Disjoint, AllHashes
<1>6. PurgedGone'
  BY <1>1, <1>2 DEF Tracked, PurgedGone
<1>7. minted \in 0..MaxTokens
  BY DEF Solid, IInv, TypeOK
<1>8. MintingOK'
  <2> SUFFICES ASSUME NEW y \in Workers, Minting(y)
               PROVE  /\ pending[y].added.tok \in 1..minted
                      /\ index'[pending[y].added.tok] = NULL
                      /\ \A s \in Sids :
                            Live(s)' /\ pending[y].added.tok \in AllHashes(sessions'[s])
                              => s = pending[y].sid
                      /\ \A z \in Workers :
                            Minting(z) /\ pending[z].added.tok = pending[y].added.tok
                              => z = y
    BY <1>1, <1>3 DEF MintingOK, AllHashes
  <2>1. pending[y].added.tok \in Tokens
    BY <1>7, MapAssumption DEF Tracked, MintingOK, Tokens
  <2> QED BY <1>2, <1>4, <2>1 DEF Tracked, MintingOK
<1>9. IndexMinted'
  BY <1>1, <1>4 DEF Tracked, IndexMinted
<1>10. Indexed'
  <2> SUFFICES ASSUME NEW s \in Sids, Live(s)', NEW g \in sessions'[s].gens
               PROVE  \/ index'[g.tok] = s
                      \/ \E y \in Workers : Minting(y) /\ pending[y].added.tok = g.tok
    BY <1>1, <1>3 DEF Indexed
  <2>1. s # x /\ Live(s) /\ g \in sessions[s].gens
    BY <1>2
  <2>2. g.tok \in AllHashes(sessions[s]) /\ g.tok \notin AllHashes(sessions[x])
    <3>1. g.tok \in AllHashes(sessions[s])
      BY <2>1 DEF AllHashes
    <3> QED BY <1>1, <2>1, <3>1 DEF Tracked, Disjoint
  <2>3. g.tok \in Tokens
    BY <1>7, <2>1, <2>2, HashesMinted, MapAssumption DEF Tokens
  <2> QED BY <1>1, <2>1, <2>2, <2>3 DEF Tracked, Indexed
<1> QED BY <1>5, <1>6, <1>8, <1>9, <1>10 DEF Tracked

\* A worker or the sweeper is done; it was not minting.
LEMMA TrackedDone ==
  ASSUME Tracked, Hands', NEW a \in Actors, pending' = [pending EXCEPT ![a] = NULL],
         a \in Workers => ~ Minting(a), UNCHANGED <<sessions, index, minted>>,
         pending \in [Actors -> Option(Pending)]
  PROVE  Tracked'
<1>1. /\ \A b \in Actors : b # a => pending'[b] = pending[b]
      /\ pending'[a] = NULL
  OBVIOUS
<1>2. \A w \in Workers : /\ Minting(w)' <=> Minting(w)
                         /\ Minting(w) => pending'[w] = pending[w]
  BY <1>1 DEF Minting, Actors
<1>3. \A s \in Sids : Live(s)' <=> Live(s)
  BY DEF Live
<1>4. Disjoint' /\ IndexMinted'
  BY <1>3 DEF Tracked, Disjoint, AllHashes, IndexMinted
<1>5. PurgedGone'
  BY <1>1, <1>3 DEF Tracked, PurgedGone
<1>6. MintingOK'
  BY <1>2, <1>3 DEF Tracked, MintingOK, AllHashes
<1>7. Indexed'
  BY <1>2, <1>3 DEF Tracked, Indexed
<1> QED BY <1>4, <1>5, <1>6, <1>7 DEF Tracked
\* A worker that has read the clock has nothing else to do, and the other way
\* round.
LEMMA NextOneThing ==
  ASSUME IInv, OneThing, [Next]_vars
  PROVE  OneThing'
<1>1. /\ call \in [Workers -> Option([tok : Tokens, at : Nat])]
      /\ pending \in [Actors -> Option(Pending)]
      /\ Sweeper \notin Workers
  BY MapAssumption DEF IInv, TypeOK
<1>2. ASSUME call' = call, pending' = pending PROVE OneThing'
  BY <1>2 DEF OneThing
<1>3. ASSUME NEW a \in Actors, NEW v, a \in Workers => call[a] = NULL /\ call'[a] = NULL,
             call' = call, pending' = [pending EXCEPT ![a] = v]
      PROVE  OneThing'
  BY <1>1, <1>3 DEF OneThing, Actors
<1>4. ASSUME NEW w \in Workers, call' = [call EXCEPT ![w] = NULL],
             \A b \in Actors : b # w => pending'[b] = pending[b]
      PROVE  OneThing'
  BY <1>1, <1>4 DEF OneThing, Actors
<1>5. CASE Tick
  BY <1>2, <1>5 DEF Tick
<1>6. ASSUME NEW w \in Workers, NEW s \in Sids, Create(w, s) \/ Tombstone(w, s)
      PROVE  OneThing'
  <2>1. call' = call /\ call[w] = NULL /\ \A b \in Actors : b # w => pending'[b] = pending[b]
    BY <1>1, <1>6 DEF Create, Tombstone, Idle
  <2> QED BY <1>1, <2>1 DEF OneThing, Actors
<1>7. ASSUME NEW w \in Workers, HandlerNext(w) PROVE OneThing'
  <2>1. ASSUME NEW tok \in Tokens, BeginRefresh(w, tok) PROVE OneThing'
    <3>1. /\ pending' = pending /\ pending[w] = NULL
          /\ \A y \in Workers : y # w => call'[y] = call[y]
      BY <1>1, <2>1 DEF BeginRefresh, Idle
    <3> QED BY <3>1 DEF OneThing
  <2>2. CASE RefreshDenied(w)
    BY <1>4, <2>2 DEF RefreshDenied
  <2>3. CASE RefreshCoalesced(w) \/ RefreshRotated(w)
    <3>1. /\ call' = [call EXCEPT ![w] = NULL]
          /\ \A b \in Actors : b # w => pending'[b] = pending[b]
      BY <1>1, <2>3 DEF RefreshCoalesced, RefreshRotated
    <3> QED BY <1>4, <3>1
  <2>4. CASE FinishCreate(w) \/ Apply(w) \/ Purge(w) \/ FinishRefresh(w) \/ FinishTombstone(w)
    <3>1. /\ call' = call /\ pending[w] # NULL
          /\ \A b \in Actors : b # w => pending'[b] = pending[b]
      BY <1>1, <2>4 DEF FinishCreate, Apply, Purge, FinishRefresh, FinishTombstone
    <3> QED BY <1>1, <3>1 DEF OneThing, Actors
  <2> QED BY <1>7, <2>1, <2>2, <2>3, <2>4 DEF HandlerNext
<1>8. ASSUME NEW s \in Sids, NEW status \in CustodyStatus, SetCustodyStatus(s, status)
      PROVE  OneThing'
  BY <1>2, <1>8 DEF SetCustodyStatus
<1>9. CASE SweepNext
  <2>1. call' = call /\ \A b \in Actors : b # Sweeper => pending'[b] = pending[b]
    BY <1>1, <1>9 DEF SweepNext, SweepStart, SweepMark, SweepReap, Purge, SweepApplied,
                      SweepRemove, SweepEnd
  <2> QED BY <1>1, <2>1 DEF OneThing, Actors
<1>10. CASE UNCHANGED vars
  BY <1>2, <1>10 DEF vars
<1> QED BY <1>5, <1>6, <1>7, <1>8, <1>9, <1>10 DEF Next

LEMMA NextKillsOnly ==
  ASSUME IInv, KillsOnly, [Next]_vars
  PROVE  KillsOnly'
<1>1. /\ pending \in [Actors -> Option(Pending)] /\ Workers \subseteq Actors
      /\ Sweeper \in Actors
  BY DEF IInv, TypeOK, Actors
<1>2. ASSUME pending' = pending PROVE KillsOnly'
  BY <1>2 DEF KillsOnly
<1>3. ASSUME NEW a \in Actors,
             \A b \in Actors : b # a => pending'[b] = pending[b],
             \/ pending'[a] = NULL
             \/ ~ pending'[a].tombstone
             \/ /\ ~ pending'[a].created /\ pending'[a].added = NULL
                /\ pending'[a].progress = NULL
      PROVE  KillsOnly'
  BY <1>3 DEF KillsOnly
<1>4. ASSUME NEW w \in Workers, NEW s \in Sids, Create(w, s) PROVE KillsOnly'
  <2>1. pending' = [pending EXCEPT ![w] =
                      [NothingPending(s, now) EXCEPT
                         !.created = TRUE,
                         !.added = NewGeneration(1, minted + 1, now, 1),
                         !.token = minted + 1]]
    BY <1>4 DEF Create
  <2>2. ~ pending'[w].tombstone
    BY <1>1, <2>1 DEF NothingPending
  <2> QED BY <1>1, <1>3, <2>1, <2>2
<1>5. ASSUME NEW w \in Workers, NEW s \in Sids, Tombstone(w, s) PROVE KillsOnly'
  <2>1. pending' = [pending EXCEPT ![w] = [NothingPending(s, now) EXCEPT !.tombstone = TRUE]]
    BY <1>5 DEF Tombstone
  <2>2. ~ pending'[w].created /\ pending'[w].added = NULL /\ pending'[w].progress = NULL
    BY <1>1, <2>1 DEF NothingPending
  <2> QED BY <1>1, <1>3, <2>1, <2>2
<1>6. ASSUME NEW a \in Actors, Purge(a) PROVE KillsOnly'
  <2>1. PICK r \in pending[a].purged :
           pending' = [pending EXCEPT ![a] = [pending[a] EXCEPT !.purged = @ \ {r}]]
    BY <1>6 DEF Purge
  <2>2. pending[a] \in Pending
    BY <1>1, <1>6 DEF Purge, Option
  <2>3. pending'[a] = [pending[a] EXCEPT !.purged = @ \ {r}]
    BY <1>1, <2>1
  <2>4. /\ pending'[a].tombstone = pending[a].tombstone
        /\ pending'[a].created = pending[a].created
        /\ pending'[a].added = pending[a].added
        /\ pending'[a].progress = pending[a].progress
    BY <2>2, <2>3 DEF Pending
  <2>5. \A b \in Actors : b # a => pending'[b] = pending[b]
    BY <1>1, <2>1
  <2> QED BY <1>3, <1>6, <2>4, <2>5 DEF KillsOnly, Purge
<1>7. ASSUME NEW w \in Workers, HandlerNext(w) PROVE KillsOnly'
  <2>1. CASE RefreshDenied(w) \/ \E tok \in Tokens : BeginRefresh(w, tok)
    BY <1>2, <2>1 DEF RefreshDenied, BeginRefresh
  <2>2. CASE FinishCreate(w) \/ FinishRefresh(w) \/ FinishTombstone(w)
    <3>1. pending' = [pending EXCEPT ![w] = NULL]
      BY <2>2 DEF FinishCreate, FinishRefresh, FinishTombstone
    <3> QED BY <1>1, <1>3, <3>1
  <2>3. CASE Apply(w)
    <3>1. /\ pending' = [pending EXCEPT ![w] =
                           [pending[w] EXCEPT !.added = NULL, !.superseded = NULL]]
          /\ pending[w] # NULL /\ pending[w].added # NULL
      BY <2>3 DEF Apply
    <3>2. pending[w] \in Pending
      BY <1>1, <3>1 DEF Option
    <3>3. ~ pending[w].tombstone
      BY <1>1, <3>1 DEF KillsOnly
    <3>4. pending'[w] = [pending[w] EXCEPT !.added = NULL, !.superseded = NULL]
      BY <1>1, <3>1
    <3>5. ~ pending'[w].tombstone
      BY <3>2, <3>3, <3>4 DEF Pending
    <3> QED BY <1>1, <1>3, <3>1, <3>5
  <2>4. CASE RefreshCoalesced(w) \/ RefreshRotated(w)
    <3>1. \A b \in Actors : b # w => pending'[b] = pending[b]
      BY <1>1, <2>4 DEF RefreshCoalesced, RefreshRotated
    <3>2. ~ pending'[w].tombstone
      BY <1>1, <2>4 DEF RefreshCoalesced, RefreshRotated, NothingPending
    <3> QED BY <1>1, <1>3, <3>1, <3>2
  <2> QED BY <1>1, <1>6, <1>7, <2>1, <2>2, <2>3, <2>4 DEF HandlerNext
<1>8. CASE SweepNext
  <2>1. CASE SweepStart \/ SweepEnd \/ \E s \in Sids : SweepMark(s) \/ SweepRemove(s)
    BY <1>2, <2>1 DEF SweepStart, SweepEnd, SweepMark, SweepRemove
  <2>2. CASE SweepApplied
    <3>1. pending' = [pending EXCEPT ![Sweeper] = NULL]
      BY <2>2 DEF SweepApplied
    <3> QED BY <1>1, <1>3, <3>1
  <2>3. ASSUME NEW s \in Sids, SweepReap(s) PROVE KillsOnly'
    <3>1. /\ \A b \in Actors : b # Sweeper => pending'[b] = pending[b]
          /\ ~ pending'[Sweeper].tombstone
      BY <1>1, <2>3 DEF SweepReap, NothingPending
    <3> QED BY <1>1, <1>3, <3>1
  <2> QED BY <1>1, <1>6, <1>8, <2>1, <2>2, <2>3 DEF SweepNext
<1>9. CASE Tick \/ UNCHANGED vars
          \/ \E s \in Sids, status \in CustodyStatus : SetCustodyStatus(s, status)
  BY <1>2, <1>9 DEF Tick, vars, SetCustodyStatus
<1> QED BY <1>4, <1>5, <1>7, <1>8, <1>9 DEF Next

\* Every step keeps track of every token.
LEMMA NextTracked == Solid /\ Tracked /\ [Next]_vars => Tracked'
<1> SUFFICES ASSUME Solid, Tracked, [Next]_vars PROVE Tracked'
  OBVIOUS
<1>1. /\ call \in [Workers -> Option([tok : Tokens, at : Nat])]
      /\ pending \in [Actors -> Option(Pending)]
      /\ sessions \in [Sids -> Option(SessionEntry)]
      /\ now \in Nat /\ minted \in Nat
  <2>1. minted \in 0..MaxTokens /\ now \in Nat
    BY DEF Solid, IInv, TypeOK
  <2>2. minted \in Nat
    BY <2>1, MapAssumption
  <2> QED BY <2>1, <2>2 DEF Solid, IInv, TypeOK
<1>2. Hands' /\ Solid'
  BY NextOneThing, NextKillsOnly, NextSolid DEF Solid, Tracked, Hands
<1>3. /\ pending' \in [Actors -> Option(Pending)]
      /\ sessions' \in [Sids -> Option(SessionEntry)]
  BY <1>2 DEF Solid, IInv, TypeOK
<1>4. CASE Tick
  BY <1>2, <1>4, TrackedSame DEF Tick
<1>5. ASSUME NEW w \in Workers, NEW x \in Sids, Create(w, x) PROVE Tracked'
  <2> DEFINE p == [NothingPending(x, now) EXCEPT
                     !.created = TRUE,
                     !.added = NewGeneration(1, minted + 1, now, 1),
                     !.token = minted + 1]
  <2>1. /\ x \notin used /\ minted < MaxTokens /\ minted' = minted + 1
        /\ sessions' = [sessions EXCEPT ![x] = NewEntry(minted + 1, now)]
        /\ index' = [index EXCEPT ![minted + 1] = x]
        /\ pending' = [pending EXCEPT ![w] = p]
        /\ pending[w] = NULL
    BY <1>5 DEF Create, Idle
  <2>2. p.created /\ p.purged = {} /\ p \in Pending
    <3>1. minted + 1 \in Tokens
      BY <1>1, <2>1, MapAssumption DEF Tokens
    <3> QED BY <1>1, <3>1, NewEntryOK DEF NothingPending, Pending, Option
  <2> HIDE DEF p
  <2>3. /\ \A b \in Actors : b # w => pending'[b] = pending[b]
        /\ pending'[w] = p /\ pending'[w] # NULL
    BY <1>1, <2>1, <2>2, PendingAssumption DEF Actors
  <2>4. /\ \A s \in Sids : s # x => sessions'[s] = sessions[s]
        /\ sessions'[x] = NewEntry(minted + 1, now)
    BY <1>1, <2>1
  <2>5. ~ Live(x)
    BY <2>1 DEF Solid, Drawn
  <2> QED BY <1>2, <2>1, <2>2, <2>3, <2>4, <2>5, TrackedCreate
<1>6. ASSUME NEW w \in Workers, NEW x \in Sids, Tombstone(w, x) PROVE Tracked'
  <2> DEFINE p == [NothingPending(x, now) EXCEPT !.tombstone = TRUE]
  <2>1. /\ Live(x) /\ sessions[x].status = "alive" /\ pending[w] = NULL
        /\ sessions' = [sessions EXCEPT ![x] = Killed(sessions[x], now)]
        /\ pending' = [pending EXCEPT ![w] = p]
        /\ minted' = minted /\ index' = index
    BY <1>6 DEF Tombstone, Idle, Killed
  <2>2. p.added = NULL /\ p.purged = {} /\ p \in Pending
    BY <1>1 DEF NothingPending, Pending, Option
  <2> HIDE DEF p
  <2>3. /\ \A b \in Actors : b # w => pending'[b] = pending[b]
        /\ pending'[w] = p /\ pending'[w] # NULL /\ w \in Actors
    BY <1>1, <2>1, <2>2, PendingAssumption DEF Actors
  <2>4. /\ \A s \in Sids : s # x => sessions'[s] = sessions[s]
        /\ sessions'[x] = Killed(sessions[x], now)
    BY <1>1, <2>1
  <2>5. Moves(sessions[x], sessions'[x], now, now, minted, minted)
    BY <2>1, <2>4 DEF Moves
  <2>6. Live(x)'
    <3>1. Killed(sessions[x], now) \in SessionEntry
      BY <1>1, <2>1, ZenonT(40) DEF Live, Killed, Option, SessionEntry, SessionStatus
    <3> QED BY <2>4, <3>1, NullAssumption DEF Live
  <2> QED BY <1>1, <1>2, <2>1, <2>2, <2>3, <2>4, <2>5, <2>6, TrackedMove
<1>7. ASSUME NEW w \in Workers, HandlerNext(w) PROVE Tracked'
  <2>1. CASE RefreshDenied(w) \/ \E tok \in Tokens : BeginRefresh(w, tok)
    BY <1>2, <2>1, TrackedSame DEF RefreshDenied, BeginRefresh
  <2>2. CASE FinishCreate(w) \/ FinishRefresh(w) \/ FinishTombstone(w)
    <3>1. /\ pending' = [pending EXCEPT ![w] = NULL]
          /\ UNCHANGED <<sessions, index, minted>>
          /\ ~ Minting(w)
      BY <2>2 DEF FinishCreate, FinishRefresh, FinishTombstone, Minting, Tracked, Hands,
                  KillsOnly, Actors
    <3> QED BY <1>1, <1>2, <3>1, TrackedDone DEF Actors
  <2>3. CASE Apply(w)
    BY <1>2, <2>3, TrackedApply
  <2>4. CASE Purge(w)
    BY <1>2, <2>4, TrackedPurge DEF Actors
  <2>5. CASE RefreshCoalesced(w)
    <3>0. PICK x \in Sids, at \in Nat : x = index[call[w].tok] /\ at = call[w].at
      BY <2>5, RefreshEntry DEF RefreshCoalesced, Solid
    <3> DEFINE e == Slide(sessions[x], at)
               p == [NothingPending(x, at) EXCEPT !.progress = Progress(e),
                                                  !.token = e.current_token]
    <3>1. /\ Live(x) /\ sessions[x] \in SessionEntry
          /\ EntryOK(sessions[x], minted)
          /\ ResolveAt(call[w].tok, at) \in {"active", "stale"}
          /\ call[w] # NULL
      BY <2>5, <3>0, RefreshEntry DEF RefreshCoalesced, Solid
    <3>2. at <= now /\ now <= at + MaxStall /\ pending[w] = NULL
      BY <3>0, <3>1 DEF Solid, ClocksOK, Tracked, Hands, OneThing
    <3>3. SessionExpiry(sessions[x], at) = NULL
      BY <3>0, <3>1 DEF ResolveAt, Classify, Live
    <3>4. /\ sessions' = [sessions EXCEPT ![x] = e]
          /\ pending' = [pending EXCEPT ![w] = p]
          /\ minted' = minted /\ index' = index
      BY <2>5, <3>0 DEF RefreshCoalesced
    <3>5. Moves(sessions[x], e, at, now, minted, minted)
      BY <3>2, <3>3 DEF Moves
    <3>6. e \in SessionEntry
      BY <3>1, SlideOK
    <3>7. p.added = NULL /\ p.purged = {}
      BY DEF NothingPending
    <3>8. p \in Pending
      <4>1. p.progress = Progress(e) /\ p.token = e.current_token
        BY DEF NothingPending
      <4>2. pending'[w] = p /\ pending'[w] \in Option(Pending)
        BY <1>1, <1>3, <3>4 DEF Actors
      <4>3. sessions[x].current_token # NULL /\ e.current_token = sessions[x].current_token
        BY <2>5, <3>0, <3>1 DEF RefreshCoalesced, Coalesces, Slide, SessionEntry
      <4>4. e.current_token \in Tokens
        BY <1>1, <3>1, <4>3, MapAssumption DEF EntryOK, Tokens, Solid, IInv, TypeOK
      <4>5. Progress(e) \in [current_gen : Nat, idle_exp : Nat]
        BY <3>6 DEF Progress, SessionEntry
      <4> HIDE DEF e
      <4> QED BY <3>1, <4>4, <4>5 DEF NothingPending, Pending, Option
    <3> HIDE DEF e, p
    <3>9. /\ \A b \in Actors : b # w => pending'[b] = pending[b]
          /\ pending'[w] = p /\ pending'[w] # NULL /\ w \in Actors
      BY <1>1, <3>4, <3>8, PendingAssumption DEF Actors
    <3>10. /\ \A s \in Sids : s # x => sessions'[s] = sessions[s]
           /\ sessions'[x] = e /\ Live(x)'
      BY <1>1, <3>1, <3>4, <3>6, NullAssumption DEF Live
    <3> QED BY <1>2, <3>1, <3>2, <3>4, <3>5, <3>7, <3>9, <3>10, TrackedMove
  <2>6. CASE RefreshRotated(w)
    <3>0. PICK x \in Sids, at \in Nat : x = index[call[w].tok] /\ at = call[w].at
      BY <2>6, RefreshEntry DEF RefreshRotated, Solid
    <3> DEFINE old == Current(sessions[x])
               rotated == Rotated(sessions[x], minted + 1, at)
               e == Refreshed(sessions[x], minted + 1, at)
               p == [NothingPending(x, at) EXCEPT
                       !.added = NewGeneration(e.current_gen, minted + 1, at, old.pos + 1),
                       !.superseded = old.tok,
                       !.purged = Purged(rotated, at),
                       !.progress = Progress(e),
                       !.token = minted + 1]
    <3>1. /\ Live(x) /\ sessions[x] \in SessionEntry /\ EntryOK(sessions[x], minted)
          /\ sessions[x].status = "alive"
          /\ ResolveAt(call[w].tok, at) \in {"active", "stale"}
          /\ call[w] # NULL
      BY <2>6, <3>0, RefreshEntry DEF RefreshRotated, Solid
    <3>2. at <= now /\ pending[w] = NULL
      BY <3>0, <3>1 DEF Solid, ClocksOK, Tracked, Hands, OneThing
    <3>3. SessionExpiry(sessions[x], at) = NULL
      BY <3>0, <3>1 DEF ResolveAt, Classify, Live
    <3>4. /\ sessions' = [sessions EXCEPT ![x] = e]
          /\ pending' = [pending EXCEPT ![w] = p]
          /\ minted < MaxTokens /\ minted' = minted + 1 /\ index' = index
          /\ ~ Coalesces(sessions[x], at)
      BY <2>6, <3>0 DEF RefreshRotated, Refreshed
    <3>5. /\ rotated \in SessionEntry /\ EntryOK(rotated, minted + 1)
          /\ old \in Generation
      BY <1>1, <3>1, <3>4, RotatedOK
    <3> HIDE DEF rotated, old
    <3>6. e \in SessionEntry /\ Purged(rotated, at) \subseteq RetiredToken
      <4>1. /\ ReapGenerations(rotated, at) \in SessionEntry
            /\ EntryOK(ReapGenerations(rotated, at), minted + 1)
            /\ Purged(rotated, at) \subseteq RetiredToken
        BY <1>1, <3>5, ReapOK
      <4> QED BY <4>1, SlideOK DEF Refreshed, rotated
    <3> HIDE DEF e
    <3>7. /\ p.sid = x /\ ~ p.created /\ p.added # NULL /\ p.added.tok = minted + 1
          /\ p.purged = Purged(rotated, at) /\ p \in Pending
      <4> DEFINE g == NewGeneration(e.current_gen, minted + 1, at, old.pos + 1)
                 q == Purged(rotated, at)
      <4>1. g \in Generation /\ g.tok = minted + 1
        BY <1>1, <3>5, <3>6, PolicyAssumption
        DEF NewGeneration, Generation, SessionEntry, Option
      <4>2. q \in SUBSET RetiredToken
        BY <3>6
      <4>3. Progress(e) \in [current_gen : Nat, idle_exp : Nat]
        BY <3>6 DEF Progress, SessionEntry
      <4>4. minted + 1 \in Tokens
        BY <1>1, <3>4, MapAssumption DEF Tokens
      <4>5. old.tok \in Nat
        BY <3>5 DEF Generation
      <4>6. p = [NothingPending(x, at) EXCEPT
                       !.added = g, !.superseded = old.tok, !.purged = q,
                       !.progress = Progress(e), !.token = minted + 1]
        OBVIOUS
      <4> HIDE DEF g, q, p
      <4>7. /\ p.sid = x /\ ~ p.created /\ p.added = g /\ p.purged = q /\ p \in Pending
        BY <4>1, <4>2, <4>3, <4>4, <4>5, <4>6 DEF NothingPending, Pending, Option
      <4>8. g # NULL
        BY <4>1, NullAssumption
      <4> QED BY <4>1, <4>7, <4>8 DEF q
    <3> HIDE DEF p
    <3>8. /\ \A b \in Actors : b # w => pending'[b] = pending[b]
          /\ pending'[w] = p /\ pending'[w] # NULL
      BY <1>1, <3>4, <3>7, PendingAssumption DEF Actors
    <3>9. sessions'[x] = e /\ \A s \in Sids : s # x => sessions'[s] = sessions[s]
      BY <1>1, <3>4
    <3>10. Live(x)'
      BY <3>6, <3>9, NullAssumption DEF Live
    <3> QED BY <1>2, <3>1, <3>2, <3>3, <3>4, <3>7, <3>8, <3>9, <3>10, TrackedRotate
            DEF e, rotated
  <2> QED BY <1>7, <2>1, <2>2, <2>3, <2>4, <2>5, <2>6 DEF HandlerNext
<1>8. ASSUME NEW x \in Sids, NEW status \in CustodyStatus, SetCustodyStatus(x, status)
      PROVE  Tracked'
  <2> DEFINE f == [sessions[x] EXCEPT !.custody_status = status]
  <2>1. /\ Live(x) /\ sessions[x].custody_status # "dead"
        /\ sessions' = [sessions EXCEPT ![x] = f]
        /\ minted' = minted /\ index' = index /\ pending' = pending
    BY <1>8 DEF SetCustodyStatus
  <2>2. f \in SessionEntry
    BY <1>1, <2>1 DEF Live, Option, SessionEntry
  <2>3. Moves(sessions[x], f, now, now, minted, minted)
    BY <2>1 DEF Moves
  <2> HIDE DEF f
  <2>4. /\ \A s \in Sids : s # x => sessions'[s] = sessions[s]
        /\ sessions'[x] = f /\ sessions'[x] # NULL
    BY <1>1, <2>1, <2>2, NullAssumption
  <2>5. Live(x)' /\ Sweeper \in Actors /\ now <= now
    BY <1>1, <2>4 DEF Live, Actors
  <2> QED BY <1>1, <1>2, <2>1, <2>3, <2>4, <2>5, TrackedMove
<1>9. CASE SweepNext
  <2>1. CASE SweepStart \/ SweepEnd \/ \E s \in Sids : SweepMark(s)
    BY <1>2, <2>1, TrackedSame DEF SweepStart, SweepEnd, SweepMark
  <2>2. CASE Purge(Sweeper)
    BY <1>2, <2>2, TrackedPurge DEF Actors
  <2>3. CASE SweepApplied
    <3>1. /\ pending' = [pending EXCEPT ![Sweeper] = NULL]
          /\ UNCHANGED <<sessions, index, minted>>
      BY <2>3 DEF SweepApplied
    <3> QED BY <1>1, <1>2, <3>1, TrackedDone, MapAssumption DEF Actors
  <2>4. ASSUME NEW x \in Sids, SweepRemove(x) PROVE Tracked'
    BY <1>2, <2>4, TrackedRemove
  <2>5. ASSUME NEW x \in Sids, SweepReap(x) PROVE Tracked'
    <3> DEFINE e == ReapGenerations(sessions[x], sweep.at)
               p == [NothingPending(x, sweep.at) EXCEPT
                        !.purged = Purged(sessions[x], sweep.at)]
    <3>1. /\ sweep # NULL /\ Live(x) /\ pending[Sweeper] = NULL
          /\ sessions' = [sessions EXCEPT ![x] = e]
          /\ pending' = [pending EXCEPT ![Sweeper] = p]
          /\ minted' = minted /\ index' = index
      BY <2>5 DEF SweepReap
    <3>2. /\ sweep.at \in Nat /\ sweep.at <= now /\ sessions[x] \in SessionEntry
          /\ EntryOK(sessions[x], minted) /\ Sound(sessions[x], minted, now)
      BY <3>1 DEF Solid, ClocksOK, IInv, TypeOK, EntriesOK, SoundEntries, Live, Option
    <3>3. /\ e \in SessionEntry
          /\ Purged(sessions[x], sweep.at) \subseteq RetiredToken
          /\ \A r \in Purged(sessions[x], sweep.at) :
                r.tok \in AllHashes(sessions[x]) /\ \A g \in e.gens : g.tok # r.tok
      BY <1>1, <3>2, ReapOK, ReapSound
    <3>4. Moves(sessions[x], e, sweep.at, now, minted, minted)
      BY DEF Moves
    <3>5. /\ p \in Pending /\ p.added = NULL /\ p.purged = Purged(sessions[x], sweep.at)
      <4> DEFINE q == Purged(sessions[x], sweep.at)
      <4>1. q \in SUBSET RetiredToken
        BY <3>3
      <4> HIDE DEF q
      <4>2. p = [NothingPending(x, sweep.at) EXCEPT !.purged = q]
        BY DEF q
      <4> QED BY <3>2, <4>1, <4>2 DEF NothingPending, Pending, Option, q
    <3> HIDE DEF e, p
    <3>6. /\ \A b \in Actors : b # Sweeper => pending'[b] = pending[b]
          /\ pending'[Sweeper] = p /\ pending'[Sweeper] # NULL /\ Sweeper \in Actors
      BY <1>1, <3>1, <3>5, PendingAssumption DEF Actors
    <3>7. /\ \A s \in Sids : s # x => sessions'[s] = sessions[s]
          /\ sessions'[x] = e /\ Live(x)'
      BY <1>1, <3>1, <3>3, NullAssumption DEF Live
    <3> QED BY <1>2, <3>1, <3>2, <3>3, <3>4, <3>5, <3>6, <3>7, TrackedMove
  <2> QED BY <1>9, <2>1, <2>2, <2>3, <2>4, <2>5 DEF SweepNext
<1>10. CASE UNCHANGED vars
  BY <1>2, <1>10, TrackedSame DEF vars
<1> QED BY <1>4, <1>5, <1>6, <1>7, <1>8, <1>9, <1>10 DEF Next
LEMMA TrackedInvariance == Spec => [](Solid /\ Tracked)
<1>1. Solid /\ Tracked /\ [Next]_vars => (Solid /\ Tracked)'
  BY NextSolid, NextTracked
<1> QED BY <1>1, InitSolid, InitTracked, PTL DEF Spec

\* Whatever refreshes, purges and removals interleave, the generations of every
\* session can be found by their tokens, save one that its minter is about to
\* put in the index.
THEOREM GenerationsCanBeFound == Spec => []GenerationsIndexed
<1>1. Tracked => GenerationsIndexed
  BY DEF Tracked, Indexed, GenerationsIndexed, Minting
<1> QED BY <1>1, TrackedInvariance, PTL
----------------------------------------------------------------------------
(***************************************************************************)
(* What a step does to the meaning of a token.                             *)
(***************************************************************************)
LEMMA UntilNat ==
  ASSUME NEW g \in Generation
  PROVE  ResourceValidUntil(g) \in Nat
BY PolicyAssumption DEF ResourceValidUntil, Earlier, Generation, Option

\* Only a few things move: a kill and a dead grant are for good, and a
\* generation that stays is the one it was, or was superseded just now.
LEMMA MoveFacts ==
  ASSUME NEW e \in SessionEntry, NEW f \in SessionEntry, NEW t \in Nat, NEW u \in Nat,
         NEW n \in Nat, NEW m \in Nat, EntryOK(e, n), Moves(e, f, t, u, n, m)
  PROVE  /\ f.absolute_exp = e.absolute_exp
         /\ e.status = "tombstoned" => f.status = "tombstoned"
         /\ e.custody_status = "dead" => f.custody_status = "dead"
         /\ \A g \in f.gens :
               \/ g.tok = n + 1 /\ m = n + 1
               \/ g \in e.gens
               \/ \E h \in e.gens : /\ h.tok = g.tok /\ h.active_until = g.active_until
                                    /\ h.superseded_at = NULL /\ g.superseded_at = t
<1>1. CASE f = e \/ f = Slide(e, t)
  BY <1>1 DEF Slide, SessionEntry
<1>2. CASE f = Killed(e, u) /\ e.status = "alive"
  BY <1>2 DEF Killed, SessionEntry
<1>3. CASE \E status \in CustodyStatus :
             f = [e EXCEPT !.custody_status = status] /\ e.custody_status # "dead"
  BY <1>3 DEF SessionEntry
<1>4. CASE f = ReapGenerations(e, t)
  BY <1>4 DEF ReapGenerations, SessionEntry
<1>5. CASE f = Refreshed(e, n + 1, t) /\ m = n + 1 /\ SessionExpiry(e, t) = NULL
           /\ ~ Coalesces(e, t)
  <2> DEFINE x == Rotated(e, n + 1, t)
             y == ReapGenerations(x, t)
  <2>1. e.status = "alive"
    BY <1>5, UsableAlive
  <2>2. x \in SessionEntry /\ EntryOK(x, n + 1)
    BY <1>5, <2>1, RotatedOK
  <2>3. PICK c \in e.gens : IsCurrent(e, c)
    BY DEF EntryOK
  <2> DEFINE old == [c EXCEPT !.superseded_at = t]
             top == NewGeneration(e.current_gen + 1, n + 1, t, c.pos + 1)
  <2>4. /\ x.gens = (e.gens \ {c}) \cup {old, top}
        /\ old.tok = c.tok /\ old.superseded_at = t /\ old.active_until = c.active_until
        /\ top.tok = n + 1
        /\ x.absolute_exp = e.absolute_exp /\ x.status = e.status
        /\ x.custody_status = e.custody_status
    <3>1. n + 1 \in Nat
      OBVIOUS
    <3> QED BY <2>3, <3>1, RotatedGens
  <2>5. c.superseded_at = NULL
    BY <2>3 DEF IsCurrent
  <2> HIDE DEF x, old, top
  <2>6. /\ y \in SessionEntry /\ y.gens \subseteq x.gens
        /\ y.absolute_exp = x.absolute_exp /\ y.status = x.status
        /\ y.custody_status = x.custody_status
    BY <2>2, ReapOK DEF ReapGenerations, SessionEntry
  <2> HIDE DEF y
  <2>7. /\ f.gens = y.gens /\ f.absolute_exp = y.absolute_exp
        /\ f.status = y.status /\ f.custody_status = y.custody_status
    BY <1>5, <2>6 DEF Refreshed, Slide, SessionEntry, x, y
  <2> QED BY <1>5, <2>4, <2>5, <2>6, <2>7
<1> QED BY <1>1, <1>2, <1>3, <1>4, <1>5 DEF Moves

\* So a move never prolongs a generation.
LEMMA MoveShortens ==
  ASSUME NEW e \in SessionEntry, NEW f \in SessionEntry, NEW t \in Nat, NEW u \in Nat,
         NEW n \in Nat, NEW m \in Nat, EntryOK(e, n), Moves(e, f, t, u, n, m),
         NEW g \in f.gens, g.tok \in 1..n
  PROVE  \E h \in e.gens : h.tok = g.tok /\ ResourceValidUntil(g) <= ResourceValidUntil(h)
<1>1. CASE g \in e.gens
  <2>1. g \in Generation
    BY DEF SessionEntry
  <2>2. ResourceValidUntil(g) <= ResourceValidUntil(g)
    BY <2>1, UntilNat
  <2> QED BY <1>1, <2>2
<1>2. ASSUME NEW h \in e.gens, h.tok = g.tok, h.active_until = g.active_until,
             h.superseded_at = NULL, g.superseded_at = t
      PROVE  ResourceValidUntil(g) <= ResourceValidUntil(h)
  <2>1. ResourceValidUntil(h) = h.active_until /\ h.active_until \in Nat
    BY <1>2 DEF ResourceValidUntil, SessionEntry, Generation
  <2>2. ResourceValidUntil(g) = Earlier(h.active_until, t + Grace)
    BY <1>2, NullAssumption DEF ResourceValidUntil
  <2> QED BY <2>1, <2>2, PolicyAssumption DEF Earlier
<1>3. ~ (g.tok = n + 1 /\ m = n + 1)
  OBVIOUS
<1> QED BY <1>1, <1>2, <1>3, MoveFacts

\* The reasons a session authenticates nothing, one by one.
LEMMA Expiry ==
  ASSUME NEW e \in SessionEntry, NEW u \in Nat
  PROVE  SessionExpiry(e, u) = NULL <=>
            /\ e.status = "alive"
            /\ u < e.absolute_exp /\ u < e.idle_exp
            /\ ~ (e.custody_status = "dead" /\ KillOnRevoke)
<1>1. NULL \notin {"logged_out", "absolute", "idle", "upstream_revoked"}
  BY NullAssumption DEF ExpiredReason
<1> QED BY <1>1 DEF SessionExpiry, SessionEntry, SessionStatus

\* What classify says, given that the tokens of a vector differ.
LEMMA Meaning ==
  ASSUME NEW e \in SessionEntry, NEW tok, NEW u \in Nat, Ordered(e.gens)
  PROVE  /\ Classify(e, tok, u) = "expired" <=> SessionExpiry(e, u) # NULL
         /\ Classify(e, tok, u) = "active" <=>
               /\ SessionExpiry(e, u) = NULL
               /\ \E g \in e.gens : g.tok = tok /\ u < ResourceValidUntil(g)
         /\ Classify(e, tok, u) \in {"stale", "retired"} =>
               \A g \in e.gens : g.tok = tok => ResourceValidUntil(g) <= u
<1>1. CASE \E g \in e.gens : g.tok = tok
  <2> DEFINE x == CHOOSE y \in e.gens : y.tok = tok
  <2>1. x \in e.gens /\ x.tok = tok
    BY <1>1
  <2>2. \A g \in e.gens : g.tok = tok => g = x
    BY <2>1 DEF Ordered, SessionEntry, Generation
  <2>3. ResourceValidUntil(x) \in Nat
    BY <2>1, UntilNat DEF SessionEntry
  <2>4. Classify(e, tok, u) =
          IF SessionExpiry(e, u) # NULL THEN "expired"
          ELSE IF u < ResourceValidUntil(x) THEN "active"
          ELSE IF x.gen_no = e.current_gen THEN "stale" ELSE "retired"
    BY <1>1 DEF Classify
  <2> HIDE DEF x
  <2> QED BY <2>1, <2>2, <2>3, <2>4
<1>2. CASE ~ \E g \in e.gens : g.tok = tok
  BY <1>2 DEF Classify
<1> QED BY <1>1, <1>2
\* What was refused for good stays refused, through any move and any second.
LEMMA RefusedStays ==
  ASSUME NEW e \in SessionEntry, NEW f \in SessionEntry, NEW t \in Nat, NEW u \in Nat,
         NEW v \in Nat, u <= v, NEW n \in Nat, NEW m \in Nat, EntryOK(e, n),
         Moves(e, f, t, u, n, m), Ordered(e.gens), Ordered(f.gens), NEW tok \in 1..n,
         Classify(e, tok, u) \in {"stale", "retired", "expired"},
         Classify(e, tok, u) = "expired" => SessionExpiry(e, u) # "idle"
  PROVE  Classify(f, tok, v) # "active"
<1> SUFFICES ASSUME Classify(f, tok, v) = "active" PROVE FALSE
  OBVIOUS
<1>1. /\ SessionExpiry(f, v) = NULL
      /\ \E g \in f.gens : g.tok = tok /\ v < ResourceValidUntil(g)
  BY Meaning
<1>2. /\ f.status = "alive" /\ v < f.absolute_exp
      /\ ~ (f.custody_status = "dead" /\ KillOnRevoke)
  BY <1>1, Expiry
<1>3. CASE Classify(e, tok, u) = "expired"
  <2>1. SessionExpiry(e, u) # NULL /\ SessionExpiry(e, u) # "idle"
    BY <1>3, Meaning
  <2>2. \/ e.status = "tombstoned" \/ u >= e.absolute_exp
        \/ e.custody_status = "dead" /\ KillOnRevoke
    BY <2>1 DEF SessionExpiry
  <2>3. e.absolute_exp \in Nat
    BY DEF SessionEntry
  <2> QED BY <1>2, <2>2, <2>3, MoveFacts
<1>4. CASE Classify(e, tok, u) \in {"stale", "retired"}
  <2>1. PICK g \in f.gens : g.tok = tok /\ v < ResourceValidUntil(g)
    BY <1>1
  <2>2. PICK h \in e.gens : h.tok = tok /\ ResourceValidUntil(g) <= ResourceValidUntil(h)
    BY <2>1, MoveShortens
  <2>3. ResourceValidUntil(h) <= u
    BY <1>4, <2>2, Meaning
  <2>4. ResourceValidUntil(g) \in Nat /\ ResourceValidUntil(h) \in Nat
    BY UntilNat DEF SessionEntry
  <2> QED BY <2>1, <2>2, <2>3, <2>4
<1> QED BY <1>3, <1>4

\* An indexed token stays with its session until it leaves the index.
LEMMA IndexKept ==
  ASSUME Solid, Tracked, [Next]_vars, NEW k \in Tokens, index[k] # NULL
  PROVE  index'[k] = index[k] \/ index'[k] = NULL
<1>1. index \in [Tokens -> Option(Sids)] /\ minted \in Nat /\ k \in 1..minted
  <2>1. minted \in 0..MaxTokens /\ index \in [Tokens -> Option(Sids)]
    BY DEF Solid, IInv, TypeOK
  <2>2. k \in 1..minted
    BY DEF Tracked, IndexMinted
  <2> QED BY <2>1, <2>2, MapAssumption
<1>2. CASE \E w \in Workers, s \in Sids : Create(w, s)
  <2>1. PICK s \in Sids : index' = [index EXCEPT ![minted + 1] = s]
    BY <1>2 DEF Create
  <2>2. k # minted + 1
    BY <1>1
  <2> QED BY <1>1, <2>1, <2>2
<1>3. ASSUME NEW w \in Workers, Apply(w) PROVE index'[k] = index[k] \/ index'[k] = NULL
  <2>1. index' = [index EXCEPT ![pending[w].added.tok] = pending[w].sid]
    BY <1>3 DEF Apply
  <2>2. index[pending[w].added.tok] = NULL
    BY <1>3 DEF Apply, Tracked, MintingOK, Minting
  <2> QED BY <1>1, <2>1, <2>2
<1>4. ASSUME NEW a \in Actors, Purge(a) PROVE index'[k] = index[k] \/ index'[k] = NULL
  <2>1. \E r : index' = [index EXCEPT ![r.tok] = NULL]
    BY <1>4 DEF Purge
  <2> QED BY <1>1, <2>1
<1>5. ASSUME NEW s \in Sids, SweepRemove(s) PROVE index'[k] = index[k] \/ index'[k] = NULL
  BY <1>5 DEF SweepRemove
<1>6. CASE Tick \/ UNCHANGED vars
  BY <1>6 DEF Tick, vars
<1>9. CASE \E w \in Workers, s \in Sids : Tombstone(w, s)
  BY <1>9 DEF Tombstone
<1>10. CASE \E s \in Sids, status \in CustodyStatus : SetCustodyStatus(s, status)
  BY <1>10 DEF SetCustodyStatus
<1>7. ASSUME NEW w \in Workers, HandlerNext(w)
      PROVE  index'[k] = index[k] \/ index'[k] = NULL
  <2>1. CASE Apply(w) \/ Purge(w)
    BY <1>3, <1>4, <2>1 DEF Actors
  <2>2. CASE \/ FinishCreate(w) \/ RefreshDenied(w) \/ RefreshCoalesced(w)
            \/ RefreshRotated(w) \/ FinishRefresh(w) \/ FinishTombstone(w)
            \/ \E tok \in Tokens : BeginRefresh(w, tok)
    BY <2>2 DEF FinishCreate, RefreshDenied, RefreshCoalesced, RefreshRotated,
                FinishRefresh, FinishTombstone, BeginRefresh
  <2> QED BY <1>7, <2>1, <2>2 DEF HandlerNext
<1>8. CASE SweepNext
  <2>1. CASE Purge(Sweeper) \/ \E s \in Sids : SweepRemove(s)
    BY <1>4, <1>5, <2>1 DEF Actors
  <2>2. CASE \/ SweepStart \/ SweepApplied \/ SweepEnd
            \/ \E s \in Sids : SweepMark(s) \/ SweepReap(s)
    BY <2>2 DEF SweepStart, SweepApplied, SweepEnd, SweepMark, SweepReap
  <2> QED BY <1>8, <2>1, <2>2 DEF SweepNext
<1> QED BY <1>2, <1>6, <1>7, <1>8, <1>9, <1>10 DEF Next

\* No refresh, purge, removal or login gives a token back what it has lost for
\* good: retired, aged out, or of a session logged out, past its absolute end or
\* revoked upstream, it never authenticates again.
THEOREM RefusalsAreFinal == Spec => RefusalIsFinal
<1>1. ASSUME Solid, Tracked, [Next]_vars, NEW tok \in Tokens,
             Resolve(tok) \in {"stale", "retired", "expired"},
             Resolve(tok) = "expired" => SessionExpiry(EntryOf(tok), now) # "idle"
      PROVE  Resolve(tok)' # "active"
  <2> SUFFICES ASSUME Resolve(tok)' = "active" PROVE FALSE
    OBVIOUS
  <2>1. /\ index[tok] # NULL /\ sessions[index[tok]] # NULL
        /\ Resolve(tok) = Classify(sessions[index[tok]], tok, now)
    BY <1>1 DEF Resolve, ResolveAt
  <2>2. /\ index'[tok] # NULL /\ sessions'[index'[tok]] # NULL
        /\ Classify(sessions'[index'[tok]], tok, now') = "active"
    BY DEF Resolve, ResolveAt
  <2>3. PICK s \in Sids : s = index[tok]
    <3>1. index \in [Tokens -> Option(Sids)]
      BY <1>1 DEF Solid, IInv, TypeOK
    <3> QED BY <2>1, <3>1 DEF Option
  <2>4. index'[tok] = s
    BY <1>1, <2>1, <2>2, <2>3, IndexKept
  <2>5. Live(s) /\ Live(s)'
    BY <2>1, <2>2, <2>3, <2>4 DEF Live
  <2>6. tok \in 1..minted
    BY <1>1, <2>1 DEF Tracked, IndexMinted
  <2> DEFINE e == sessions[s]
             f == sessions'[s]
             n == minted
             m == minted'
             u == now
             v == now'
  <2>7. /\ e \in SessionEntry /\ f \in SessionEntry /\ EntryOK(e, n)
        /\ Sound(e, n, u) /\ Sound(f, m, v)
        /\ u \in Nat /\ n \in Nat /\ m \in Nat
        /\ v = u \/ v = u + 1
    BY <1>1, <2>5, SolidMoves
  <2>8. PICK t \in Nat : Moves(e, f, t, u, n, m)
    BY <1>1, <2>5, SolidMoves
  <2>9. /\ tok \in 1..n
        /\ Classify(e, tok, u) \in {"stale", "retired", "expired"}
        /\ Classify(e, tok, u) = "expired" => SessionExpiry(e, u) # "idle"
        /\ Classify(f, tok, v) = "active"
    BY <1>1, <2>1, <2>2, <2>3, <2>4, <2>6 DEF EntryOf
  <2> HIDE DEF e, f, n, m, u, v
  <2>10. Ordered(e.gens) /\ Ordered(f.gens) /\ v \in Nat /\ u <= v
    BY <2>7 DEF Sound
  <2> QED BY <2>7, <2>8, <2>9, <2>10, RefusedStays
<1>2. Solid /\ Tracked /\ [Next]_vars =>
        [\A tok \in Tokens :
           /\ Resolve(tok) \in {"stale", "retired", "expired"}
           /\ Resolve(tok) = "expired" => SessionExpiry(EntryOf(tok), now) # "idle"
           => Resolve(tok)' # "active"]_vars
  BY <1>1
<1> QED BY <1>2, TrackedInvariance, PTL DEF Spec, RefusalIsFinal
----------------------------------------------------------------------------
(***************************************************************************)
(* Rotation takes nothing from a cookie, where the cap is wide enough for  *)
(* the grace window and no call stalls for as long as that window, or for  *)
(* as long as a session may be idle.                                       *)
(***************************************************************************)
RotationIsGentle ==
    /\ MaxStall < Grace
    /\ MaxStall < IdleTtl
    /\ Grace <= (Cap - 1) * Coalesce

\* More windows take longer.
LEMMA MoreWindows ==
  ASSUME NEW j \in Nat, NEW k \in Nat, j <= k
  PROVE  j * Coalesce <= k * Coalesce
<1> DEFINE d == k - j
<1>1. Coalesce \in Nat
  BY PolicyAssumption
<1>2. d \in Nat /\ k = j + d
  OBVIOUS
<1> HIDE DEF d
<1>3. (j + d) * Coalesce = j * Coalesce + d * Coalesce
  BY <1>1, <1>2
<1>4. j * Coalesce \in Nat /\ d * Coalesce \in Nat
  BY <1>1, <1>2
<1> QED BY <1>2, <1>3, <1>4

\* Among Cap generations above g, one is at least Cap places above it.
LEMMA FarAbove ==
  ASSUME NEW kept \in SUBSET Generation, IsFiniteSet(kept), Ordered(kept),
         NEW g \in OverCap(kept)
  PROVE  \E h \in kept : h.pos >= g.pos + Cap
<1> DEFINE A == {h \in kept : h.pos > g.pos}
           T == (g.pos + 1) .. (g.pos + Cap - 1)
           f == [h \in A |-> h.pos]
<1>1. Cap \in Nat /\ Cap >= 1
  BY PolicyAssumption DEF Cap
<1>2. g \in kept /\ Cardinality(A) >= Cap /\ g.pos \in Nat
  BY DEF OverCap, Generation
<1> SUFFICES ASSUME \A h \in kept : ~ (h.pos >= g.pos + Cap) PROVE FALSE
  OBVIOUS
<1>3. \A h \in A : h.pos \in T
  BY <1>1, <1>2 DEF Generation
<1>4. \A x, y \in A : x # y => x.pos # y.pos
  BY DEF Ordered, Generation
<1>5. f \in Injection(A, T)
  BY <1>3, <1>4, Zenon DEF Injection, IsInjective
<1>6. IsFiniteSet(T) /\ Cardinality(T) = (IF g.pos + 1 > g.pos + Cap - 1 THEN 0 ELSE Cap - 1)
  <2>1. g.pos + 1 \in Int /\ g.pos + Cap - 1 \in Int
    BY <1>1, <1>2
  <2>2. /\ IsFiniteSet(T)
        /\ Cardinality(T) = IF g.pos + 1 > g.pos + Cap - 1 THEN 0
                            ELSE (g.pos + Cap - 1) - (g.pos + 1) + 1
    BY <2>1, FS_Interval
  <2> QED BY <1>1, <1>2, <2>2
<1>7. Cardinality(A) <= Cardinality(T)
  BY <1>5, <1>6, FS_Injection
<1>8. Cardinality(A) \in Nat
  BY FS_Subset, FS_CardinalityType
<1> HIDE DEF A, T
<1> QED BY <1>1, <1>2, <1>6, <1>7, <1>8

\* What the cap evicts has had its grace.
LEMMA EvictedEnded ==
  ASSUME NEW kept \in SUBSET Generation, IsFiniteSet(kept), Ordered(kept), Rationed(kept),
         NEW u \in Nat, \A h \in kept : h.created_at <= u,
         Grace <= (Cap - 1) * Coalesce, NEW g \in OverCap(kept)
  PROVE  ResourceValidUntil(g) <= u
<1>1. Cap \in Nat /\ Cap >= 1 /\ Coalesce \in Nat /\ Grace \in Nat
  BY PolicyAssumption DEF Cap
<1>2. g \in kept /\ g \in Generation
  BY DEF OverCap
<1>3. PICK h \in kept : h.pos >= g.pos + Cap
  BY FarAbove
<1>4. h \in Generation
  OBVIOUS
<1> DEFINE k == h.pos - g.pos - 1
<1>5. k \in Nat /\ Cap - 1 \in Nat /\ Cap - 1 <= k /\ g.pos < h.pos
  BY <1>1, <1>2, <1>3, <1>4 DEF Generation
<1>6. g.superseded_at # NULL /\ g.superseded_at + k * Coalesce <= h.created_at
  BY <1>2, <1>3, <1>5 DEF Rationed
<1> HIDE DEF k
<1>7. (Cap - 1) * Coalesce <= k * Coalesce
  BY <1>5, MoreWindows
<1>8. k * Coalesce \in Nat /\ (Cap - 1) * Coalesce \in Nat
  BY <1>1, <1>5
<1>9. g.superseded_at \in Nat /\ h.created_at \in Nat /\ g.active_until \in Nat
  BY <1>2, <1>4, <1>6 DEF Generation, Option
<1>10. g.superseded_at + Grace <= u
  BY <1>1, <1>3, <1>6, <1>7, <1>8, <1>9
<1> QED BY <1>1, <1>6, <1>9, <1>10 DEF ResourceValidUntil, Earlier

\* A reaping at t keeps what authenticates at u, now or later than t.
LEMMA ReapKeepsActive ==
  ASSUME NEW e \in SessionEntry, NEW t \in Nat, NEW u \in Nat, t <= u, NEW n,
         EntryOK(e, n), Sound(e, n, u), RotationIsGentle,
         NEW g \in e.gens, u < ResourceValidUntil(g)
  PROVE  g \in ReapGenerations(e, t).gens
<1> DEFINE kept == e.gens \ Lapsed(e, t)
<1>1. ReapGenerations(e, t).gens = kept \ OverCap(kept)
  BY DEF ReapGenerations, SessionEntry, Retiring
<1>2. ResourceValidUntil(g) \in Nat
  BY UntilNat DEF SessionEntry
<1>3. g \in kept
  BY <1>2 DEF Lapsed
<1>4. Coalesce > 0
  BY PolicyAssumption, MapAssumption DEF RotationIsGentle, Cap
<1>5. /\ kept \in SUBSET Generation /\ IsFiniteSet(kept) /\ Ordered(kept) /\ Rationed(kept)
      /\ \A h \in kept : h.created_at <= u
  BY <1>4, FS_Subset DEF SessionEntry, EntryOK, Sound, Ordered, Rationed
<1> HIDE DEF kept
<1>6. g \notin OverCap(kept)
  BY <1>2, <1>5, EvictedEnded DEF RotationIsGentle
<1> QED BY <1>1, <1>3, <1>6
\* The idle end only moves with a refresh.
LEMMA MoveIdle ==
  ASSUME NEW e \in SessionEntry, NEW f \in SessionEntry, NEW t \in Nat, NEW u, NEW n \in Nat,
         NEW m, EntryOK(e, n), Moves(e, f, t, u, n, m)
  PROVE  \/ f.idle_exp = e.idle_exp
         \/ /\ SessionExpiry(e, t) = NULL /\ u <= t + MaxStall
            /\ f.idle_exp = Earlier(t + IdleTtl, e.absolute_exp)
<1>1. CASE \/ f = e \/ f = Killed(e, u) \/ f = ReapGenerations(e, t)
          \/ \E status \in CustodyStatus : f = [e EXCEPT !.custody_status = status]
  BY <1>1 DEF Killed, ReapGenerations, SessionEntry
<1>2. CASE f = Slide(e, t) /\ SessionExpiry(e, t) = NULL /\ u <= t + MaxStall
  BY <1>2 DEF Slide, SessionEntry
<1>3. CASE f = Refreshed(e, n + 1, t) /\ SessionExpiry(e, t) = NULL /\ u <= t + MaxStall
           /\ ~ Coalesces(e, t)
  <2> DEFINE x == Rotated(e, n + 1, t)
             y == ReapGenerations(x, t)
  <2>1. e.status = "alive"
    BY <1>3, UsableAlive
  <2>2. x \in SessionEntry /\ EntryOK(x, n + 1)
    BY <1>3, <2>1, RotatedOK
  <2>3. x.absolute_exp = e.absolute_exp
    BY DEF Rotated, SessionEntry
  <2> HIDE DEF x
  <2>4. y \in SessionEntry /\ y.absolute_exp = x.absolute_exp
    BY <2>2, ReapOK DEF ReapGenerations, SessionEntry
  <2> HIDE DEF y
  <2>5. f = Slide(y, t)
    BY <1>3 DEF Refreshed, x, y
  <2>6. f.idle_exp = Earlier(t + IdleTtl, y.absolute_exp)
    BY <2>4, <2>5 DEF Slide, SessionEntry
  <2> QED BY <1>3, <2>3, <2>4, <2>6
<1> QED BY <1>1, <1>2, <1>3 DEF Moves

\* A move keeps a generation that authenticates.
LEMMA MoveKeepsGeneration ==
  ASSUME NEW e \in SessionEntry, NEW f \in SessionEntry, NEW t \in Nat, NEW u \in Nat, t <= u,
         NEW n \in Nat, NEW m \in Nat, EntryOK(e, n), Sound(e, n, u), RotationIsGentle,
         Moves(e, f, t, u, n, m), NEW g \in e.gens, u < ResourceValidUntil(g)
  PROVE  \E h \in f.gens : h.tok = g.tok /\ u < ResourceValidUntil(h)
<1>1. CASE \/ f = e \/ f = Slide(e, t) \/ f = Killed(e, u)
          \/ \E status \in CustodyStatus : f = [e EXCEPT !.custody_status = status]
  <2>1. f.gens = e.gens
    BY <1>1 DEF Slide, Killed, SessionEntry
  <2> QED BY <2>1
<1>2. CASE f = ReapGenerations(e, t)
  BY <1>2, ReapKeepsActive
<1>3. CASE f = Refreshed(e, n + 1, t) /\ SessionExpiry(e, t) = NULL /\ u <= t + MaxStall
           /\ ~ Coalesces(e, t)
  <2> DEFINE x == Rotated(e, n + 1, t)
             y == ReapGenerations(x, t)
  <2>1. e.status = "alive"
    BY <1>3, UsableAlive
  <2>2. x \in SessionEntry /\ EntryOK(x, n + 1) /\ Sound(x, n + 1, u)
    BY <1>3, <2>1, RotatedOK, RotatedSound
  <2>3. PICK c \in e.gens : IsCurrent(e, c)
    BY DEF EntryOK
  <2> DEFINE old == [c EXCEPT !.superseded_at = t]
             top == NewGeneration(e.current_gen + 1, n + 1, t, c.pos + 1)
  <2>4. /\ x.gens = (e.gens \ {c}) \cup {old, top}
        /\ old.tok = c.tok /\ old.superseded_at = t /\ old.active_until = c.active_until
    <3>1. n + 1 \in Nat
      OBVIOUS
    <3> QED BY <2>3, <3>1, RotatedGens
  <2> HIDE DEF x, old, top
  <2>5. \E h \in x.gens : h.tok = g.tok /\ u < ResourceValidUntil(h)
    <3>1. CASE g # c
      BY <2>4, <3>1
    <3>2. CASE g = c
      <4>1. ResourceValidUntil(old) = Earlier(c.active_until, t + Grace)
        BY <2>4, NullAssumption DEF ResourceValidUntil
      <4>2. u < c.active_until /\ c.active_until \in Nat
        BY <2>3, <3>2 DEF ResourceValidUntil, IsCurrent, SessionEntry, Generation
      <4>3. u < t + Grace
        BY <1>3, PolicyAssumption, MapAssumption DEF RotationIsGentle
      <4>4. u < ResourceValidUntil(old)
        BY <4>1, <4>2, <4>3 DEF Earlier
      <4> QED BY <2>4, <3>2, <4>4
    <3> QED BY <3>1, <3>2
  <2>6. PICK h \in x.gens : h.tok = g.tok /\ u < ResourceValidUntil(h)
    BY <2>5
  <2>7. h \in y.gens
    <3>1. n + 1 \in Nat
      OBVIOUS
    <3> QED BY <2>2, <2>6, <3>1, ReapKeepsActive
  <2>8. y \in SessionEntry
    BY <2>2, ReapOK
  <2> HIDE DEF y
  <2>9. f.gens = y.gens
    BY <1>3, <2>8 DEF Refreshed, Slide, SessionEntry, x, y
  <2> QED BY <2>6, <2>7, <2>9
<1> QED BY <1>1, <1>2, <1>3 DEF Moves

\* A move takes access from no token, unless it kills the session or the grant.
LEMMA ActiveStays ==
  ASSUME NEW e \in SessionEntry, NEW f \in SessionEntry, NEW t \in Nat, NEW u \in Nat, t <= u,
         NEW n \in Nat, NEW m \in Nat, EntryOK(e, n), Sound(e, n, u), RotationIsGentle,
         Moves(e, f, t, u, n, m), Ordered(f.gens), NEW tok, Classify(e, tok, u) = "active"
  PROVE  Classify(f, tok, u) = "active" \/ f.status = "tombstoned" \/ f.custody_status = "dead"
<1> SUFFICES ASSUME f.status # "tombstoned", f.custody_status # "dead"
             PROVE  Classify(f, tok, u) = "active"
  OBVIOUS
<1>1. Ordered(e.gens)
  BY DEF Sound
<1>2. SessionExpiry(e, u) = NULL
  BY <1>1, Meaning
<1>3. PICK g \in e.gens : g.tok = tok /\ u < ResourceValidUntil(g)
  BY <1>1, Meaning
<1>4. PICK h \in f.gens : h.tok = tok /\ u < ResourceValidUntil(h)
  BY <1>3, MoveKeepsGeneration
<1>5. u < e.absolute_exp /\ u < e.idle_exp /\ e.absolute_exp \in Nat
  BY <1>2, Expiry DEF SessionEntry
<1>6. u < f.absolute_exp
  BY <1>5, MoveFacts
<1>7. u < f.idle_exp
  <2>1. CASE f.idle_exp = e.idle_exp
    BY <1>5, <2>1
  <2>2. CASE u <= t + MaxStall /\ f.idle_exp = Earlier(t + IdleTtl, e.absolute_exp)
    BY <1>5, <2>2, PolicyAssumption, MapAssumption DEF RotationIsGentle, Earlier
  <2> QED BY <2>1, <2>2, MoveIdle
<1>8. f.status = "alive"
  BY DEF SessionEntry, SessionStatus
<1>9. SessionExpiry(f, u) = NULL
  BY <1>6, <1>7, <1>8, Expiry
<1> QED BY <1>4, <1>9, Meaning

----------------------------------------------------------------------------
(***************************************************************************)
(* What the sweeper is about to remove.                                    *)
(***************************************************************************)
\* A session marked for removal was killed, or had been idle for a whole grace
\* window when the sweep began: no call in flight can bring it back.
DoomedOK ==
    sweep # NULL =>
        \A s \in sweep.doomed :
            /\ s \in used
            /\ Live(s) => \/ sessions[s].status = "tombstoned"
                          \/ sessions[s].idle_exp + Grace <= sweep.at

LEMMA SweepMoves ==
  ASSUME TypeOK, [Next]_vars, sweep' # NULL, NEW s \in sweep'.doomed
  PROVE  /\ sweep # NULL /\ sweep'.at = sweep.at
         /\ \/ s \in sweep.doomed
            \/ s \in Sids /\ Live(s) /\ Collectible(sessions[s], sweep.at) /\ sessions' = sessions
<1>1. CASE sweep' = sweep
  BY <1>1
<1>2. sweep \in Option([at : Nat, visit : SUBSET Sids, doomed : SUBSET Sids])
  BY DEF TypeOK
<1>3. CASE SweepNext
  <2>1. CASE SweepStart
    BY <2>1 DEF SweepStart
  <2>2. CASE \E x \in Sids : SweepMark(x)
    <3>1. PICK x \in Sids : SweepMark(x)
      BY <2>2
    <3>2. /\ sweep # NULL /\ Live(x) /\ Collectible(sessions[x], sweep.at)
          /\ sweep' = [sweep EXCEPT !.visit = @ \ {x}, !.doomed = @ \cup {x}]
          /\ sessions' = sessions
      BY <3>1 DEF SweepMark
    <3>3. sweep'.at = sweep.at /\ sweep'.doomed = sweep.doomed \cup {x}
      BY <1>2, <3>2 DEF Option
    <3> QED BY <3>2, <3>3
  <2>3. CASE \E x \in Sids : SweepReap(x) \/ SweepRemove(x)
    <3>1. sweep # NULL /\ sweep'.at = sweep.at /\ sweep'.doomed \subseteq sweep.doomed
      BY <1>2, <2>3 DEF SweepReap, SweepRemove, Option
    <3> QED BY <3>1
  <2>4. CASE Purge(Sweeper) \/ SweepApplied
    BY <1>1, <2>4 DEF Purge, SweepApplied
  <2>5. ~ SweepEnd
    BY DEF SweepEnd
  <2> QED BY <1>3, <2>1, <2>2, <2>3, <2>4, <2>5 DEF SweepNext
<1>4. ASSUME NEW w \in Workers, HandlerNext(w) PROVE sweep' = sweep
  BY <1>4 DEF HandlerNext, FinishCreate, BeginRefresh, RefreshDenied, RefreshCoalesced,
              RefreshRotated, Apply, Purge, FinishRefresh, FinishTombstone
<1>5. CASE \/ Tick
          \/ \E w \in Workers, x \in Sids : Create(w, x)
  BY <1>1, <1>5 DEF Tick, Create
<1>6. CASE \E w \in Workers, x \in Sids : Tombstone(w, x)
  BY <1>1, <1>6 DEF Tombstone
<1>7. CASE \E x \in Sids, status \in CustodyStatus : SetCustodyStatus(x, status)
  BY <1>1, <1>7 DEF SetCustodyStatus
<1>8. CASE UNCHANGED vars
  BY <1>1, <1>8 DEF vars
<1>9. CASE \E w \in Workers : HandlerNext(w)
  BY <1>1, <1>4, <1>9
<1> QED BY <1>3, <1>5, <1>6, <1>7, <1>8, <1>9 DEF Next

LEMMA InitDoomed == Init => DoomedOK
BY DEF Init, DoomedOK

LEMMA NextDoomed ==
  ASSUME Solid, DoomedOK, RotationIsGentle, [Next]_vars
  PROVE  DoomedOK'
<1> SUFFICES ASSUME sweep' # NULL, NEW s \in sweep'.doomed
             PROVE  /\ s \in used'
                    /\ Live(s)' => \/ sessions'[s].status = "tombstoned"
                                   \/ sessions'[s].idle_exp + Grace <= sweep'.at
  BY DEF DoomedOK
<1>1. TypeOK /\ Grace > 0 /\ Grace \in Nat /\ MaxStall \in Nat
  BY PolicyAssumption, MapAssumption DEF Solid, IInv, RotationIsGentle
<1>2. /\ sweep # NULL /\ sweep'.at = sweep.at
      /\ \/ s \in sweep.doomed
         \/ s \in Sids /\ Live(s) /\ Collectible(sessions[s], sweep.at) /\ sessions' = sessions
  BY <1>1, SweepMoves
<1>3. sweep \in [at : Nat, visit : SUBSET Sids, doomed : SUBSET Sids] /\ sweep.at <= now
  BY <1>1, <1>2 DEF TypeOK, Option, Solid, ClocksOK
<1>4. CASE Live(s) /\ s \in Sids /\ Collectible(sessions[s], sweep.at) /\ sessions' = sessions
  <2>1. sessions[s] \in SessionEntry /\ s \in used
    BY <1>1, <1>4 DEF TypeOK, Live, Option, Solid, Drawn
  <2>2. \/ sessions[s].status = "tombstoned"
        \/ Since(sweep.at, sessions[s].idle_exp) >= Grace
    BY <1>4 DEF Collectible, SessionExpiry
  <2>3. \/ sessions[s].status = "tombstoned"
        \/ sessions[s].idle_exp + Grace <= sweep.at
    BY <1>1, <1>3, <2>1, <2>2 DEF Since, SessionEntry
  <2> QED BY <1>2, <1>4, <2>1, <2>3, UsedGrows
<1>5. CASE s \in sweep.doomed
  <2>1. s \in used /\ s \in used' /\ s \in Sids
    BY <1>2, <1>3, <1>5, UsedGrows DEF DoomedOK
  <2>2. ASSUME Live(s)'
        PROVE  \/ sessions'[s].status = "tombstoned"
               \/ sessions'[s].idle_exp + Grace <= sweep'.at
    <3>1. Live(s)
      BY <2>1, <2>2, EntryMoves DEF Solid
    <3> DEFINE e == sessions[s]
               f == sessions'[s]
    <3>2. /\ e \in SessionEntry /\ f \in SessionEntry /\ EntryOK(e, minted)
          /\ now \in Nat /\ minted \in Nat /\ minted' \in Nat
      BY <2>1, <2>2, <3>1, SolidMoves
    <3>3. PICK t \in Nat : t <= now /\ Moves(e, f, t, now, minted, minted')
      BY <2>1, <2>2, <3>1, SolidMoves
    <3>4. e.status = "tombstoned" \/ e.idle_exp + Grace <= sweep.at
      BY <1>2, <1>5, <3>1 DEF DoomedOK
    <3> HIDE DEF e, f
    <3>5. CASE e.status = "tombstoned"
      BY <3>2, <3>3, <3>5, MoveFacts DEF f
    <3>6. CASE e.idle_exp + Grace <= sweep.at
      <4>1. \/ f.idle_exp = e.idle_exp
            \/ SessionExpiry(e, t) = NULL /\ now <= t + MaxStall
        BY <3>2, <3>3, MoveIdle
      <4>2. ASSUME SessionExpiry(e, t) = NULL, now <= t + MaxStall PROVE FALSE
        <5>1. t < e.idle_exp /\ e.idle_exp \in Nat
          BY <3>2, <4>2, Expiry DEF SessionEntry
        <5> QED BY <1>1, <1>3, <3>2, <3>6, <4>2, <5>1 DEF RotationIsGentle
      <4> QED BY <1>2, <3>6, <4>1, <4>2 DEF f
    <3> QED BY <3>4, <3>5, <3>6
  <2> QED BY <2>1, <2>2
<1> QED BY <1>2, <1>4, <1>5
LEMMA DoomedInvariance == RotationIsGentle => (Spec => [](Solid /\ Tracked /\ DoomedOK))
<1> SUFFICES ASSUME RotationIsGentle PROVE Spec => [](Solid /\ Tracked /\ DoomedOK)
  OBVIOUS
<1>1. Solid /\ Tracked /\ DoomedOK /\ [Next]_vars => (Solid /\ Tracked /\ DoomedOK)'
  BY NextSolid, NextTracked, NextDoomed
<1> QED BY <1>1, InitSolid, InitTracked, InitDoomed, PTL DEF Spec

\* Only a removal takes an entry out of the map, and only a kill changes its
\* status.
LEMMA StaysLive ==
  ASSUME Solid, [Next]_vars, NEW s \in Sids, Live(s), ~ SweepRemove(s)
  PROVE  /\ Live(s)'
         /\ (\A w \in Workers : ~ Tombstone(w, s)) => sessions'[s].status = sessions[s].status
<1> DEFINE kept == /\ sessions'[s] # NULL
                   /\ (\A w \in Workers : ~ Tombstone(w, s))
                         => sessions'[s].status = sessions[s].status
<1>1. /\ sessions \in [Sids -> Option(SessionEntry)] /\ sessions[s] # NULL
      /\ now \in Nat /\ minted \in Nat
  <2>1. minted \in 0..MaxTokens /\ now \in Nat /\ sessions \in [Sids -> Option(SessionEntry)]
    BY DEF Solid, IInv, TypeOK
  <2> QED BY <2>1, MapAssumption DEF Live
<1>2. \A x \in Sids, f \in SessionEntry :
        /\ sessions' = [sessions EXCEPT ![x] = f]
        /\ x = s /\ (\A w \in Workers : ~ Tombstone(w, s)) => f.status = sessions[x].status
        => kept
  BY <1>1, NullAssumption
<1>3. sessions' = sessions => kept
  BY <1>1
<1>4. \A x \in Sids : Live(x) => sessions[x] \in SessionEntry /\ EntryOK(sessions[x], minted)
  BY <1>1 DEF Live, Option, Solid, IInv, EntriesOK
<1>5. ASSUME NEW w \in Workers, NEW x \in Sids, Create(w, x) PROVE kept
  <2>1. sessions' = [sessions EXCEPT ![x] = NewEntry(minted + 1, now)]
    BY <1>5 DEF Create
  <2>2. NewEntry(minted + 1, now) \in SessionEntry
    BY <1>1, NewEntryOK
  <2>3. x # s
    BY <1>5 DEF Create, Solid, Drawn
  <2> QED BY <1>2, <2>1, <2>2, <2>3
<1>6. ASSUME NEW w \in Workers, NEW x \in Sids, Tombstone(w, x) PROVE kept
  <2>1. Live(x) /\ sessions' = [sessions EXCEPT ![x] = Killed(sessions[x], now)]
    BY <1>6 DEF Tombstone, Killed
  <2>2. Killed(sessions[x], now) \in SessionEntry
    BY <1>1, <1>4, <2>1 DEF Killed, Option, SessionEntry, SessionStatus
  <2> QED BY <1>2, <1>6, <2>1, <2>2
<1>7. ASSUME NEW x \in Sids, NEW status \in CustodyStatus, SetCustodyStatus(x, status)
      PROVE  kept
  <2> DEFINE f == [sessions[x] EXCEPT !.custody_status = status]
  <2>1. Live(x) /\ sessions' = [sessions EXCEPT ![x] = f]
    BY <1>7 DEF SetCustodyStatus
  <2>2. f \in SessionEntry /\ f.status = sessions[x].status
    BY <1>4, <2>1 DEF SessionEntry
  <2> HIDE DEF f
  <2> QED BY <1>2, <2>1, <2>2
<1>8. ASSUME NEW w \in Workers, RefreshCoalesced(w) PROVE kept
  <2>1. PICK x \in Sids, at \in Nat : x = index[call[w].tok] /\ at = call[w].at
    BY <1>8, RefreshEntry DEF RefreshCoalesced, Solid
  <2>2. sessions' = [sessions EXCEPT ![x] = Slide(sessions[x], at)] /\ Live(x)
    BY <1>8, <2>1, RefreshEntry DEF RefreshCoalesced, Solid
  <2>3. Slide(sessions[x], at) \in SessionEntry
    BY <1>4, <2>2, SlideOK
  <2>4. Slide(sessions[x], at).status = sessions[x].status
    BY <1>4, <2>2 DEF Slide, SessionEntry
  <2> QED BY <1>2, <2>2, <2>3, <2>4
<1>9. ASSUME NEW w \in Workers, RefreshRotated(w) PROVE kept
  <2>1. PICK x \in Sids, at \in Nat : x = index[call[w].tok] /\ at = call[w].at
    BY <1>9, RefreshEntry DEF RefreshRotated, Solid
  <2> DEFINE rotated == Rotated(sessions[x], minted + 1, at)
  <2>2. /\ sessions' = [sessions EXCEPT ![x] = Slide(ReapGenerations(rotated, at), at)]
        /\ Live(x) /\ sessions[x].status = "alive" /\ ~ Coalesces(sessions[x], at)
    BY <1>9, <2>1, RefreshEntry DEF RefreshRotated, Solid
  <2>3. rotated \in SessionEntry /\ EntryOK(rotated, minted + 1)
    BY <1>1, <1>4, <2>2, RotatedOK
  <2>4. rotated.status = sessions[x].status
    BY <1>4, <2>2 DEF Rotated, SessionEntry
  <2> HIDE DEF rotated
  <2> DEFINE reaped == ReapGenerations(rotated, at)
  <2>5. /\ reaped \in SessionEntry /\ EntryOK(reaped, minted + 1)
        /\ reaped.status = rotated.status
    BY <2>3, ReapOK DEF ReapGenerations, SessionEntry
  <2> HIDE DEF reaped
  <2>6. Slide(reaped, at) \in SessionEntry /\ Slide(reaped, at).status = reaped.status
    BY <2>5, SlideOK DEF Slide, SessionEntry
  <2> QED BY <1>2, <2>2, <2>4, <2>5, <2>6 DEF reaped
<1>10. ASSUME NEW x \in Sids, SweepReap(x) PROVE kept
  <2>1. /\ Live(x) /\ sweep # NULL
        /\ sessions' = [sessions EXCEPT ![x] = ReapGenerations(sessions[x], sweep.at)]
    BY <1>10 DEF SweepReap
  <2>2. sweep.at \in Nat
    BY <2>1 DEF Solid, IInv, TypeOK, Option
  <2>3. ReapGenerations(sessions[x], sweep.at) \in SessionEntry
    BY <1>4, <2>1, <2>2, ReapOK
  <2>4. ReapGenerations(sessions[x], sweep.at).status = sessions[x].status
    BY <1>4, <2>1 DEF ReapGenerations, SessionEntry
  <2> QED BY <1>2, <2>1, <2>3, <2>4
<1>11. ASSUME NEW x \in Sids, SweepRemove(x) PROVE kept
  <2>1. x # s /\ sessions' = [sessions EXCEPT ![x] = NULL]
    BY <1>11 DEF SweepRemove
  <2> QED BY <1>1, <2>1
<1>12. ASSUME NEW w \in Workers, HandlerNext(w) PROVE kept
  <2>1. CASE RefreshCoalesced(w) \/ RefreshRotated(w)
    BY <1>8, <1>9, <2>1
  <2>2. CASE \/ FinishCreate(w) \/ RefreshDenied(w) \/ Apply(w) \/ Purge(w)
            \/ FinishRefresh(w) \/ FinishTombstone(w)
            \/ \E tok \in Tokens : BeginRefresh(w, tok)
    BY <1>3, <2>2 DEF FinishCreate, RefreshDenied, Apply, Purge, FinishRefresh,
                      FinishTombstone, BeginRefresh
  <2> QED BY <1>12, <2>1, <2>2 DEF HandlerNext
<1>13. ASSUME SweepNext PROVE kept
  <2>1. CASE \E x \in Sids : SweepReap(x) \/ SweepRemove(x)
    BY <1>10, <1>11, <2>1
  <2>2. CASE \/ SweepStart \/ Purge(Sweeper) \/ SweepApplied \/ SweepEnd
            \/ \E x \in Sids : SweepMark(x)
    BY <1>3, <2>2 DEF SweepStart, Purge, SweepApplied, SweepEnd, SweepMark
  <2> QED BY <1>13, <2>1, <2>2 DEF SweepNext
<1>14. ASSUME Tick \/ UNCHANGED vars PROVE kept
  BY <1>3, <1>14 DEF Tick, vars
<1>15. kept
  BY <1>5, <1>6, <1>7, <1>12, <1>13, <1>14 DEF Next
<1> QED BY <1>15 DEF Live

\* A generation's token stays in the index for as long as its session stays in
\* the map.
LEMMA IndexStays ==
  ASSUME Solid, Tracked, [Next]_vars, NEW k \in Tokens, NEW s \in Sids, index[k] = s,
         Live(s), Live(s)', \E g \in sessions[s].gens : g.tok = k
  PROVE  index'[k] = s
<1>1. /\ index \in [Tokens -> Option(Sids)] /\ index[k] # NULL /\ index[k] = s
      /\ sessions[s] # NULL /\ sessions'[s] # NULL
      /\ sessions \in [Sids -> Option(SessionEntry)]
      /\ minted \in Nat /\ k \in 1..minted
  <2>1. minted \in 0..MaxTokens /\ index \in [Tokens -> Option(Sids)]
    BY DEF Solid, IInv, TypeOK
  <2>2. index[k] # NULL
    BY MapAssumption
  <2>3. k \in 1..minted
    BY <2>2 DEF Tracked, IndexMinted
  <2> QED BY <2>1, <2>2, <2>3, MapAssumption DEF Live, Solid, IInv, TypeOK
<1>2. ASSUME NEW w \in Workers, NEW x \in Sids, Create(w, x) PROVE index'[k] = s
  <2>1. index' = [index EXCEPT ![minted + 1] = x]
    BY <1>2 DEF Create
  <2>2. k # minted + 1
    BY <1>1
  <2> QED BY <1>1, <2>1, <2>2
<1>3. ASSUME NEW w \in Workers, Apply(w) PROVE index'[k] = s
  <2>1. index' = [index EXCEPT ![pending[w].added.tok] = pending[w].sid]
    BY <1>3 DEF Apply
  <2>2. index[pending[w].added.tok] = NULL
    BY <1>3 DEF Apply, Tracked, MintingOK, Minting
  <2> QED BY <1>1, <2>1, <2>2
<1>4. ASSUME NEW a \in Actors, Purge(a) PROVE index'[k] = s
  <2>1. PICK r \in pending[a].purged : index' = [index EXCEPT ![r.tok] = NULL]
    BY <1>4 DEF Purge
  <2>2. pending[a] # NULL
    BY <1>4 DEF Purge
  <2>3. r.tok # k
    BY <2>2 DEF Tracked, PurgedGone
  <2> QED BY <1>1, <2>1, <2>3
<1>5. ASSUME NEW x \in Sids, SweepRemove(x) PROVE index'[k] = s
  <2>1. /\ Live(x) /\ sessions' = [sessions EXCEPT ![x] = NULL]
        /\ index' = [t \in Tokens |-> IF t \in AllHashes(sessions[x]) THEN NULL ELSE index[t]]
    BY <1>5 DEF SweepRemove
  <2>2. x # s
    BY <1>1, <2>1
  <2>3. k \in AllHashes(sessions[s])
    BY DEF AllHashes
  <2>4. AllHashes(sessions[s]) \cap AllHashes(sessions[x]) = {}
    BY <2>1, <2>2 DEF Tracked, Disjoint
  <2>5. k \notin AllHashes(sessions[x])
    BY <2>3, <2>4
  <2> QED BY <1>1, <2>1, <2>5
<1>6. CASE Tick \/ UNCHANGED vars
  BY <1>1, <1>6 DEF Tick, vars
<1>7. CASE \E w \in Workers, x \in Sids : Tombstone(w, x)
  BY <1>1, <1>7 DEF Tombstone
<1>8. CASE \E x \in Sids, status \in CustodyStatus : SetCustodyStatus(x, status)
  BY <1>1, <1>8 DEF SetCustodyStatus
<1>9. ASSUME NEW w \in Workers, HandlerNext(w) PROVE index'[k] = s
  <2>1. CASE Apply(w) \/ Purge(w)
    BY <1>3, <1>4, <2>1 DEF Actors
  <2>2. CASE \/ FinishCreate(w) \/ RefreshDenied(w) \/ RefreshCoalesced(w)
            \/ RefreshRotated(w) \/ FinishRefresh(w) \/ FinishTombstone(w)
            \/ \E tok \in Tokens : BeginRefresh(w, tok)
    BY <1>1, <2>2 DEF FinishCreate, RefreshDenied, RefreshCoalesced, RefreshRotated,
                FinishRefresh, FinishTombstone, BeginRefresh
  <2> QED BY <1>9, <2>1, <2>2 DEF HandlerNext
<1>10. CASE SweepNext
  <2>1. CASE Purge(Sweeper) \/ \E x \in Sids : SweepRemove(x)
    BY <1>4, <1>5, <2>1 DEF Actors
  <2>2. CASE \/ SweepStart \/ SweepApplied \/ SweepEnd
            \/ \E x \in Sids : SweepMark(x) \/ SweepReap(x)
    BY <1>1, <2>2 DEF SweepStart, SweepApplied, SweepEnd, SweepMark, SweepReap
  <2> QED BY <1>10, <2>1, <2>2 DEF SweepNext
<1> QED BY <1>2, <1>6, <1>7, <1>8, <1>9, <1>10 DEF Next

\* The sweeper never removes a session one of whose tokens authenticates.
LEMMA ActiveNotRemoved ==
  ASSUME Solid, DoomedOK, RotationIsGentle, NEW s \in Sids, Live(s),
         SessionExpiry(sessions[s], now) = NULL
  PROVE  ~ SweepRemove(s)
<1> SUFFICES ASSUME SweepRemove(s) PROVE FALSE
  OBVIOUS
<1>1. sweep # NULL /\ s \in sweep.doomed
  BY DEF SweepRemove
<1>2. sessions[s].status = "tombstoned" \/ sessions[s].idle_exp + Grace <= sweep.at
  BY <1>1 DEF DoomedOK
<1>3. sweep.at \in Nat /\ sweep.at <= now /\ now \in Nat /\ sessions[s] \in SessionEntry
  BY <1>1 DEF Solid, ClocksOK, IInv, TypeOK, Option, Live
<1>4. sessions[s].status = "alive" /\ now < sessions[s].idle_exp
  BY <1>3, Expiry
<1>5. sessions[s].idle_exp \in Nat
  BY <1>3 DEF SessionEntry
<1> QED BY <1>2, <1>3, <1>4, <1>5, PolicyAssumption

\* Non-invalidating rotation, for every policy whose cap is as wide as its grace
\* window: no refresh, no sweep and no purge, in any order and from any reading of
\* the clock, takes resource access from a cookie that has it; only the passing of
\* time, a kill and a dead upstream grant do.
THEOREM RotationIsNonInvalidating ==
  RotationIsGentle => (Spec => RotationInvalidatesNothing)
<1> SUFFICES ASSUME RotationIsGentle PROVE Spec => RotationInvalidatesNothing
  OBVIOUS
<1>1. ASSUME Solid, Tracked, DoomedOK, [Next]_vars, NEW tok \in Tokens,
             Resolve(tok) = "active", now' = now
      PROVE  \/ Resolve(tok)' = "active"
             \/ EntryOf(tok)' # NULL /\ EntryOf(tok)'.status = "tombstoned"
             \/ EntryOf(tok)' # NULL /\ EntryOf(tok)'.custody_status = "dead"
  <2>1. /\ index[tok] # NULL /\ sessions[index[tok]] # NULL
        /\ Classify(sessions[index[tok]], tok, now) = "active"
    BY <1>1 DEF Resolve, ResolveAt
  <2>2. PICK s \in Sids : s = index[tok]
    <3>1. index \in [Tokens -> Option(Sids)]
      BY <1>1 DEF Solid, IInv, TypeOK
    <3> QED BY <2>1, <3>1 DEF Option
  <2>3. Live(s) /\ now \in Nat /\ sessions[s] \in SessionEntry /\ Ordered(sessions[s].gens)
    BY <1>1, <2>1, <2>2 DEF Live, Solid, IInv, TypeOK, SoundEntries, Sound, Option
  <2>4. /\ SessionExpiry(sessions[s], now) = NULL
        /\ \E g \in sessions[s].gens : g.tok = tok /\ now < ResourceValidUntil(g)
    BY <2>1, <2>2, <2>3, Meaning
  <2>5. Live(s)'
    BY <1>1, <2>3, <2>4, ActiveNotRemoved, StaysLive
  <2>6. index'[tok] = s
    BY <1>1, <2>2, <2>3, <2>4, <2>5, IndexStays
  <2> DEFINE e == sessions[s]
             f == sessions'[s]
             n == minted
             m == minted'
             u == now
  <2>7. /\ e \in SessionEntry /\ f \in SessionEntry /\ EntryOK(e, n)
        /\ Sound(e, n, u) /\ Sound(f, m, now')
        /\ u \in Nat /\ n \in Nat /\ m \in Nat
    BY <1>1, <2>3, <2>5, SolidMoves
  <2>8. PICK t \in Nat : t <= u /\ Moves(e, f, t, u, n, m)
    BY <1>1, <2>3, <2>5, SolidMoves
  <2>9. Classify(e, tok, u) = "active"
    BY <2>1, <2>2
  <2>10. Ordered(f.gens)
    BY <2>7 DEF Sound
  <2>11. f # NULL
    BY <2>5 DEF Live
  <2>12. /\ EntryOf(tok)' = f
         /\ Resolve(tok)' = Classify(f, tok, u)
    BY <1>1, <2>6, <2>11, MapAssumption DEF EntryOf, Resolve, ResolveAt
  <2> HIDE DEF e, f, n, m, u
  <2>13. Classify(f, tok, u) = "active" \/ f.status = "tombstoned" \/ f.custody_status = "dead"
    BY <2>7, <2>8, <2>9, <2>10, ActiveStays
  <2> QED BY <2>11, <2>12, <2>13
<1>2. Solid /\ Tracked /\ DoomedOK /\ [Next]_vars =>
        [\A tok \in Tokens :
          Resolve(tok) = "active" /\ now' = now =>
              \/ Resolve(tok)' = "active"
              \/ EntryOf(tok)' # NULL /\ EntryOf(tok)'.status = "tombstoned"
              \/ EntryOf(tok)' # NULL /\ EntryOf(tok)'.custody_status = "dead"]_vars
  BY <1>1
<1> QED BY <1>2, DoomedInvariance, PTL DEF Spec, RotationInvalidatesNothing
----------------------------------------------------------------------------
(***************************************************************************)
(* A session is killed at most once, and its killer announces it.          *)
(***************************************************************************)
\* The workers that have killed session s and not announced it yet.
Announcing(s) ==
    {w \in Workers : /\ pending[w] # NULL
                     /\ pending[w].sid = s
                     /\ pending[w].tombstone}

\* A session nobody killed is alive and nothing is said of it; one that was
\* killed stays killed, and was announced or has one worker about to.
KillsOK ==
    \A s \in Sids :
        \/ /\ kills[s] = 0
           /\ Announcing(s) = {}
           /\ Live(s) => sessions[s].status = "alive"
        \/ /\ \/ kills[s] = 1 /\ Announcing(s) = {}
              \/ kills[s] = 0 /\ \E w \in Workers : Announcing(s) = {w}
           /\ Live(s) => sessions[s].status = "tombstoned"
           /\ s \in used

LEMMA InitKills == Init => KillsOK
BY DEF Init, KillsOK, Announcing, Live, Actors

\* Steps that kill and announce nothing.
LEMMA KillsKept ==
  ASSUME Solid, KillsOK, [Next]_vars, kills' = kills,
         \A s \in Sids : Announcing(s)' = Announcing(s),
         \A w \in Workers, s \in Sids : ~ Tombstone(w, s)
  PROVE  KillsOK'
<1> SUFFICES ASSUME NEW s \in Sids
             PROVE  \/ /\ kills[s] = 0
                       /\ Announcing(s) = {}
                       /\ Live(s)' => sessions'[s].status = "alive"
                    \/ /\ \/ kills[s] = 1 /\ Announcing(s) = {}
                          \/ kills[s] = 0 /\ \E w \in Workers : Announcing(s) = {w}
                       /\ Live(s)' => sessions'[s].status = "tombstoned"
                       /\ s \in used'
  BY DEF KillsOK
<1>1. used \subseteq used'
  BY UsedGrows
<1>2. CASE Live(s)'
  <2>1. CASE Live(s)
    <3>1. ~ SweepRemove(s)
      <4>1. SweepRemove(s) => sessions'[s] = NULL
        BY DEF SweepRemove, Solid, IInv, TypeOK
      <4> QED BY <1>2, <4>1 DEF Live
    <3>2. sessions'[s].status = sessions[s].status
      BY <2>1, <3>1, StaysLive
    <3> QED BY <1>1, <1>2, <2>1, <3>2 DEF KillsOK
  <2>2. CASE ~ Live(s)
    <3>1. s \notin used /\ sessions'[s] = NewEntry(minted + 1, now)
      BY <1>2, <2>2, EntryMoves DEF Solid
    <3>2. sessions'[s].status = "alive"
      BY <3>1 DEF NewEntry
    <3> QED BY <3>1, <3>2 DEF KillsOK
  <2> QED BY <2>1, <2>2
<1>3. CASE ~ Live(s)'
  BY <1>1, <1>3 DEF KillsOK
<1> QED BY <1>2, <1>3

\* A worker's duty changes, but not whether it has a kill to announce.
LEMMA DutiesKept ==
  ASSUME pending \in [Actors -> Option(Pending)], NEW a \in Actors, NEW p,
         pending' = [pending EXCEPT ![a] = p],
         a \in Workers =>
            \A s \in Sids : (p # NULL /\ p.sid = s /\ p.tombstone) <=>
                            (pending[a] # NULL /\ pending[a].sid = s /\ pending[a].tombstone)
  PROVE  \A s \in Sids : Announcing(s)' = Announcing(s)
<1> SUFFICES ASSUME NEW s \in Sids, NEW w \in Workers
             PROVE  (pending'[w] # NULL /\ pending'[w].sid = s /\ pending'[w].tombstone) <=>
                    (pending[w] # NULL /\ pending[w].sid = s /\ pending[w].tombstone)
  BY ZenonT(40) DEF Announcing
<1>1. CASE w = a
  <2>1. pending'[w] = p
    BY <1>1
  <2> QED BY <1>1, <2>1, Zenon
<1>2. CASE w # a
  <2>1. pending'[w] = pending[w]
    BY <1>2 DEF Actors
  <2> QED BY <2>1, Zenon
<1> QED BY <1>1, <1>2

LEMMA DutyGone ==
  ASSUME pending \in [Actors -> Option(Pending)], NEW a \in Actors,
         pending' = [pending EXCEPT ![a] = NULL],
         a \in Workers => pending[a] = NULL \/ ~ pending[a].tombstone
  PROVE  \A s \in Sids : Announcing(s)' = Announcing(s)
<1> DEFINE p == NULL
<1>1. \A s \in Sids : a \in Workers =>
         ~ (pending[a] # NULL /\ pending[a].sid = s /\ pending[a].tombstone)
  BY Zenon
<1> QED BY <1>1, DutiesKept

LEMMA DutyTaken ==
  ASSUME pending \in [Actors -> Option(Pending)], NEW a \in Actors, NEW p,
         pending' = [pending EXCEPT ![a] = p], pending[a] = NULL, ~ p.tombstone
  PROVE  \A s \in Sids : Announcing(s)' = Announcing(s)
<1>1. \A s \in Sids : ~ (p # NULL /\ p.sid = s /\ p.tombstone)
  BY Zenon
<1>2. \A s \in Sids :
         ~ (pending[a] # NULL /\ pending[a].sid = s /\ pending[a].tombstone)
  BY Zenon
<1> QED BY <1>1, <1>2, DutiesKept

LEMMA DutyShrinks ==
  ASSUME pending \in [Actors -> Option(Pending)], NEW a \in Actors, pending[a] # NULL,
         NEW p \in Pending, pending' = [pending EXCEPT ![a] = p],
         p.sid = pending[a].sid, p.tombstone = pending[a].tombstone
  PROVE  \A s \in Sids : Announcing(s)' = Announcing(s)
<1>1. p # NULL
  BY PendingAssumption
<1>2. \A s \in Sids : (p # NULL /\ p.sid = s /\ p.tombstone) <=>
         (pending[a] # NULL /\ pending[a].sid = s /\ pending[a].tombstone)
  BY <1>1, Zenon
<1> QED BY <1>2, DutiesKept

\* The kill: of a session that is alive, by a worker with nothing else to do.
LEMMA TombstoneKills ==
  ASSUME Solid, KillsOK, NEW w \in Workers, NEW x \in Sids, Tombstone(w, x)
  PROVE  KillsOK'
<1> DEFINE p == [NothingPending(x, now) EXCEPT !.tombstone = TRUE]
<1>1. /\ Live(x) /\ sessions[x].status = "alive" /\ pending[w] = NULL
      /\ sessions' = [sessions EXCEPT ![x] = Killed(sessions[x], now)]
      /\ pending' = [pending EXCEPT ![w] = p]
      /\ kills' = kills /\ used' = used
  BY DEF Tombstone, Idle, Killed
<1>2. /\ pending \in [Actors -> Option(Pending)] /\ w \in Actors
      /\ sessions \in [Sids -> Option(SessionEntry)] /\ x \in used
      /\ sessions[x] \in SessionEntry /\ now \in Nat
  BY <1>1 DEF Solid, IInv, TypeOK, Actors, Drawn, Live, Option
<1>3. p \in Pending /\ p.sid = x /\ p.tombstone
  BY <1>2 DEF NothingPending, Pending, Option
<1> HIDE DEF p
<1>4. p # NULL
  BY <1>3, PendingAssumption
<1>5. Killed(sessions[x], now).status = "tombstoned"
  BY <1>2 DEF Killed, SessionEntry
<1>6. /\ sessions'[x].status = "tombstoned"
      /\ \A s \in Sids : s # x => sessions'[s] = sessions[s]
  BY <1>1, <1>2, <1>5
<1>7. pending'[w] = p /\ \A v \in Workers : v # w => pending'[v] = pending[v]
  BY <1>1, <1>2 DEF Actors
<1>8. ASSUME NEW s \in Sids, s # x PROVE Announcing(s)' = Announcing(s)
  <2>1. \A v \in Workers :
          (pending'[v] # NULL /\ pending'[v].sid = s /\ pending'[v].tombstone) <=>
          (pending[v] # NULL /\ pending[v].sid = s /\ pending[v].tombstone)
    BY <1>1, <1>3, <1>7, <1>8, Zenon
  <2> QED BY <2>1, Zenon DEF Announcing
<1>9. kills[x] = 0 /\ Announcing(x) = {}
  BY <1>1 DEF KillsOK
<1>10. Announcing(x)' = {w}
  <2>1. \A v \in Workers : v # w =>
          ~ (pending[v] # NULL /\ pending[v].sid = x /\ pending[v].tombstone)
    BY <1>9 DEF Announcing
  <2>2. \A v \in Workers :
          (pending'[v] # NULL /\ pending'[v].sid = x /\ pending'[v].tombstone) <=> v = w
    BY <1>3, <1>4, <1>7, <2>1, Zenon
  <2> QED BY <2>2 DEF Announcing
<1> SUFFICES ASSUME NEW s \in Sids
             PROVE  \/ /\ kills[s] = 0
                       /\ Announcing(s)' = {}
                       /\ Live(s)' => sessions'[s].status = "alive"
                    \/ /\ \/ kills[s] = 1 /\ Announcing(s)' = {}
                          \/ kills[s] = 0 /\ \E v \in Workers : Announcing(s)' = {v}
                       /\ Live(s)' => sessions'[s].status = "tombstoned"
                       /\ s \in used
  BY <1>1 DEF KillsOK
<1>11. CASE s = x
  BY <1>2, <1>6, <1>9, <1>10, <1>11
<1>12. CASE s # x
  BY <1>6, <1>8, <1>12 DEF KillsOK, Live
<1> QED BY <1>11, <1>12

\* The announcement.
LEMMA FinishAnnounces ==
  ASSUME Solid, KillsOK, NEW w \in Workers, FinishTombstone(w)
  PROVE  KillsOK'
<1>1. /\ pending[w] # NULL /\ pending[w].tombstone
      /\ kills' = [kills EXCEPT ![pending[w].sid] = @ + 1]
      /\ pending' = [pending EXCEPT ![w] = NULL]
      /\ sessions' = sessions /\ used' = used
  BY DEF FinishTombstone
<1>2. /\ pending \in [Actors -> Option(Pending)] /\ w \in Actors
      /\ kills \in [Sids -> Nat]
  BY DEF Solid, IInv, TypeOK, Actors
<1>3. PICK x \in Sids : x = pending[w].sid
  BY <1>1, <1>2 DEF Option, Pending
<1>4. pending'[w] = NULL /\ \A v \in Workers : v # w => pending'[v] = pending[v]
  BY <1>1, <1>2 DEF Actors
<1>5. w \in Announcing(x)
  BY <1>1, <1>3 DEF Announcing
<1>6. /\ kills[x] = 0 /\ Announcing(x) = {w} /\ x \in used
      /\ Live(x) => sessions[x].status = "tombstoned"
  BY <1>5 DEF KillsOK
<1>7. ASSUME NEW s \in Sids, s # x PROVE Announcing(s)' = Announcing(s)
  <2>1. \A v \in Workers :
          (pending'[v] # NULL /\ pending'[v].sid = s /\ pending'[v].tombstone) <=>
          (pending[v] # NULL /\ pending[v].sid = s /\ pending[v].tombstone)
    BY <1>3, <1>4, <1>7, Zenon
  <2> QED BY <2>1, Zenon DEF Announcing
<1>8. Announcing(x)' = {}
  <2>1. \A v \in Workers : v # w =>
          ~ (pending[v] # NULL /\ pending[v].sid = x /\ pending[v].tombstone)
    BY <1>6 DEF Announcing
  <2> QED BY <1>4, <2>1 DEF Announcing
<1>9. kills'[x] = 1 /\ \A s \in Sids : s # x => kills'[s] = kills[s]
  BY <1>1, <1>2, <1>3, <1>6
<1> SUFFICES ASSUME NEW s \in Sids
             PROVE  \/ /\ kills'[s] = 0
                       /\ Announcing(s)' = {}
                       /\ Live(s) => sessions[s].status = "alive"
                    \/ /\ \/ kills'[s] = 1 /\ Announcing(s)' = {}
                          \/ kills'[s] = 0 /\ \E v \in Workers : Announcing(s)' = {v}
                       /\ Live(s) => sessions[s].status = "tombstoned"
                       /\ s \in used
  BY <1>1 DEF KillsOK, Live
<1>10. CASE s = x
  BY <1>6, <1>8, <1>9, <1>10
<1>11. CASE s # x
  BY <1>7, <1>9, <1>11 DEF KillsOK
<1> QED BY <1>10, <1>11

LEMMA NextKills == Solid /\ Tracked /\ KillsOK /\ [Next]_vars => KillsOK'
<1> SUFFICES ASSUME Solid, Tracked, KillsOK, [Next]_vars PROVE KillsOK'
  OBVIOUS
<1> DEFINE same == kills' = kills /\ \A s \in Sids : Announcing(s)' = Announcing(s)
<1>1. /\ pending \in [Actors -> Option(Pending)] /\ Workers \subseteq Actors
      /\ Sweeper \in Actors /\ Sweeper \notin Workers
  BY MapAssumption DEF Solid, IInv, TypeOK, Actors
<1>2. ASSUME same, \A w \in Workers, s \in Sids : ~ Tombstone(w, s) PROVE KillsOK'
  BY <1>2, KillsKept
<1>3. CASE \E w \in Workers, s \in Sids : Tombstone(w, s)
  BY <1>3, TombstoneKills
<1>4. CASE \E w \in Workers : FinishTombstone(w)
  BY <1>4, FinishAnnounces
<1>5. ASSUME UNCHANGED <<pending, kills>> PROVE same
  BY <1>5 DEF Announcing
<1>6. ASSUME NEW w \in Workers, NEW x \in Sids, Create(w, x) PROVE same
  <2> DEFINE p == [NothingPending(x, now) EXCEPT
                     !.created = TRUE,
                     !.added = NewGeneration(1, minted + 1, now, 1),
                     !.token = minted + 1]
  <2>1. pending[w] = NULL /\ pending' = [pending EXCEPT ![w] = p] /\ kills' = kills
    BY <1>6 DEF Create, Idle
  <2>2. ~ p.tombstone
    BY DEF NothingPending
  <2> HIDE DEF p
  <2> QED BY <1>1, <2>1, <2>2, DutyTaken
<1>7. ASSUME NEW w \in Workers, FinishCreate(w) \/ FinishRefresh(w) PROVE same
  <2>1. /\ pending[w] # NULL /\ pending' = [pending EXCEPT ![w] = NULL] /\ kills' = kills
        /\ pending[w].created \/ pending[w].progress # NULL
    BY <1>7 DEF FinishCreate, FinishRefresh
  <2>2. ~ pending[w].tombstone
    BY <1>1, <2>1 DEF Tracked, Hands, KillsOnly
  <2> QED BY <1>1, <2>1, <2>2, DutyGone
<1>8. ASSUME NEW w \in Workers, RefreshCoalesced(w) PROVE same
  <2> DEFINE at == call[w].at
             x == index[call[w].tok]
             e == Slide(sessions[x], at)
             p == [NothingPending(x, at) EXCEPT !.progress = Progress(e),
                                                !.token = e.current_token]
  <2>1. call[w] # NULL /\ pending' = [pending EXCEPT ![w] = p] /\ kills' = kills
    BY <1>8 DEF RefreshCoalesced
  <2>2. pending[w] = NULL
    BY <2>1 DEF Tracked, Hands, OneThing
  <2> HIDE DEF at, x, e
  <2>3. ~ p.tombstone
    BY DEF NothingPending
  <2> HIDE DEF p
  <2> QED BY <1>1, <2>1, <2>2, <2>3, DutyTaken
<1>9. ASSUME NEW w \in Workers, RefreshRotated(w) PROVE same
  <2> DEFINE at == call[w].at
             x == index[call[w].tok]
             old == Current(sessions[x])
             rotated == Rotated(sessions[x], minted + 1, at)
             e == Slide(ReapGenerations(rotated, at), at)
             p == [NothingPending(x, at) EXCEPT
                     !.added = NewGeneration(e.current_gen, minted + 1, at, old.pos + 1),
                     !.superseded = old.tok,
                     !.purged = Purged(rotated, at),
                     !.progress = Progress(e),
                     !.token = minted + 1]
  <2>1. call[w] # NULL /\ pending' = [pending EXCEPT ![w] = p] /\ kills' = kills
    BY <1>9 DEF RefreshRotated
  <2>2. pending[w] = NULL
    BY <2>1 DEF Tracked, Hands, OneThing
  <2> HIDE DEF at, x, old, rotated, e
  <2>3. ~ p.tombstone
    BY DEF NothingPending
  <2> HIDE DEF p
  <2> QED BY <1>1, <2>1, <2>2, <2>3, DutyTaken
<1>10. ASSUME NEW w \in Workers, Apply(w) PROVE same
  <2> DEFINE p == [pending[w] EXCEPT !.added = NULL, !.superseded = NULL]
  <2>1. pending[w] # NULL /\ pending' = [pending EXCEPT ![w] = p] /\ kills' = kills
    BY <1>1, <1>10 DEF Apply
  <2>2. pending[w] \in Pending
    BY <1>1, <2>1 DEF Option
  <2>3. p \in Pending /\ p.sid = pending[w].sid /\ p.tombstone = pending[w].tombstone
    BY <2>2 DEF Pending, Option
  <2> HIDE DEF p
  <2> QED BY <1>1, <2>1, <2>3, DutyShrinks
<1>11. ASSUME NEW a \in Actors, Purge(a) PROVE same
  <2>1. PICK r \in pending[a].purged :
          pending' = [pending EXCEPT ![a].purged = @ \ {r}]
    BY <1>11 DEF Purge
  <2> DEFINE p == [pending[a] EXCEPT !.purged = @ \ {r}]
  <2>2. pending[a] # NULL /\ pending' = [pending EXCEPT ![a] = p] /\ kills' = kills
    BY <1>11, <2>1 DEF Purge
  <2>3. pending[a] \in Pending
    BY <1>1, <2>2 DEF Option
  <2>4. p \in Pending /\ p.sid = pending[a].sid /\ p.tombstone = pending[a].tombstone
    BY <2>3 DEF Pending
  <2> HIDE DEF p
  <2> QED BY <1>1, <2>2, <2>4, DutyShrinks
<1>12. ASSUME NEW x \in Sids, SweepReap(x) PROVE same
  <2> DEFINE p == [NothingPending(x, sweep.at) EXCEPT
                     !.purged = Purged(sessions[x], sweep.at)]
  <2>1. pending[Sweeper] = NULL /\ pending' = [pending EXCEPT ![Sweeper] = p] /\ kills' = kills
    BY <1>12 DEF SweepReap
  <2>2. ~ p.tombstone
    BY DEF NothingPending
  <2> HIDE DEF p
  <2> QED BY <1>1, <2>1, <2>2, DutyTaken
<1>13. ASSUME SweepApplied PROVE same
  <2>1. pending' = [pending EXCEPT ![Sweeper] = NULL] /\ kills' = kills
    BY <1>13 DEF SweepApplied
  <2> QED BY <1>1, <2>1, DutyGone
<1>14. ASSUME NEW w \in Workers, RefreshDenied(w) \/ \E tok \in Tokens : BeginRefresh(w, tok)
       PROVE  same
  BY <1>5, <1>14 DEF RefreshDenied, BeginRefresh
<1>15. ASSUME NEW w \in Workers, HandlerNext(w), ~ FinishTombstone(w) PROVE same
  BY <1>1, <1>7, <1>8, <1>9, <1>10, <1>11, <1>14, <1>15 DEF HandlerNext
<1>16. ASSUME SweepNext PROVE same
  <2>1. ASSUME \/ SweepStart \/ SweepEnd
               \/ \E x \in Sids : SweepMark(x) \/ SweepRemove(x)
        PROVE  same
    BY <1>5, <2>1 DEF SweepStart, SweepEnd, SweepMark, SweepRemove
  <2> HIDE DEF same
  <2> QED BY <1>1, <1>11, <1>12, <1>13, <1>16, <2>1 DEF SweepNext
<1>17. ASSUME Tick \/ UNCHANGED vars PROVE same
  BY <1>5, <1>17 DEF Tick, vars
<1>18. ASSUME \E s \in Sids, status \in CustodyStatus : SetCustodyStatus(s, status) PROVE same
  BY <1>5, <1>18 DEF SetCustodyStatus
<1> HIDE DEF same
<1>19. same \/ \E w \in Workers : FinishTombstone(w) \/ \E s \in Sids : Tombstone(w, s)
  BY <1>6, <1>15, <1>16, <1>17, <1>18 DEF Next
<1> QED BY <1>2, <1>3, <1>4, <1>19

\* However many logouts, revocations and dead grants race for a session, one
\* of them kills it and announces it, and no other (INV-7).
THEOREM SessionsKilledOnce == Spec => []KilledOnce
<1>1. KillsOK => KilledOnce
  <2> SUFFICES ASSUME KillsOK, NEW s \in Sids
               PROVE  /\ Announced(s) <= 1
                      /\ Live(s) => (Announced(s) = 1 <=> sessions[s].status = "tombstoned")
    BY DEF KilledOnce
  <2>1. Announced(s) = kills[s] + Cardinality(Announcing(s))
    BY DEF Announced, Announcing
  <2>2. CASE /\ kills[s] = 0 /\ Announcing(s) = {}
             /\ Live(s) => sessions[s].status = "alive"
    <3>1. Announced(s) = 0
      BY <2>1, <2>2, FS_EmptySet
    <3> QED BY <2>2, <3>1
  <2>3. CASE /\ \/ kills[s] = 1 /\ Announcing(s) = {}
                \/ kills[s] = 0 /\ \E w \in Workers : Announcing(s) = {w}
             /\ Live(s) => sessions[s].status = "tombstoned"
    <3>1. CASE kills[s] = 1 /\ Announcing(s) = {}
      <4>1. Announced(s) = 1
        BY <2>1, <3>1, FS_EmptySet
      <4> QED BY <2>3, <4>1
    <3>2. CASE kills[s] = 0 /\ \E w \in Workers : Announcing(s) = {w}
      <4>1. Cardinality(Announcing(s)) = 1
        BY <3>2, FS_Singleton
      <4>2. Announced(s) = 1
        BY <2>1, <3>2, <4>1
      <4> QED BY <2>3, <4>2
    <3> QED BY <2>3, <3>1, <3>2
  <2> QED BY <2>2, <2>3 DEF KillsOK
<1>2. (Solid /\ Tracked) /\ KillsOK /\ [Next]_vars => KillsOK'
  BY NextKills
<1> QED BY <1>1, <1>2, TrackedInvariance, InitKills, PTL DEF Spec
=============================================================================
