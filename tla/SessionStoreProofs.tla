------------------------- MODULE SessionStoreProofs -------------------------
(***************************************************************************)
(* Proofs about SessionStore, for every policy, every number of sessions,  *)
(* workers and tokens, every length of the queue and every batch the       *)
(* writer cuts from it.                                                    *)
(***************************************************************************)
EXTENDS SessionStore, SessionMapProofs

----------------------------------------------------------------------------
(***************************************************************************)
(* Induction: a property of 0 that passes from each number to the next is  *)
(* one of every number, there being no least one without it.               *)
(***************************************************************************)
LEMMA Induct ==
  ASSUME NEW T, 0 \in T, \A n \in Nat : n \in T => n + 1 \in T
  PROVE  \A n \in Nat : n \in T
<1> SUFFICES ASSUME Nat \ T # {} PROVE FALSE
  OBVIOUS
<1>1. PICK n \in Nat \ T : \A m \in Nat \ T : n <= m
  <2>1. Nat \ T \in SUBSET Nat
    OBVIOUS
  <2> QED BY <2>1, LeastElement
<1>2. n # 0 /\ n - 1 \in Nat /\ n - 1 \in T
  BY <1>1
<1> QED BY <1>1, <1>2

\* Of a nonempty finite set of generations one is the last of the vector.
LEMMA LastGeneration ==
  ASSUME NEW gens \in SUBSET Generation, IsFiniteSet(gens), gens # {}
  PROVE  \E g \in gens : \A h \in gens : h.pos <= g.pos
<1> DEFINE Tops(S) == \E g \in S : \A h \in S : h.pos <= g.pos
           T == {n \in Nat : \A S \in SUBSET Generation :
                   IsFiniteSet(S) /\ Cardinality(S) = n /\ S # {} => Tops(S)}
<1>1. 0 \in T
  BY FS_EmptySet
<1>2. ASSUME NEW n \in Nat, n \in T PROVE n + 1 \in T
  <2> SUFFICES ASSUME NEW S \in SUBSET Generation, IsFiniteSet(S),
                      Cardinality(S) = n + 1
               PROVE  Tops(S)
    OBVIOUS
  <2>1. PICK x \in S : TRUE
    <3>1. S # {}
      BY FS_EmptySet
    <3> QED BY <3>1
  <2> DEFINE R == S \ {x}
  <2>2. IsFiniteSet(R) /\ Cardinality(R) = n /\ R \in SUBSET Generation
    <3>1. IsFiniteSet(S \ {x}) /\ Cardinality(S \ {x}) = Cardinality(S) - 1
      BY <2>1, FS_RemoveElement
    <3> QED BY <3>1
  <2>3. CASE R = {}
    <3>1. \A h \in S : h = x
      BY <2>3
    <3> QED BY <2>1, <3>1 DEF Generation
  <2>4. CASE R # {}
    <3>1. Tops(R)
      BY <1>2, <2>2, <2>4
    <3>2. PICK g \in R : \A h \in R : h.pos <= g.pos
      BY <3>1
    <3>3. x \in Generation /\ g \in Generation
      BY <2>1, <3>2
    <3>4. CASE x.pos <= g.pos
      BY <3>2, <3>4
    <3>5. CASE ~ (x.pos <= g.pos)
      <4>1. \A h \in S : h.pos <= x.pos
        BY <3>2, <3>3, <3>5 DEF Generation
      <4> QED BY <2>1, <4>1
    <3> QED BY <3>4, <3>5
  <2> QED BY <2>3, <2>4
<1> HIDE DEF T
<1>3. \A n \in Nat : n \in T
  BY <1>1, <1>2, Induct
<1>4. Cardinality(gens) \in Nat
  BY FS_CardinalityType
<1> QED BY <1>3, <1>4 DEF T

----------------------------------------------------------------------------
(***************************************************************************)
(* The batch: one run through its commands.                                *)
(***************************************************************************)
\* What a command makes of rows that may already have failed.
Stepped(d, c) == IF d = NULL THEN NULL ELSE Applied(d, c)

\* run is the course of batch cmds over rows d.
IsRun(run, d, cmds) ==
  run = [n \in 0..Len(cmds) |->
            IF n = 0 THEN d ELSE Stepped(run[n - 1], cmds[n])]

\* Every batch has a course: the recursion of Batch is well founded.
LEMMA RunExists ==
  ASSUME NEW d, NEW cmds, Len(cmds) \in Nat
  PROVE  \E run : IsRun(run, d, cmds)
<1> DEFINE Up(f, m) == f = [n \in 0..m |->
                              IF n = 0 THEN d ELSE Stepped(f[n - 1], cmds[n])]
           T == {m \in Nat : \E f : Up(f, m)}
<1>1. 0 \in T
  <2>1. Up([n \in 0..0 |-> d], 0)
    OBVIOUS
  <2> QED BY <2>1
<1>2. ASSUME NEW m \in Nat, m \in T PROVE m + 1 \in T
  <2>1. PICK f : Up(f, m)
    BY <1>2
  <2> DEFINE g == [n \in 0..(m + 1) |->
                     IF n = m + 1 THEN Stepped(f[m], cmds[m + 1]) ELSE f[n]]
  <2>2. \A n \in 0..m : g[n] = f[n]
    OBVIOUS
  <2>3. \A n \in 0..m : f[n] = IF n = 0 THEN d ELSE Stepped(f[n - 1], cmds[n])
    BY <2>1
  <2>4. \A n \in 0..(m + 1) :
           g[n] = IF n = 0 THEN d ELSE Stepped(g[n - 1], cmds[n])
    <3> SUFFICES ASSUME NEW n \in 0..(m + 1)
                 PROVE  g[n] = IF n = 0 THEN d ELSE Stepped(g[n - 1], cmds[n])
      OBVIOUS
    <3>1. CASE n = m + 1
      <4>1. m \in 0..m /\ n - 1 = m /\ n # 0
        BY <3>1
      <4> QED BY <2>2, <3>1, <4>1
    <3>2. CASE n # m + 1
      <4>1. n \in 0..m /\ (n # 0 => n - 1 \in 0..m)
        BY <3>2
      <4> QED BY <2>2, <2>3, <4>1
    <3> QED BY <3>1, <3>2
  <2> HIDE DEF g
  <2>5. g = [n \in 0..(m + 1) |-> g[n]]
    BY DEF g
  <2>6. Up(g, m + 1)
    BY <2>4, <2>5
  <2> QED BY <2>6
<1>3. Len(cmds) \in T
  <2> HIDE DEF T
  <2> QED BY <1>1, <1>2, Induct
<1> QED BY <1>3 DEF IsRun

\* What holds of the rows before the first command, and passes from each
\* command to the next, holds of the rows the batch leaves.
LEMMA BatchInduction ==
  ASSUME NEW d, NEW cmds, Len(cmds) \in Nat, NEW D, d \in D[0],
         \A n \in 1..Len(cmds) : \A acc \in D[n - 1] : Stepped(acc, cmds[n]) \in D[n]
  PROVE  Batch(d, cmds) \in D[Len(cmds)]
<1> DEFINE run == CHOOSE run : IsRun(run, d, cmds)
<1>1. IsRun(run, d, cmds)
  BY RunExists
<1>2. Batch(d, cmds) = run[Len(cmds)]
  BY DEF Batch, IsRun, Stepped
<1> HIDE DEF run
<1>3. \A n \in 0..Len(cmds) :
         run[n] = IF n = 0 THEN d ELSE Stepped(run[n - 1], cmds[n])
  BY <1>1 DEF IsRun
<1> DEFINE T == {n \in Nat : n <= Len(cmds) => run[n] \in D[n]}
<1>4. 0 \in T
  BY <1>3
<1>5. ASSUME NEW n \in Nat, n \in T PROVE n + 1 \in T
  <2> SUFFICES ASSUME n + 1 <= Len(cmds) PROVE run[n + 1] \in D[n + 1]
    OBVIOUS
  <2>1. n + 1 \in 1..Len(cmds) /\ n + 1 \in 0..Len(cmds) /\ (n + 1) - 1 = n /\ n + 1 # 0
    OBVIOUS
  <2>2. run[n] \in D[n]
    BY <1>5, <2>1
  <2> QED BY <1>3, <2>1, <2>2
<1> HIDE DEF T
<1>6. Len(cmds) \in T
  BY <1>4, <1>5, Induct
<1> QED BY <1>2, <1>6 DEF T


----------------------------------------------------------------------------
(***************************************************************************)
(* Types.  A session may come back from its rows without a generation that *)
(* is current and without a current token, so the invariant of an entry is *)
(* weaker than SessionMap's: its generations are finitely many.            *)
(***************************************************************************)
\* writer.rs: what the queue holds.
StoreCommand ==
  Command \cup [cmd : {"insert_custody"}, sid : Sids]
          \cup [cmd : {"reap"}, dead_before : Int]

EntriesTyped ==
  \A s \in Sids : Live(s) =>
    /\ IsFiniteSet(sessions[s].gens)
    /\ sessions[s].current_token # NULL => sessions[s].current_token \in Tokens

MapTyped ==
  /\ now \in Nat
  /\ sessions \in [Sids -> Option(SessionEntry)]
  /\ index \in [Tokens -> Option(Sids)]
  /\ queue \in Seq(StoreCommand)
  /\ call \in [Workers -> Option([tok : Tokens, at : Nat])]
  /\ pending \in [Actors -> Option(Pending)]
  /\ sweep \in Option([at : Nat, visit : SUBSET Sids, doomed : SUBSET Sids])
  /\ minted \in 0..MaxTokens
  /\ used \in SUBSET Sids
  /\ held \in SUBSET Tokens
  /\ EntriesTyped
  /\ PendingOK

RowsTyped ==
  /\ up \in BOOLEAN
  /\ db \in Db
  /\ IsFiniteSet(db.generation)
  /\ login \in [Workers -> Option([sid : Sids, ack : {"waiting", "ok", "err"}])]
  /\ reapDue \in Option(Nat)
  /\ swept \in Option(Nat)
  /\ failed \in BOOLEAN
  /\ restarts \in 0..MaxRestarts

StoreTyped == MapTyped /\ RowsTyped

\* The image of a finite set is finite.
LEMMA MappedFinite ==
  ASSUME NEW S, IsFiniteSet(S), NEW f
  PROVE  IsFiniteSet({f[x] : x \in S})
<1> DEFINE T == {f[x] : x \in S}
           g == [x \in S |-> f[x]]
<1>1. g \in Surjection(S, T)
  BY DEF Surjection
<1> QED BY <1>1, FS_Surjection

\* A command has the fields of its kind.
LEMMA CommandKinds ==
  ASSUME NEW c \in StoreCommand
  PROVE  /\ c.cmd = "insert_custody" => c.sid \in Sids
         /\ c.cmd = "insert_session" =>
              /\ c.sid \in Sids /\ c.current_gen \in Nat /\ c.idle_exp \in Nat
              /\ c.absolute_exp \in Nat
         /\ c.cmd = "insert_generation" => c.sid \in Sids /\ c.gen \in Generation
         /\ c.cmd = "supersede_generation" => c.at \in Nat
         /\ c.cmd = "update_session_progress" =>
              c.sid \in Sids /\ c.current_gen \in Nat /\ c.idle_exp \in Nat
         /\ c.cmd = "tombstone_session" => c.sid \in Sids /\ c.at \in Nat
         /\ c.cmd = "reap" => c.dead_before \in Int
         /\ c.cmd \in {"insert_custody", "insert_session", "insert_generation",
                       "supersede_generation", "delete_generation",
                       "update_session_progress", "tombstone_session", "reap"}
BY DEF StoreCommand, Command

\* What apply_batch does for each kind of command.
LEMMA AppliedKinds ==
  ASSUME NEW d, NEW c
  PROVE  /\ c.cmd = "insert_custody" =>
              Applied(d, c) = [d EXCEPT !.custody = @ \cup {c.sid}]
         /\ c.cmd = "insert_session" =>
              Applied(d, c) =
                IF c.sid \notin d.custody THEN NULL
                ELSE [d EXCEPT !.session[c.sid] =
                    [current_gen |-> c.current_gen, idle_exp |-> c.idle_exp,
                     absolute_exp |-> c.absolute_exp, status |-> "alive",
                     tombstoned_at |-> NULL]]
         /\ c.cmd = "insert_generation" =>
              Applied(d, c) =
                IF d.session[c.sid] = NULL THEN NULL
                ELSE [d EXCEPT !.generation = @ \cup
                    {[tok |-> c.gen.tok, sid |-> c.sid, gen_no |-> c.gen.gen_no,
                      created_at |-> c.gen.created_at,
                      active_until |-> c.gen.active_until,
                      superseded_at |-> NULL]}]
         /\ c.cmd = "supersede_generation" =>
              Applied(d, c) = [d EXCEPT !.generation =
                {IF g.tok = c.tok THEN [g EXCEPT !.superseded_at = c.at] ELSE g :
                    g \in d.generation}]
         /\ c.cmd = "delete_generation" =>
              Applied(d, c) =
                [d EXCEPT !.generation = {g \in d.generation : g.tok # c.tok}]
         /\ c.cmd = "update_session_progress" =>
              Applied(d, c) = UpdateSession(d, c.sid,
                [d.session[c.sid] EXCEPT !.current_gen = c.current_gen,
                                         !.idle_exp = c.idle_exp])
         /\ c.cmd = "tombstone_session" =>
              Applied(d, c) = UpdateSession(d, c.sid,
                [d.session[c.sid] EXCEPT
                    !.status = "tombstoned",
                    !.tombstoned_at = IF @ = NULL THEN c.at ELSE @])
         /\ c.cmd = "reap" => Applied(d, c) = Reaped(d, c.dead_before)
BY DEF Applied

\* A command fails on a foreign key, or not at all.
Fails(d, c) ==
  \/ c.cmd = "insert_session" /\ c.sid \notin d.custody
  \/ c.cmd = "insert_generation" /\ d.session[c.sid] = NULL

LEMMA FailsIsNull ==
  ASSUME NEW d, NEW c, Applied(d, c) # NULL
  PROVE  ~ Fails(d, c)
BY AppliedKinds, ZenonT(40) DEF Fails

\* A command that does not fail leaves rows of the right shape.
LEMMA AppliedType ==
  ASSUME NEW d \in Db, IsFiniteSet(d.generation), NEW c \in StoreCommand,
         ~ Fails(d, c)
  PROVE  Applied(d, c) \in Db /\ IsFiniteSet(Applied(d, c).generation)
<1> DEFINE e == Applied(d, c)
<1>0. /\ d.custody \in SUBSET Sids
      /\ d.session \in [Sids -> Option(Row)]
      /\ d.generation \in SUBSET GenerationRow
  BY DEF Db
<1>1. ASSUME c.cmd = "insert_custody" PROVE e \in Db /\ e.generation = d.generation
  <2>1. c.sid \in Sids /\ e = [d EXCEPT !.custody = @ \cup {c.sid}]
    BY <1>1, CommandKinds, AppliedKinds
  <2> HIDE DEF e
  <2> QED BY <2>1 DEF Db
<1>2. ASSUME c.cmd = "insert_session" PROVE e \in Db /\ e.generation = d.generation
  <2> DEFINE row == [current_gen |-> c.current_gen, idle_exp |-> c.idle_exp,
                     absolute_exp |-> c.absolute_exp, status |-> "alive",
                     tombstoned_at |-> NULL]
  <2>1. row \in Row
    BY <1>2, CommandKinds DEF Row, SessionStatus, Option
  <2>2. c.sid \in Sids /\ e = [d EXCEPT !.session[c.sid] = row]
    BY <1>2, CommandKinds, AppliedKinds DEF Fails
  <2> HIDE DEF e, row
  <2> QED BY <2>1, <2>2 DEF Db, Option
<1>3. ASSUME c.cmd = "insert_generation" PROVE e \in Db /\ IsFiniteSet(e.generation)
  <2> DEFINE row == [tok |-> c.gen.tok, sid |-> c.sid, gen_no |-> c.gen.gen_no,
                     created_at |-> c.gen.created_at,
                     active_until |-> c.gen.active_until,
                     superseded_at |-> NULL]
  <2>1. row \in GenerationRow
    BY <1>3, CommandKinds DEF GenerationRow, Generation, Option
  <2>2. e = [d EXCEPT !.generation = @ \cup {row}]
    BY <1>3, AppliedKinds DEF Fails
  <2> HIDE DEF e, row
  <2>3. e.generation = d.generation \cup {row} /\ e \in Db
    BY <2>1, <2>2 DEF Db
  <2>4. IsFiniteSet(d.generation \cup {row})
    BY FS_AddElement
  <2> QED BY <2>3, <2>4
<1>4. ASSUME c.cmd = "supersede_generation" PROVE e \in Db /\ IsFiniteSet(e.generation)
  <2> DEFINE F(g) == IF g.tok = c.tok THEN [g EXCEPT !.superseded_at = c.at] ELSE g
             G == {F(g) : g \in d.generation}
  <2>1. e = [d EXCEPT !.generation = G]
    BY <1>4 DEF Applied
  <2>2. G \in SUBSET GenerationRow
    <3>1. c.at \in Nat
      BY <1>4, CommandKinds
    <3>2. ASSUME NEW g \in d.generation PROVE F(g) \in GenerationRow
      <4>1. g \in GenerationRow
        BY <1>0
      <4>2. [g EXCEPT !.superseded_at = c.at] \in GenerationRow
        BY <3>1, <4>1 DEF GenerationRow, Option
      <4> QED BY <4>1, <4>2
    <3> QED BY <3>2
  <2>3. IsFiniteSet(G)
    <3> DEFINE f == [g \in d.generation |-> F(g)]
    <3>1. G = {f[g] : g \in d.generation}
      OBVIOUS
    <3> HIDE DEF f
    <3>2. IsFiniteSet({f[g] : g \in d.generation})
      BY MappedFinite
    <3> QED BY <3>1, <3>2
  <2> HIDE DEF e, G
  <2> QED BY <2>1, <2>2, <2>3 DEF Db
<1>5. ASSUME c.cmd = "delete_generation" PROVE e \in Db /\ IsFiniteSet(e.generation)
  <2> DEFINE G == {g \in d.generation : g.tok # c.tok}
  <2>1. e = [d EXCEPT !.generation = G]
    BY <1>5 DEF Applied
  <2>2. G \in SUBSET GenerationRow /\ IsFiniteSet(G)
    BY <1>0, FS_Subset
  <2> HIDE DEF e, G
  <2> QED BY <2>1, <2>2 DEF Db
<1>6. ASSUME c.cmd = "update_session_progress"
      PROVE  e \in Db /\ e.generation = d.generation
  <2> DEFINE row == [d.session[c.sid] EXCEPT !.current_gen = c.current_gen,
                                             !.idle_exp = c.idle_exp]
  <2>1. c.sid \in Sids /\ c.current_gen \in Nat /\ c.idle_exp \in Nat
    BY <1>6, CommandKinds
  <2>2. e = IF d.session[c.sid] = NULL THEN d ELSE [d EXCEPT !.session[c.sid] = row]
    BY <1>6, AppliedKinds, ZenonT(40) DEF UpdateSession
  <2>3. d.session[c.sid] # NULL => row \in Row
    <3>1. d.session[c.sid] # NULL => d.session[c.sid] \in Row
      BY <1>0, <2>1 DEF Option
    <3> QED BY <2>1, <3>1 DEF Row
  <2> HIDE DEF e, row
  <2> QED BY <1>0, <2>1, <2>2, <2>3 DEF Db, Option
<1>7. ASSUME c.cmd = "tombstone_session"
      PROVE  e \in Db /\ e.generation = d.generation
  <2> DEFINE row == [d.session[c.sid] EXCEPT
                    !.status = "tombstoned",
                    !.tombstoned_at = IF @ = NULL THEN c.at ELSE @]
  <2>1. c.sid \in Sids /\ c.at \in Nat
    BY <1>7, CommandKinds
  <2>2. e = IF d.session[c.sid] = NULL THEN d ELSE [d EXCEPT !.session[c.sid] = row]
    BY <1>7, AppliedKinds, ZenonT(40) DEF UpdateSession
  <2>3. d.session[c.sid] # NULL => row \in Row
    <3>1. d.session[c.sid] # NULL => d.session[c.sid] \in Row
      BY <1>0, <2>1 DEF Option
    <3> QED BY <2>1, <3>1 DEF Row, SessionStatus, Option
  <2> HIDE DEF e, row
  <2> QED BY <1>0, <2>1, <2>2, <2>3 DEF Db, Option
<1>8. ASSUME c.cmd = "reap" PROVE e \in Db /\ IsFiniteSet(e.generation)
  <2>1. e = Reaped(d, c.dead_before)
    BY <1>8, AppliedKinds
  <2>2. e.generation \subseteq d.generation
    BY <2>1 DEF Reaped
  <2>3. e \in Db
    BY <1>0, <2>1 DEF Reaped, Db, Option
  <2> QED BY <2>2, <2>3, FS_Subset
<1> QED BY <1>1, <1>2, <1>3, <1>4, <1>5, <1>6, <1>7, <1>8, CommandKinds

----------------------------------------------------------------------------
(***************************************************************************)
(* What the map's operators make of an entry that may have come back from  *)
(* its rows.                                                               *)
(***************************************************************************)
\* Every token that authenticates or refreshes has a generation in its entry.
LEMMA RefreshableIndexed ==
  ASSUME NEW e, NEW tok, NEW t, Classify(e, tok, t) \in {"active", "stale"}
  PROVE  e.gens # {}
BY DEF Classify

\* The entry a refresh that mints leaves, and what it hands to apply.
LEMMA MintedEntry ==
  ASSUME NEW e \in SessionEntry, IsFiniteSet(e.gens), e.gens # {},
         NEW t \in Nat, NEW n \in Nat
  PROVE  LET rotated == Rotated(e, n, t)
             left == Slide(ReapGenerations(rotated, t), t)
         IN  /\ left \in SessionEntry
             /\ IsFiniteSet(left.gens)
             /\ left.current_token = n
             /\ left.status = e.status
             /\ left.absolute_exp = e.absolute_exp
             /\ Purged(rotated, t) \subseteq RetiredToken
             /\ NewGeneration(left.current_gen, n, t, Current(e).pos + 1)
                  \in Generation
             /\ Current(e).tok \in Nat
<1> DEFINE c == Current(e)
           g == NewGeneration(e.current_gen + 1, n, t, c.pos + 1)
           rotated == Rotated(e, n, t)
           reaped == ReapGenerations(rotated, t)
           left == Slide(reaped, t)
<1>1. c \in e.gens
  <2>1. \E x \in e.gens : \A h \in e.gens : h.pos <= x.pos
    BY LastGeneration DEF SessionEntry
  <2> QED BY <2>1 DEF Current
<1>2. c \in Generation
  BY <1>1 DEF SessionEntry
<1> HIDE DEF c
<1>3. g \in Generation
  BY <1>2, PolicyAssumption DEF NewGeneration, Generation, Option, SessionEntry
<1> HIDE DEF g
<1> DEFINE F(h) == IF h.pos = c.pos THEN [h EXCEPT !.superseded_at = t] ELSE h
           G == {F(h) : h \in e.gens}
<1>4. G \in SUBSET Generation
  <2>1. ASSUME NEW h \in e.gens PROVE F(h) \in Generation
    <3>1. h \in Generation
      BY DEF SessionEntry
    <3>2. [h EXCEPT !.superseded_at = t] \in Generation
      BY <3>1 DEF Generation, Option
    <3> QED BY <3>1, <3>2
  <2> QED BY <2>1
<1>5. IsFiniteSet(G)
  <2> DEFINE f == [h \in e.gens |-> F(h)]
  <2>1. G = {f[h] : h \in e.gens}
    OBVIOUS
  <2> HIDE DEF f
  <2>2. IsFiniteSet({f[h] : h \in e.gens})
    BY MappedFinite
  <2> QED BY <2>1, <2>2
<1>6. rotated = [e EXCEPT !.gens = G \cup {g}, !.current_gen = @ + 1,
                          !.current_token = n]
  BY DEF Rotated, g, c
<1> HIDE DEF G
<1>7. IsFiniteSet(G \cup {g})
  BY <1>5, FS_AddElement
<1> HIDE DEF rotated
<1>8. /\ rotated \in SessionEntry
      /\ rotated.gens = G \cup {g}
      /\ rotated.current_gen = e.current_gen + 1
      /\ rotated.current_token = n
      /\ rotated.status = e.status
      /\ rotated.absolute_exp = e.absolute_exp
  <2> DEFINE S == G \cup {g}
  <2>1. S \in SUBSET Generation
    BY <1>3, <1>4
  <2>2. e.current_gen + 1 \in Nat /\ n \in Option(Nat)
    BY DEF SessionEntry, Option
  <2> HIDE DEF S
  <2>3. rotated = [e EXCEPT !.gens = S, !.current_gen = @ + 1, !.current_token = n]
    BY <1>6 DEF S
  <2>4. /\ rotated \in SessionEntry /\ rotated.gens = S
        /\ rotated.current_gen = e.current_gen + 1
        /\ rotated.current_token = n /\ rotated.status = e.status
        /\ rotated.absolute_exp = e.absolute_exp
    BY <2>1, <2>2, <2>3 DEF SessionEntry
  <2> QED BY <2>4 DEF S
<1>9. /\ reaped \in SessionEntry
      /\ Purged(rotated, t) \subseteq RetiredToken
      /\ IsFiniteSet(reaped.gens)
  BY <1>7, <1>8, ReapType
<1>10. /\ reaped.current_gen = rotated.current_gen
       /\ reaped.current_token = rotated.current_token
       /\ reaped.status = rotated.status
       /\ reaped.absolute_exp = rotated.absolute_exp
  BY <1>8 DEF ReapGenerations, SessionEntry
<1> HIDE DEF reaped
<1>11. /\ left \in SessionEntry
       /\ left.gens = reaped.gens
       /\ left.current_gen = reaped.current_gen
       /\ left.current_token = reaped.current_token
       /\ left.status = reaped.status
       /\ left.absolute_exp = reaped.absolute_exp
  BY <1>9, PolicyAssumption DEF Slide, SessionEntry, Earlier
<1>12. NewGeneration(left.current_gen, n, t, c.pos + 1) \in Generation
  BY <1>3, <1>8, <1>10, <1>11 DEF g
<1>13. c.tok \in Nat
  BY <1>2 DEF Generation
<1> QED BY <1>8, <1>9, <1>10, <1>11, <1>12, <1>13 DEF left, reaped, rotated, c

\* The entry a refresh that coalesces leaves.
LEMMA SlidEntry ==
  ASSUME NEW e \in SessionEntry, NEW t \in Nat
  PROVE  /\ Slide(e, t) \in SessionEntry
         /\ Slide(e, t).gens = e.gens
         /\ Slide(e, t).current_token = e.current_token
         /\ Slide(e, t).status = e.status
         /\ Slide(e, t).absolute_exp = e.absolute_exp
         /\ Progress(Slide(e, t)) \in [current_gen : Nat, idle_exp : Nat]
<1>1. /\ Slide(e, t) \in SessionEntry
      /\ Slide(e, t).gens = e.gens
      /\ Slide(e, t).current_token = e.current_token
      /\ Slide(e, t).status = e.status
      /\ Slide(e, t).absolute_exp = e.absolute_exp
  BY PolicyAssumption DEF Slide, SessionEntry, Earlier
<1> QED BY <1>1 DEF Progress, SessionEntry

\* What rehydrate_session makes of its rows is an entry.
LEMMA RehydratedType ==
  ASSUME db \in Db, IsFiniteSet(db.generation), NEW s \in Sids,
         db.session[s] # NULL
  PROVE  /\ Rehydrated(s) \in SessionEntry
         /\ IsFiniteSet(Rehydrated(s).gens)
         /\ Rehydrated(s).current_token = NULL
         /\ Rehydrated(s).status = "alive"
<1> DEFINE P(g) == Cardinality({h \in RowsOf(s) :
                          h.gen_no < g.gen_no
                          \/ (h.gen_no = g.gen_no /\ h.tok <= g.tok)})
           F(g) == [gen_no |-> g.gen_no, tok |-> g.tok,
                    created_at |-> g.created_at, active_until |-> g.active_until,
                    superseded_at |-> g.superseded_at, pos |-> P(g)]
           G == {F(g) : g \in RowsOf(s)}
<1>1. db.session[s] \in Row /\ RowsOf(s) \subseteq GenerationRow
  BY DEF Db, Option, RowsOf
<1>2. IsFiniteSet(RowsOf(s))
  BY FS_Subset DEF RowsOf
<1>3. ASSUME NEW g \in RowsOf(s) PROVE F(g) \in Generation
  <2>1. P(g) \in Nat
    BY <1>2, FS_Subset, FS_CardinalityType
  <2> HIDE DEF P
  <2> QED BY <1>1, <2>1 DEF Generation, GenerationRow
<1>4. IsFiniteSet(G)
  <2> DEFINE f == [g \in RowsOf(s) |-> F(g)]
  <2>1. G = {f[g] : g \in RowsOf(s)}
    OBVIOUS
  <2> HIDE DEF f
  <2>2. IsFiniteSet({f[g] : g \in RowsOf(s)})
    BY <1>2, MappedFinite
  <2> QED BY <2>1, <2>2
<1>5. Rehydrated(s) =
        [gens |-> G,
         current_gen |-> db.session[s].current_gen, current_token |-> NULL,
         idle_exp |-> db.session[s].idle_exp,
         absolute_exp |-> db.session[s].absolute_exp, status |-> "alive",
         tombstoned_at |-> NULL, custody_status |-> "ok", retired |-> {}]
  BY DEF Rehydrated
<1>6. G \in SUBSET Generation
  BY <1>3
<1> HIDE DEF G
<1> QED BY <1>1, <1>4, <1>5, <1>6
        DEF SessionEntry, Row, Option, SessionStatus, CustodyStatus

----------------------------------------------------------------------------
(***************************************************************************)
(* Every step of the map keeps the types, whatever else is queued.         *)
(***************************************************************************)
\* What persist enqueues keeps the channel well typed.
LEMMA PersistTyped ==
  ASSUME queue \in Seq(StoreCommand), NEW cmds \in Seq(Command), Persist(cmds)
  PROVE  queue' \in Seq(StoreCommand)
<1>1. cmds \in Seq(StoreCommand)
  BY DEF StoreCommand
<1> QED BY <1>1 DEF Persist

\* Replacing one entry by one of the same kind keeps the entries well typed.
LEMMA EntriesTypedStep ==
  ASSUME sessions \in [Sids -> Option(SessionEntry)], EntriesTyped,
         NEW s \in Sids, NEW e \in SessionEntry, IsFiniteSet(e.gens),
         e.current_token # NULL => e.current_token \in Tokens,
         sessions' = [sessions EXCEPT ![s] = e]
  PROVE  EntriesTyped' /\ sessions' \in [Sids -> Option(SessionEntry)]
<1>1. sessions' \in [Sids -> Option(SessionEntry)]
  BY DEF Option
<1>2. ASSUME NEW x \in Sids, sessions'[x] # NULL
      PROVE  /\ IsFiniteSet(sessions'[x].gens)
             /\ sessions'[x].current_token # NULL =>
                  sessions'[x].current_token \in Tokens
  <2>1. x = s \/ sessions'[x] = sessions[x]
    OBVIOUS
  <2>2. sessions'[s] = e
    OBVIOUS
  <2>3. CASE x = s
    BY <2>2, <2>3
  <2>4. CASE x # s
    BY <1>2, <2>1, <2>4 DEF EntriesTyped, Live
  <2> QED BY <2>3, <2>4
<1>3. EntriesTyped'
  BY <1>2 DEF EntriesTyped, Live
<1> QED BY <1>1, <1>3

\* A live entry is a session entry, with finitely many generations.
LEMMA EntryTyped ==
  ASSUME MapTyped, NEW s \in Sids, Live(s)
  PROVE  /\ sessions[s] \in SessionEntry
         /\ IsFiniteSet(sessions[s].gens)
         /\ sessions[s].current_token # NULL => sessions[s].current_token \in Tokens
<1>1. sessions[s] \in SessionEntry
  BY DEF MapTyped, Live, Option
<1> QED BY <1>1 DEF MapTyped, EntriesTyped

\* A call in flight whose token may refresh names a live session of the map.
LEMMA RefreshTyped ==
  ASSUME MapTyped, NEW w \in Workers, call[w] # NULL,
         ResolveAt(call[w].tok, call[w].at) \in {"active", "stale"}
  PROVE  /\ call[w].tok \in Tokens
         /\ index[call[w].tok] \in Sids
         /\ call[w].at \in Nat
         /\ Live(index[call[w].tok])
         /\ sessions[index[call[w].tok]].status = "alive"
         /\ sessions[index[call[w].tok]].gens # {}
<1>1. call[w] \in [tok : Tokens, at : Nat]
  BY DEF MapTyped, Option
<1>2. index[call[w].tok] # NULL /\ sessions[index[call[w].tok]] # NULL
  BY DEF ResolveAt
<1>3. index[call[w].tok] \in Sids
  BY <1>1, <1>2 DEF MapTyped, Option
<1>4. sessions[index[call[w].tok]] \in SessionEntry
  BY <1>2, <1>3 DEF MapTyped, Option
<1>5. Classify(sessions[index[call[w].tok]], call[w].tok, call[w].at)
        \in {"active", "stale"}
  BY <1>2 DEF ResolveAt
<1>6. sessions[index[call[w].tok]].status = "alive"
  BY <1>4, <1>5, RefreshableAlive
<1>7. sessions[index[call[w].tok]].gens # {}
  BY <1>5, RefreshableIndexed
<1> QED BY <1>1, <1>2, <1>3, <1>6, <1>7 DEF Live

\* SessionMap::create keeps the types.
LEMMA CreateTyped ==
  ASSUME MapTyped, NEW w \in Workers, NEW s \in Sids, Create(w, s)
  PROVE  MapTyped'
<1> DEFINE tok == minted + 1
           e == NewEntry(tok, now)
           g == NewGeneration(1, tok, now, 1)
           p == [NothingPending(s, now) EXCEPT
                    !.created = TRUE, !.added = g, !.token = tok]
<1>1. minted \in Nat /\ now \in Nat /\ tok \in Tokens /\ tok \in 0..MaxTokens
  BY MapAssumption DEF MapTyped, Create, Tokens
<1>2. g \in Generation /\ e \in SessionEntry /\ EntryOK(e, tok)
  BY <1>1, NewEntryOK
<1>3. /\ sessions' = [sessions EXCEPT ![s] = e]
      /\ index' = [index EXCEPT ![tok] = s]
      /\ pending' = [pending EXCEPT ![w] = p]
      /\ minted' = tok
      /\ used' = used \cup {s}
      /\ UNCHANGED <<now, queue, call, sweep, held>>
  BY DEF Create
<1>4. tok # NULL /\ e.current_token = tok
  BY <1>1, NullAssumption DEF NewEntry
<1> HIDE DEF tok, e, g
<1>5. p \in Pending /\ p.created /\ p.added = g /\ p.token = tok /\ p.progress = NULL
  BY <1>1, <1>2 DEF NothingPending, Pending, Option
<1> HIDE DEF p
<1>6. EntriesTyped' /\ sessions' \in [Sids -> Option(SessionEntry)]
  BY <1>1, <1>2, <1>3, <1>4, EntriesTypedStep DEF MapTyped, EntryOK
<1>7. pending' \in [Actors -> Option(Pending)] /\ PendingOK'
  BY <1>2, <1>3, <1>4, <1>5 DEF MapTyped, PendingOK, Option
<1>8. index' \in [Tokens -> Option(Sids)]
  BY <1>3 DEF MapTyped, Option
<1> QED BY <1>1, <1>3, <1>6, <1>7, <1>8 DEF MapTyped

\* A refresh that coalesces keeps the types.
LEMMA RefreshCoalescedTyped ==
  ASSUME MapTyped, NEW w \in Workers, RefreshCoalesced(w)
  PROVE  MapTyped'
<1> DEFINE s == index[call[w].tok]
           at == call[w].at
           e == Slide(sessions[s], at)
           p == [NothingPending(s, at) EXCEPT !.progress = Progress(e),
                                              !.token = e.current_token]
<1>1. s \in Sids /\ at \in Nat /\ Live(s)
  BY RefreshTyped DEF RefreshCoalesced
<1>2. /\ sessions' = [sessions EXCEPT ![s] = e]
      /\ pending' = [pending EXCEPT ![w] = p]
      /\ call' = [call EXCEPT ![w] = NULL]
      /\ UNCHANGED <<now, index, queue, sweep, minted, used, held>>
      /\ sessions[s].current_token # NULL
  BY DEF RefreshCoalesced, Coalesces
<1> HIDE DEF s, at
<1>3. /\ sessions[s] \in SessionEntry
      /\ IsFiniteSet(sessions[s].gens)
      /\ sessions[s].current_token \in Tokens
  BY <1>1, <1>2, EntryTyped
<1>4. /\ e \in SessionEntry /\ IsFiniteSet(e.gens)
      /\ e.current_token = sessions[s].current_token
      /\ Progress(e) \in [current_gen : Nat, idle_exp : Nat]
  BY <1>1, <1>3, SlidEntry
<1> HIDE DEF e
<1>5. /\ p \in Pending /\ ~ p.created /\ p.added = NULL
      /\ p.token = e.current_token /\ p.token # NULL
  BY <1>1, <1>2, <1>3, <1>4 DEF NothingPending, Pending, Option
<1> HIDE DEF p
<1>6. EntriesTyped' /\ sessions' \in [Sids -> Option(SessionEntry)]
  BY <1>1, <1>2, <1>3, <1>4, EntriesTypedStep DEF MapTyped
<1>7. pending' \in [Actors -> Option(Pending)] /\ PendingOK'
  BY <1>2, <1>5 DEF MapTyped, PendingOK, Option
<1>8. call' \in [Workers -> Option([tok : Tokens, at : Nat])]
  BY <1>2 DEF MapTyped, Option
<1> QED BY <1>2, <1>6, <1>7, <1>8 DEF MapTyped

\* A refresh that mints keeps the types.
LEMMA RefreshRotatedTyped ==
  ASSUME MapTyped, NEW w \in Workers, RefreshRotated(w)
  PROVE  MapTyped'
<1> DEFINE s == index[call[w].tok]
           at == call[w].at
           old == Current(sessions[s])
           tok == minted + 1
           rotated == Rotated(sessions[s], tok, at)
           e == Slide(ReapGenerations(rotated, at), at)
           g == NewGeneration(e.current_gen, tok, at, old.pos + 1)
           gone == Purged(rotated, at)
           p == [NothingPending(s, at) EXCEPT
                    !.added = g, !.superseded = old.tok, !.purged = gone,
                    !.progress = Progress(e), !.token = tok]
<1>1. s \in Sids /\ at \in Nat /\ Live(s) /\ sessions[s].gens # {}
  BY RefreshTyped DEF RefreshRotated
<1>2. minted \in Nat /\ tok \in Tokens /\ tok \in Nat /\ tok \in 0..MaxTokens
      /\ tok # NULL
  BY MapAssumption, NullAssumption DEF MapTyped, RefreshRotated, Tokens
<1>3. /\ sessions' = [sessions EXCEPT ![s] = e]
      /\ pending' = [pending EXCEPT ![w] = p]
      /\ minted' = tok
      /\ call' = [call EXCEPT ![w] = NULL]
      /\ UNCHANGED <<now, index, queue, sweep, used, held>>
  BY DEF RefreshRotated
<1> HIDE DEF s, at, tok
<1>4. sessions[s] \in SessionEntry /\ IsFiniteSet(sessions[s].gens)
  BY <1>1, EntryTyped
<1>5. /\ e \in SessionEntry
      /\ IsFiniteSet(e.gens)
      /\ e.current_token = tok
      /\ gone \subseteq RetiredToken
      /\ g \in Generation
      /\ old.tok \in Nat
  BY <1>1, <1>2, <1>4, MintedEntry
<1>6. Progress(e) \in [current_gen : Nat, idle_exp : Nat] /\ old.tok # NULL
  BY <1>5, NullAssumption DEF Progress, SessionEntry
<1> HIDE DEF e, g, gone, old
<1>7. /\ p \in Pending /\ ~ p.created /\ p.token # NULL /\ p.superseded # NULL
  BY <1>1, <1>2, <1>5, <1>6 DEF NothingPending, Pending, Option
<1> HIDE DEF p
<1>8. EntriesTyped' /\ sessions' \in [Sids -> Option(SessionEntry)]
  BY <1>1, <1>2, <1>3, <1>5, EntriesTypedStep DEF MapTyped
<1>9. pending' \in [Actors -> Option(Pending)] /\ PendingOK'
  BY <1>3, <1>7 DEF MapTyped, PendingOK, Option
<1>10. call' \in [Workers -> Option([tok : Tokens, at : Nat])]
  BY <1>3 DEF MapTyped, Option
<1> QED BY <1>2, <1>3, <1>8, <1>9, <1>10 DEF MapTyped

\* What a worker does after it drops the lock keeps the types.
LEMMA FinishTyped ==
  ASSUME MapTyped, NEW w \in Workers,
         \/ FinishCreate(w) \/ FinishRefresh(w) \/ FinishTombstone(w)
  PROVE  MapTyped'
<1> DEFINE p == pending[w]
<1>1. p \in Pending /\ p.sid \in Sids /\ p.at \in Nat
  BY DEF MapTyped, FinishCreate, FinishRefresh, FinishTombstone, Option, Actors,
         Pending
<1>2. ASSUME FinishCreate(w) PROVE queue' \in Seq(StoreCommand)
  <2> DEFINE e == NewEntry(p.token, p.at)
  <2>1. p.added \in Generation /\ p.token \in Nat
    BY <1>1, <1>2 DEF MapTyped, PendingOK, FinishCreate, Actors, Pending, Option,
                      Tokens
  <2>2. e.current_gen \in Nat /\ e.idle_exp \in Nat /\ e.absolute_exp \in Nat
    BY <1>1, <2>1, PolicyAssumption DEF NewEntry, Earlier
  <2>3. <<[cmd |-> "insert_session", sid |-> p.sid, current_gen |-> e.current_gen,
           idle_exp |-> e.idle_exp, absolute_exp |-> e.absolute_exp],
          [cmd |-> "insert_generation", sid |-> p.sid, gen |-> p.added]>>
          \in Seq(Command)
    <3> HIDE DEF p, e
    <3> QED BY <1>1, <2>1, <2>2 DEF Command
  <2> QED BY <1>2, <2>3, PersistTyped DEF MapTyped, FinishCreate
<1>3. ASSUME FinishRefresh(w) PROVE queue' \in Seq(StoreCommand)
  <2>1. p.progress \in [current_gen : Nat, idle_exp : Nat]
    BY <1>1, <1>3 DEF FinishRefresh, Pending, Option
  <2>2. <<[cmd |-> "update_session_progress", sid |-> p.sid,
           current_gen |-> p.progress.current_gen,
           idle_exp |-> p.progress.idle_exp]>> \in Seq(Command)
    <3> HIDE DEF p
    <3> QED BY <1>1, <2>1 DEF Command
  <2> QED BY <1>3, <2>2, PersistTyped DEF MapTyped, FinishRefresh
<1>4. ASSUME FinishTombstone(w) PROVE queue' \in Seq(StoreCommand)
  <2>1. <<[cmd |-> "tombstone_session", sid |-> p.sid, at |-> p.at]>> \in Seq(Command)
    <3> HIDE DEF p
    <3> QED BY <1>1 DEF Command
  <2> QED BY <1>4, <2>1, PersistTyped DEF MapTyped, FinishTombstone
<1>5. queue' \in Seq(StoreCommand)
  BY <1>2, <1>3, <1>4
<1>6. /\ pending' = [pending EXCEPT ![w] = NULL]
      /\ UNCHANGED <<now, sessions, index, call, sweep, minted, used>>
  BY DEF FinishCreate, FinishRefresh, FinishTombstone
<1>7. held' \in SUBSET Tokens
  <2>1. p.token # NULL => p.token \in Tokens
    BY <1>1 DEF Pending, Option
  <2>2. FinishCreate(w) \/ FinishRefresh(w) => p.token # NULL
    BY DEF MapTyped, PendingOK, FinishCreate, FinishRefresh, Actors
  <2> QED BY <2>1, <2>2 DEF MapTyped, FinishCreate, FinishRefresh, FinishTombstone
<1>8. pending' \in [Actors -> Option(Pending)] /\ PendingOK'
  BY <1>6 DEF MapTyped, PendingOK, Option
<1>9. EntriesTyped'
  BY <1>6 DEF MapTyped, EntriesTyped, Live
<1> QED BY <1>5, <1>6, <1>7, <1>8, <1>9 DEF MapTyped

\* SessionMap::apply keeps the types.
LEMMA ApplyTyped ==
  ASSUME MapTyped, NEW w \in Workers, Apply(w)
  PROVE  MapTyped'
<1> DEFINE p == pending[w]
           q == [p EXCEPT !.added = NULL, !.superseded = NULL]
<1>1. p \in Pending /\ p.added \in Generation /\ p.sid \in Sids /\ p.at \in Nat
      /\ p.superseded \in Nat
  BY DEF MapTyped, PendingOK, Apply, Option, Actors, Pending
<1>2. <<[cmd |-> "insert_generation", sid |-> p.sid, gen |-> p.added],
        [cmd |-> "supersede_generation", tok |-> p.superseded, at |-> p.at]>>
        \in Seq(Command)
  <2> HIDE DEF p
  <2> QED BY <1>1 DEF Command
<1>3. queue' \in Seq(StoreCommand)
  BY <1>2, PersistTyped DEF MapTyped, Apply
<1>4. /\ pending' = [pending EXCEPT ![w] = q]
      /\ UNCHANGED <<now, sessions, call, sweep, minted, used, held>>
      /\ index' = [index EXCEPT ![p.added.tok] = p.sid]
  BY DEF Apply
<1>5. q \in Pending /\ q.added = NULL /\ q.created = p.created /\ q.token = p.token
      /\ q.progress = p.progress /\ ~ p.created
  BY <1>1 DEF Pending, Option, Apply
<1> HIDE DEF q
<1>6. pending' \in [Actors -> Option(Pending)] /\ PendingOK'
  <2>1. pending' \in [Actors -> Option(Pending)]
    BY <1>4, <1>5 DEF MapTyped, Option
  <2>2. w \in Actors /\ p # NULL
    BY DEF Actors, Apply
  <2>3. PendingOK'
    BY <1>4, <1>5, <2>1, <2>2 DEF MapTyped, PendingOK
  <2> QED BY <2>1, <2>3
<1>7. index' \in [Tokens -> Option(Sids)]
  BY <1>1, <1>4 DEF MapTyped, Option
<1>8. EntriesTyped'
  BY <1>4 DEF MapTyped, EntriesTyped, Live
<1> QED BY <1>3, <1>4, <1>6, <1>7, <1>8 DEF MapTyped

\* Forgetting a token keeps the types.
LEMMA PurgeTyped ==
  ASSUME MapTyped, NEW a \in Actors, Purge(a)
  PROVE  MapTyped'
<1> DEFINE p == pending[a]
<1>1. p \in Pending
  BY DEF MapTyped, Purge, Option
<1>2. PICK r \in p.purged :
         /\ index' = [index EXCEPT ![r.tok] = NULL]
         /\ Persist(<<[cmd |-> "delete_generation", tok |-> r.tok]>>)
         /\ pending' = [pending EXCEPT ![a] = [p EXCEPT !.purged = @ \ {r}]]
  BY DEF Purge
<1> DEFINE q == [p EXCEPT !.purged = @ \ {r}]
<1>3. r.tok \in Nat
  BY <1>1 DEF Pending, RetiredToken
<1>4. <<[cmd |-> "delete_generation", tok |-> r.tok]>> \in Seq(Command)
  BY <1>3 DEF Command
<1>5. queue' \in Seq(StoreCommand)
  BY <1>2, <1>4, PersistTyped DEF MapTyped
<1>6. q \in Pending /\ q.created = p.created /\ q.added = p.added
      /\ q.token = p.token /\ q.progress = p.progress /\ q.superseded = p.superseded
  BY <1>1 DEF Pending
<1> HIDE DEF q
<1>7. pending' = [pending EXCEPT ![a] = q]
  BY <1>2 DEF q
<1>8. pending' \in [Actors -> Option(Pending)] /\ PendingOK'
  BY <1>6, <1>7 DEF MapTyped, PendingOK, Option, Purge
<1>9. index' \in [Tokens -> Option(Sids)]
  BY <1>2 DEF MapTyped, Option
<1>10. EntriesTyped'
  BY DEF MapTyped, EntriesTyped, Live, Purge
<1> QED BY <1>5, <1>8, <1>9, <1>10 DEF MapTyped, Purge

\* A kill keeps the types.
LEMMA TombstoneTyped ==
  ASSUME MapTyped, NEW w \in Workers, NEW s \in Sids, Tombstone(w, s)
  PROVE  MapTyped'
<1> DEFINE f == sessions[s]
           e == [f EXCEPT !.status = "tombstoned", !.tombstoned_at = now,
                          !.current_token = NULL]
           p == [NothingPending(s, now) EXCEPT !.tombstone = TRUE]
<1>1. f \in SessionEntry /\ IsFiniteSet(f.gens) /\ now \in Nat
  BY EntryTyped DEF Tombstone, MapTyped
<1>2. /\ sessions' = [sessions EXCEPT ![s] = e]
      /\ pending' = [pending EXCEPT ![w] = p]
      /\ UNCHANGED <<now, index, queue, call, sweep, minted, used, held>>
  BY DEF Tombstone
<1>3. e \in SessionEntry /\ e.gens = f.gens /\ e.current_token = NULL
  BY <1>1 DEF SessionEntry, Option, SessionStatus
<1>4. p \in Pending /\ ~ p.created /\ p.added = NULL /\ p.progress = NULL
  BY <1>1 DEF NothingPending, Pending, Option
<1> HIDE DEF f, e, p
<1>5. EntriesTyped' /\ sessions' \in [Sids -> Option(SessionEntry)]
  BY <1>1, <1>2, <1>3, EntriesTypedStep DEF MapTyped
<1>6. pending' \in [Actors -> Option(Pending)] /\ PendingOK'
  BY <1>2, <1>4 DEF MapTyped, PendingOK, Option
<1> QED BY <1>2, <1>5, <1>6 DEF MapTyped

\* The sweeper's steps keep the types.
LEMMA SweepTyped ==
  ASSUME MapTyped, SweepNext
  PROVE  MapTyped'
<1> DEFINE Progressing == [at : Nat, visit : SUBSET Sids, doomed : SUBSET Sids]
<1>1. CASE SweepStart
  <2>1. sweep' \in Option(Progressing)
    BY <1>1 DEF MapTyped, SweepStart, Option
  <2> QED BY <1>1, <2>1 DEF MapTyped, EntriesTyped, PendingOK, SweepStart, Live
<1>2. ASSUME NEW s \in Sids, SweepMark(s) PROVE MapTyped'
  <2>1. sweep' \in Option(Progressing)
    BY <1>2 DEF MapTyped, SweepMark, Option
  <2> QED BY <1>2, <2>1 DEF MapTyped, EntriesTyped, PendingOK, SweepMark, Live
<1>3. ASSUME NEW s \in Sids, SweepReap(s) PROVE MapTyped'
  <2> DEFINE f == sessions[s]
             e == ReapGenerations(f, sweep.at)
             gone == Purged(f, sweep.at)
             p == [NothingPending(s, sweep.at) EXCEPT !.purged = gone]
  <2>1. f \in SessionEntry /\ IsFiniteSet(f.gens)
        /\ (f.current_token # NULL => f.current_token \in Tokens)
    BY <1>3, EntryTyped DEF SweepReap
  <2>2. sweep \in Progressing
    BY <1>3 DEF MapTyped, SweepReap, Option
  <2>3. e \in SessionEntry /\ gone \in SUBSET RetiredToken /\ IsFiniteSet(e.gens)
    BY <2>1, <2>2, ReapType
  <2>4. e.current_token = f.current_token
    BY <2>1 DEF ReapGenerations, SessionEntry
  <2>5. /\ sessions' = [sessions EXCEPT ![s] = e]
        /\ pending' = [pending EXCEPT ![Sweeper] = p]
        /\ sweep' = [sweep EXCEPT !.visit = @ \ {s}]
        /\ UNCHANGED <<now, index, queue, call, minted, used, held>>
    BY <1>3 DEF SweepReap
  <2> HIDE DEF f, e, gone
  <2>6. p \in Pending /\ ~ p.created /\ p.added = NULL /\ p.progress = NULL
    BY <2>2, <2>3 DEF NothingPending, Pending, Option
  <2> HIDE DEF p
  <2>7. EntriesTyped' /\ sessions' \in [Sids -> Option(SessionEntry)]
    BY <2>1, <2>3, <2>4, <2>5, EntriesTypedStep DEF MapTyped
  <2>8. pending' \in [Actors -> Option(Pending)] /\ PendingOK'
    BY <2>5, <2>6 DEF MapTyped, PendingOK, Option
  <2>9. sweep' \in Option(Progressing)
    BY <2>2, <2>5 DEF Option
  <2> QED BY <2>5, <2>7, <2>8, <2>9 DEF MapTyped
<1>4. CASE SweepApplied
  <2>1. pending' \in [Actors -> Option(Pending)]
    BY <1>4 DEF MapTyped, SweepApplied, Option
  <2> QED BY <1>4, <2>1 DEF MapTyped, EntriesTyped, PendingOK, SweepApplied, Live
<1>5. ASSUME NEW s \in Sids, SweepRemove(s) PROVE MapTyped'
  <2>1. sweep' \in Option(Progressing)
    BY <1>5 DEF MapTyped, SweepRemove, Option
  <2>2. sessions' \in [Sids -> Option(SessionEntry)]
    BY <1>5 DEF MapTyped, SweepRemove, Option
  <2>3. index' \in [Tokens -> Option(Sids)]
    BY <1>5 DEF MapTyped, SweepRemove, Option
  <2>4. EntriesTyped'
    BY <1>5 DEF MapTyped, EntriesTyped, SweepRemove, Live
  <2> QED BY <1>5, <2>1, <2>2, <2>3, <2>4 DEF MapTyped, PendingOK, SweepRemove
<1>6. CASE SweepEnd
  <2>1. sweep' \in Option(Progressing)
    BY <1>6 DEF SweepEnd, Option
  <2> QED BY <1>6, <2>1 DEF MapTyped, EntriesTyped, PendingOK, SweepEnd, Live
<1>7. Sweeper \in Actors
  BY DEF Actors
<1> QED BY <1>1, <1>2, <1>3, <1>4, <1>5, <1>6, <1>7, PurgeTyped DEF SweepNext

\* So do a request handler's.
LEMMA HandlerTyped ==
  ASSUME MapTyped, NEW w \in Workers, HandlerNext(w)
  PROVE  MapTyped'
<1>1. ASSUME NEW tok \in Tokens, BeginRefresh(w, tok) PROVE MapTyped'
  <2>1. call' \in [Workers -> Option([tok : Tokens, at : Nat])]
    BY <1>1 DEF MapTyped, BeginRefresh, Option
  <2> QED BY <1>1, <2>1 DEF MapTyped, EntriesTyped, PendingOK, BeginRefresh, Live
<1>2. CASE RefreshDenied(w)
  <2>1. call' \in [Workers -> Option([tok : Tokens, at : Nat])]
    BY <1>2 DEF MapTyped, RefreshDenied, Option
  <2> QED BY <1>2, <2>1 DEF MapTyped, EntriesTyped, PendingOK, RefreshDenied, Live
<1>3. w \in Actors
  BY DEF Actors
<1> QED BY <1>1, <1>2, <1>3, RefreshCoalescedTyped, RefreshRotatedTyped,
           ApplyTyped, PurgeTyped, FinishTyped DEF HandlerNext

----------------------------------------------------------------------------
(***************************************************************************)
(* Every step of the store keeps the types.                                *)
(***************************************************************************)
\* A batch that commits leaves rows of the right shape.
LEMMA BatchTyped ==
  ASSUME NEW d \in Db, IsFiniteSet(d.generation), NEW cmds \in Seq(StoreCommand),
         Batch(d, cmds) # NULL
  PROVE  Batch(d, cmds) \in Db /\ IsFiniteSet(Batch(d, cmds).generation)
<1> DEFINE Good == {x \in Db : IsFiniteSet(x.generation)} \cup {NULL}
           D == [n \in 0..Len(cmds) |-> Good]
<1>1. Len(cmds) \in Nat /\ \A n \in 1..Len(cmds) : cmds[n] \in StoreCommand
  OBVIOUS
<1>2. d \in D[0]
  BY <1>1
<1>3. ASSUME NEW n \in 1..Len(cmds), NEW acc \in D[n - 1]
      PROVE  Stepped(acc, cmds[n]) \in D[n]
  <2>1. acc \in Good /\ D[n] = Good
    <3> HIDE DEF Good
    <3>1. n - 1 \in 0..Len(cmds) /\ n \in 0..Len(cmds)
      BY <1>1
    <3> QED BY <3>1
  <2>2. CASE acc = NULL
    BY <2>1, <2>2 DEF Stepped
  <2>3. CASE acc # NULL
    <3>1. acc \in Db /\ IsFiniteSet(acc.generation)
      BY <2>1, <2>3
    <3>2. Stepped(acc, cmds[n]) = Applied(acc, cmds[n])
      BY <2>3 DEF Stepped
    <3>3. cmds[n] \in StoreCommand
      BY <1>1
    <3>4. Applied(acc, cmds[n]) \in Good
      BY <3>1, <3>3, AppliedType, FailsIsNull
    <3> QED BY <2>1, <3>2, <3>4
  <2> QED BY <2>2, <2>3
<1> HIDE DEF D
<1>4. Batch(d, cmds) \in D[Len(cmds)]
  BY <1>1, <1>2, <1>3, BatchInduction
<1>5. Batch(d, cmds) \in Good
  BY <1>1, <1>4 DEF D
<1> QED BY <1>5

\* What the writer drains, and what it leaves in the channel.
LEMMA DrainedTyped ==
  ASSUME queue \in Seq(StoreCommand), NEW n \in 1..Len(queue)
  PROVE  /\ SubSeq(queue, 1, n) \in Seq(StoreCommand)
         /\ Len(SubSeq(queue, 1, n)) = n
         /\ \A i \in 1..n : SubSeq(queue, 1, n)[i] = queue[i]
         /\ SubSeq(queue, n + 1, Len(queue)) \in Seq(StoreCommand)
         /\ Len(SubSeq(queue, n + 1, Len(queue))) = Len(queue) - n
         /\ \A i \in 1..(Len(queue) - n) :
               SubSeq(queue, n + 1, Len(queue))[i] = queue[n + i]
OBVIOUS

\* The writer thread keeps the types.
LEMMA WriteBatchTyped ==
  ASSUME StoreTyped, WriteBatch
  PROVE  StoreTyped'
<1> PICK n \in 1..Len(queue), fault \in {FALSE, StoreFaults /\ ~ failed} :
      LET batch == SubSeq(queue, 1, n)
          d == IF fault THEN NULL ELSE Batch(db, batch)
      IN /\ queue' = SubSeq(queue, n + 1, Len(queue))
         /\ db' = IF d = NULL THEN db ELSE d
         /\ failed' = (failed \/ d = NULL)
         /\ login' = [w \in Workers |->
               IF /\ login[w] # NULL
                  /\ \E i \in 1..n : /\ batch[i].cmd = "insert_custody"
                                     /\ batch[i].sid = login[w].sid
               THEN [login[w] EXCEPT !.ack = IF d = NULL THEN "err" ELSE "ok"]
               ELSE login[w]]
  BY DEF WriteBatch
<1> DEFINE batch == SubSeq(queue, 1, n)
           d == IF fault THEN NULL ELSE Batch(db, batch)
           ack == IF d = NULL THEN "err" ELSE "ok"
<1>1. /\ UNCHANGED <<now, sessions, index, call, pending, sweep, minted, used,
                     held, up, reapDue, swept, restarts>>
  BY DEF WriteBatch
<1>2. queue \in Seq(StoreCommand)
  BY DEF StoreTyped, MapTyped
<1>3. batch \in Seq(StoreCommand) /\ queue' \in Seq(StoreCommand)
  BY <1>2, DrainedTyped
<1>4. d # NULL => d \in Db /\ IsFiniteSet(d.generation)
  <2>1. CASE fault
    BY <2>1
  <2>2. CASE ~ fault
    <3>1. d = Batch(db, batch)
      BY <2>2
    <3>2. db \in Db /\ IsFiniteSet(db.generation)
      BY DEF StoreTyped, RowsTyped
    <3> HIDE DEF batch, d
    <3> QED BY <1>3, <3>1, <3>2, BatchTyped
  <2> QED BY <2>1, <2>2
<1>5. ack \in {"waiting", "ok", "err"}
  OBVIOUS
<1>6. db' = IF d = NULL THEN db ELSE d
  OBVIOUS
<1>7. failed' = (failed \/ d = NULL)
  OBVIOUS
<1>8. login' = [w \in Workers |->
               IF /\ login[w] # NULL
                  /\ \E i \in 1..n : /\ batch[i].cmd = "insert_custody"
                                     /\ batch[i].sid = login[w].sid
               THEN [login[w] EXCEPT !.ack = ack]
               ELSE login[w]]
  OBVIOUS
<1> HIDE DEF batch, d, ack
<1>9. login' \in [Workers -> Option([sid : Sids, ack : {"waiting", "ok", "err"}])]
  <2>1. ASSUME NEW w \in Workers, login[w] # NULL
        PROVE  [login[w] EXCEPT !.ack = ack] \in
                  [sid : Sids, ack : {"waiting", "ok", "err"}]
    <3>1. login[w] \in [sid : Sids, ack : {"waiting", "ok", "err"}]
      BY <2>1 DEF StoreTyped, RowsTyped, Option
    <3> QED BY <1>5, <3>1
  <2>2. \A w \in Workers :
           login[w] \in Option([sid : Sids, ack : {"waiting", "ok", "err"}])
    BY DEF StoreTyped, RowsTyped
  <2> QED BY <1>8, <2>1, <2>2 DEF Option
<1>10. db' \in Db /\ IsFiniteSet(db'.generation)
  BY <1>4, <1>6 DEF StoreTyped, RowsTyped
<1>11. failed' \in BOOLEAN
  BY <1>7 DEF StoreTyped, RowsTyped
<1>12. RowsTyped'
  BY <1>1, <1>9, <1>10, <1>11 DEF StoreTyped, RowsTyped
<1>13. MapTyped'
  BY <1>1, <1>3 DEF StoreTyped, MapTyped, EntriesTyped, PendingOK, Live
<1> QED BY <1>12, <1>13 DEF StoreTyped

\* The loss of the process's memory, and the restart, keep the types.
LEMMA StopTyped ==
  ASSUME StoreTyped, NEW clean, Stop(clean)
  PROVE  StoreTyped'
<1>1. MapTyped'
  BY DEF StoreTyped, MapTyped, EntriesTyped, PendingOK, Live, Option, Stop,
         MemoryLost
<1>2. restarts' \in 0..MaxRestarts
  BY StoreAssumption DEF StoreTyped, RowsTyped, Stop
<1>3. RowsTyped'
  BY <1>2 DEF StoreTyped, RowsTyped, Option, Stop, MemoryLost
<1> QED BY <1>1, <1>3 DEF StoreTyped

LEMMA BootTyped ==
  ASSUME StoreTyped, Boot
  PROVE  StoreTyped'
<1>1. db \in Db /\ IsFiniteSet(db.generation)
  BY DEF StoreTyped, RowsTyped
<1>2. ASSUME NEW s \in Sids, s \in Rehydratable
      PROVE  /\ Rehydrated(s) \in SessionEntry
             /\ IsFiniteSet(Rehydrated(s).gens)
             /\ Rehydrated(s).current_token = NULL
  BY <1>1, <1>2, RehydratedType DEF Rehydratable
<1>3. sessions' = [s \in Sids |-> IF s \in Rehydratable THEN Rehydrated(s) ELSE NULL]
  BY DEF Boot
<1>4. sessions' \in [Sids -> Option(SessionEntry)]
  BY <1>2, <1>3 DEF Option
<1>5. EntriesTyped'
  BY <1>2, <1>3 DEF EntriesTyped, Live
<1>6. index' \in [Tokens -> Option(Sids)]
  <2>1. ASSUME NEW t \in Tokens, \E g \in db.generation : g.tok = t
        PROVE  (CHOOSE g \in db.generation : g.tok = t).sid \in Sids
    <3>1. (CHOOSE g \in db.generation : g.tok = t) \in GenerationRow
      BY <1>1, <2>1 DEF Db
    <3> QED BY <3>1 DEF GenerationRow
  <2>2. index' = [t \in Tokens |->
          IF \E g \in db.generation : g.tok = t /\ g.sid \in Rehydratable
          THEN (CHOOSE g \in db.generation : g.tok = t).sid ELSE NULL]
    BY DEF Boot
  <2> QED BY <2>1, <2>2 DEF Option
<1>7. MapTyped'
  BY <1>4, <1>5, <1>6 DEF StoreTyped, MapTyped, PendingOK, Boot
<1>8. RowsTyped'
  BY DEF StoreTyped, RowsTyped, Boot
<1> QED BY <1>7, <1>8 DEF StoreTyped

\* One more command in the channel, of a kind that only the store enqueues.
LEMMA EnqueuedTyped ==
  ASSUME MapTyped, NEW c \in StoreCommand, queue' = Append(queue, c),
         UNCHANGED <<now, sessions, index, call, pending, sweep, minted, used, held>>
  PROVE  MapTyped'
<1>1. queue' \in Seq(StoreCommand)
  BY DEF MapTyped
<1> QED BY <1>1 DEF MapTyped, EntriesTyped, PendingOK, Live

\* No session, no row, empty.
LEMMA InitTyped == StoreInit => StoreTyped
<1> SUFFICES ASSUME StoreInit PROVE StoreTyped
  OBVIOUS
<1>1. MapTyped
  BY MapAssumption
  DEF StoreInit, Init, MapTyped, EntriesTyped, PendingOK, Live, Option
<1>2. IsFiniteSet(db.generation)
  BY FS_EmptySet DEF StoreInit, EmptyDb
<1>3. RowsTyped
  <2>1. db \in Db
    BY DEF StoreInit, EmptyDb, Db, Option
  <2>2. restarts \in 0..MaxRestarts
    BY StoreAssumption DEF StoreInit
  <2> QED BY <1>2, <2>1, <2>2 DEF StoreInit, RowsTyped, Option
<1> QED BY <1>1, <1>3 DEF StoreTyped

\* A step of the map that leaves the store's own variables alone.
LEMMA RowsStay ==
  ASSUME RowsTyped, UNCHANGED storeVars
  PROVE  RowsTyped'
BY DEF RowsTyped, storeVars

LEMMA NextTyped == StoreTyped /\ [StoreNext]_allVars => StoreTyped'
<1> SUFFICES ASSUME StoreTyped, [StoreNext]_allVars PROVE StoreTyped'
  OBVIOUS
<1> USE DEF StoreTyped
<1>1. CASE StoreTick
  <2>1. now' = now + 1 /\ now' \in Nat
        /\ UNCHANGED <<sessions, index, queue, call, pending, sweep, minted, used,
                       held>>
    BY <1>1 DEF StoreTick, Tick, MapTyped
  <2>2. MapTyped'
    BY <2>1 DEF MapTyped, EntriesTyped, PendingOK, Live
  <2> QED BY <1>1, <2>2, RowsStay DEF StoreTick
<1>2. ASSUME NEW w \in Workers, Serve(w) PROVE StoreTyped'
  BY <1>2, HandlerTyped, RowsStay DEF Serve
<1>3. ASSUME NEW w \in Workers, NEW tok \in Tokens, Logout(w, tok) PROVE StoreTyped'
  <2>1. index[tok] \in Sids
    BY <1>3 DEF Logout, MapTyped, Option
  <2> QED BY <1>3, <2>1, TombstoneTyped, RowsStay DEF Logout
<1>4. ASSUME NEW w \in Workers, NEW s \in Sids, RevokeSession(w, s) PROVE StoreTyped'
  BY <1>4, TombstoneTyped, RowsStay DEF RevokeSession
<1>5. ASSUME NEW s \in Sids, RevokeStored(s) PROVE StoreTyped'
  <2>1. [cmd |-> "tombstone_session", sid |-> s, at |-> now] \in StoreCommand
    BY DEF MapTyped, StoreCommand, Command
  <2> QED BY <1>5, <2>1, EnqueuedTyped, RowsStay DEF RevokeStored
<1>6. ASSUME NEW w \in Workers, NEW s \in Sids, TakeCustody(w, s) PROVE StoreTyped'
  <2>1. [cmd |-> "insert_custody", sid |-> s] \in StoreCommand
    BY DEF StoreCommand
  <2>2. MapTyped'
    BY <1>6, <2>1, EnqueuedTyped DEF TakeCustody
  <2>3. RowsTyped'
    BY <1>6 DEF TakeCustody, RowsTyped, Option
  <2> QED BY <2>2, <2>3
<1>7. ASSUME NEW w \in Workers, FinishLogin(w) PROVE StoreTyped'
  <2>1. login[w].sid \in Sids
    BY <1>7 DEF FinishLogin, RowsTyped, Option
  <2>2. MapTyped'
    BY <1>7, <2>1, CreateTyped DEF FinishLogin
  <2>3. RowsTyped'
    BY <1>7 DEF FinishLogin, RowsTyped, Option
  <2> QED BY <2>2, <2>3
<1>8. ASSUME NEW w \in Workers, RefuseLogin(w) PROVE StoreTyped'
  <2>1. MapTyped'
    BY <1>8 DEF RefuseLogin, vars, MapTyped, EntriesTyped, PendingOK, Live
  <2>2. RowsTyped'
    BY <1>8 DEF RefuseLogin, RowsTyped, Option
  <2> QED BY <2>1, <2>2
<1>9. CASE Reaper
  <2>1. MapTyped'
    BY <1>9, SweepTyped DEF Reaper
  <2>2. swept' \in Option(Nat)
    BY <1>9 DEF Reaper, MapTyped, RowsTyped, Option
  <2>3. reapDue' \in Option(Nat)
    BY <1>9 DEF Reaper, MapTyped, RowsTyped, Option
  <2>4. RowsTyped'
    BY <1>9, <2>2, <2>3 DEF Reaper, RowsTyped
  <2> QED BY <2>1, <2>4
<1>10. CASE EnqueueReap
  <2>1. [cmd |-> "reap", dead_before |-> reapDue - ReapAfter] \in StoreCommand
    <3>1. reapDue - ReapAfter \in Int
      BY <1>10, StoreAssumption DEF EnqueueReap, RowsTyped, Option
    <3> QED BY <3>1 DEF StoreCommand
  <2>2. MapTyped'
    BY <1>10, <2>1, EnqueuedTyped DEF EnqueueReap
  <2>3. RowsTyped'
    BY <1>10 DEF EnqueueReap, RowsTyped, Option
  <2> QED BY <2>2, <2>3
<1>11. CASE UNCHANGED allVars
  <2>1. MapTyped'
    BY <1>11 DEF allVars, vars, MapTyped, EntriesTyped, PendingOK, Live
  <2> QED BY <1>11, <2>1, RowsStay DEF allVars
<1>12. CASE Crash
  BY <1>12, StopTyped DEF Crash
<1>13. CASE Shutdown
  BY <1>13, StopTyped DEF Shutdown
<1> QED BY <1>1, <1>2, <1>3, <1>4, <1>5, <1>6, <1>7, <1>8, <1>9, <1>10, <1>11,
           <1>12, <1>13, WriteBatchTyped, BootTyped DEF StoreNext

LEMMA StoreInvariance == StoreSpec => []StoreTyped
BY InitTyped, NextTyped, PTL DEF StoreSpec

\* The store keeps its types through crashes, restarts and failed batches:
\* what rehydrate_session builds from any rows the writer may have left is a
\* session entry like any other.
THEOREM StoreTypeCorrect == StoreSpec => []StoreTypeOK
<1>1. StoreTyped => StoreTypeOK
  BY DEF StoreTyped, MapTyped, RowsTyped, StoreTypeOK
<1> QED BY <1>1, StoreInvariance, PTL

----------------------------------------------------------------------------
(***************************************************************************)
(* INV-7 across restarts.  A session is ending once a worker that killed   *)
(* it, a command in the channel or its row says so: from then on it has    *)
(* been drawn, and it is not alive in the map.                             *)
(***************************************************************************)
Channel == {queue[i] : i \in 1..Len(queue)}

Alive(s) == Live(s) /\ sessions[s].status = "alive"

RowEnded(s) == db.session[s] # NULL /\ db.session[s].status = "tombstoned"

QueuedEnd(s) == \E c \in Channel : c.cmd = "tombstone_session" /\ c.sid = s

PendingEnd(s) ==
  \E a \in Actors : /\ pending[a] # NULL
                    /\ pending[a].tombstone
                    /\ pending[a].sid = s

Ending(s) == RowEnded(s) \/ QueuedEnd(s) \/ PendingEnd(s)

EndingStays == \A s \in Sids : Ending(s) => s \in used /\ ~ Alive(s)

\* Whatever has a trace of a session, the session was drawn.
TracesOK ==
  /\ \A s \in Sids : Live(s) \/ db.session[s] # NULL => s \in used
  /\ \A c \in Channel :
        c.cmd \in {"insert_session", "tombstone_session"} => c.sid \in used
  /\ \A a \in Actors : pending[a] # NULL => pending[a].sid \in used

\* A process that is down has nothing left to do.
DownOK ==
  ~ up => /\ queue = <<>>
          /\ \A a \in Actors : pending[a] = NULL

DeadInv == StoreTyped /\ EndingStays /\ TracesOK /\ DownOK

\* What one command c that makes rows e of rows d can do to session s.
RowFollows(d, c, e, s) ==
  /\ e.session[s] # NULL =>
        \/ d.session[s] # NULL
        \/ c.cmd = "insert_session" /\ c.sid = s
  /\ e.session[s] # NULL /\ e.session[s].status = "tombstoned" =>
        \/ d.session[s] # NULL /\ d.session[s].status = "tombstoned"
        \/ c.cmd = "tombstone_session" /\ c.sid = s
  /\ c.cmd # "reap" =>
        /\ d.session[s] # NULL => e.session[s] # NULL
        /\ s \in d.custody => s \in e.custody
  /\ c.cmd = "insert_session" /\ c.sid = s => e.session[s] # NULL
  /\ c.cmd = "insert_custody" /\ c.sid = s => s \in e.custody

LEMMA AppliedRows ==
  ASSUME NEW d \in Db, NEW c \in StoreCommand, Applied(d, c) # NULL, NEW s \in Sids
  PROVE  RowFollows(d, c, Applied(d, c), s)
<1> DEFINE e == Applied(d, c)
<1> SUFFICES RowFollows(d, c, e, s)
  OBVIOUS
<1> HIDE DEF e
<1>0. /\ d.custody \in SUBSET Sids
      /\ d.session \in [Sids -> Option(Row)]
      /\ d = [custody |-> d.custody, session |-> d.session,
              generation |-> d.generation]
  BY DEF Db
<1>1. CASE c.cmd = "insert_custody"
  <2>1. e.session = d.session /\ e.custody = d.custody \cup {c.sid}
    <3>1. e = [d EXCEPT !.custody = @ \cup {c.sid}]
      BY <1>1, AppliedKinds DEF e
    <3> QED BY <1>0, <3>1
  <2> QED BY <1>1, <2>1 DEF RowFollows
<1>2. CASE c.cmd = "insert_session"
  <2> DEFINE row == [current_gen |-> c.current_gen, idle_exp |-> c.idle_exp,
                     absolute_exp |-> c.absolute_exp, status |-> "alive",
                     tombstoned_at |-> NULL]
  <2>1. row \in Row /\ row.status = "alive"
    BY <1>2, CommandKinds DEF Row, SessionStatus, Option
  <2>2. row # NULL
    BY <2>1, RowsAssumption
  <2>3. e.session = [d.session EXCEPT ![c.sid] = row] /\ e.custody = d.custody
    <3>1. e = [d EXCEPT !.session[c.sid] = row]
      BY <1>2, AppliedKinds DEF e
    <3> HIDE DEF row
    <3> QED BY <1>0, <3>1
  <2> HIDE DEF row
  <2> QED BY <1>0, <1>2, <2>1, <2>2, <2>3 DEF RowFollows
<1>3. CASE c.cmd \in {"insert_generation", "supersede_generation",
                      "delete_generation"}
  <2>1. e.session = d.session /\ e.custody = d.custody
    <3>1. \E G : e = [d EXCEPT !.generation = G]
      BY <1>3 DEF Applied, e
    <3> QED BY <1>0, <3>1
  <2> QED BY <1>3, <2>1 DEF RowFollows
<1>4. CASE c.cmd = "update_session_progress"
  <2> DEFINE row == [d.session[c.sid] EXCEPT !.current_gen = c.current_gen,
                                             !.idle_exp = c.idle_exp]
  <2>1. e = IF d.session[c.sid] = NULL THEN d ELSE [d EXCEPT !.session[c.sid] = row]
    BY <1>4, AppliedKinds, ZenonT(40) DEF UpdateSession, e
  <2>2. c.sid \in Sids /\ c.current_gen \in Nat /\ c.idle_exp \in Nat
    BY <1>4, CommandKinds
  <2>3. d.session[c.sid] # NULL =>
          row \in Row /\ row # NULL /\ row.status = d.session[c.sid].status
    <3>1. d.session[c.sid] # NULL => d.session[c.sid] \in Row
      BY <1>0, <2>2 DEF Option
    <3>2. d.session[c.sid] # NULL => row \in Row /\ row.status = d.session[c.sid].status
      BY <2>2, <3>1 DEF Row
    <3> QED BY <3>2, RowsAssumption
  <2> HIDE DEF row
  <2>4. /\ e.custody = d.custody
        /\ \/ e.session = d.session
           \/ d.session[c.sid] # NULL /\ e.session = [d.session EXCEPT ![c.sid] = row]
    BY <1>0, <2>1
  <2> QED BY <1>0, <1>4, <2>3, <2>4 DEF RowFollows
<1>5. CASE c.cmd = "tombstone_session"
  <2> DEFINE row == [d.session[c.sid] EXCEPT
                    !.status = "tombstoned",
                    !.tombstoned_at = IF @ = NULL THEN c.at ELSE @]
  <2>1. e = IF d.session[c.sid] = NULL THEN d ELSE [d EXCEPT !.session[c.sid] = row]
    BY <1>5, AppliedKinds, ZenonT(40) DEF UpdateSession, e
  <2>2. c.sid \in Sids /\ c.at \in Nat
    BY <1>5, CommandKinds
  <2>3. d.session[c.sid] # NULL => row # NULL
    <3>1. d.session[c.sid] # NULL => d.session[c.sid] \in Row
      BY <1>0, <2>2 DEF Option
    <3>2. d.session[c.sid] # NULL => row \in Row
      BY <2>2, <3>1 DEF Row, SessionStatus, Option
    <3> QED BY <3>2, RowsAssumption
  <2> HIDE DEF row
  <2>4. /\ e.custody = d.custody
        /\ \/ e.session = d.session
           \/ d.session[c.sid] # NULL /\ e.session = [d.session EXCEPT ![c.sid] = row]
    BY <1>0, <2>1
  <2> QED BY <1>0, <1>5, <2>3, <2>4 DEF RowFollows
<1>6. CASE c.cmd = "reap"
  <2>1. e = Reaped(d, c.dead_before)
    BY <1>6, AppliedKinds DEF e
  <2>2. \A x \in Sids : e.session[x] = NULL \/ e.session[x] = d.session[x]
    BY <2>1 DEF Reaped
  <2> QED BY <1>6, <2>2 DEF RowFollows
<1> QED BY <1>1, <1>2, <1>3, <1>4, <1>5, <1>6, CommandKinds

\* The channel after persist holds what it held and what was enqueued.
LEMMA PersistOne ==
  ASSUME queue \in Seq(StoreCommand), NEW c, Persist(<<c>>)
  PROVE  Channel' \subseteq Channel \cup {c}
BY DEF Persist, Channel

LEMMA PersistTwo ==
  ASSUME queue \in Seq(StoreCommand), NEW b, NEW c, Persist(<<b, c>>)
  PROVE  Channel' \subseteq Channel \cup {b, c}
BY DEF Persist, Channel

LEMMA AppendOne ==
  ASSUME queue \in Seq(StoreCommand), NEW c, queue' = Append(queue, c)
  PROVE  Channel' \subseteq Channel \cup {c}
BY DEF Channel

\* A step that writes no row: what it brings to life was not drawn before,
\* what it enqueues or leaves to do ends only what is not alive.
LEMMA DeadStep ==
  ASSUME DeadInv, used \subseteq used', db' = db,
         \A s \in Sids : /\ Alive(s)' => Alive(s) \/ s \notin used
                         /\ Live(s)' => Live(s) \/ s \in used',
         \A c \in Channel' : \/ c \in Channel
                             \/ c.cmd \notin {"insert_session", "tombstone_session"}
                             \/ c.cmd = "insert_session" /\ c.sid \in used'
                             \/ c.sid \in used' /\ ~ Alive(c.sid)',
         \A a \in Actors : pending'[a] # NULL =>
            \/ pending'[a].sid \in used' /\ ~ pending'[a].tombstone
            \/ \E s \in used' : pending'[a].sid = s /\ ~ Alive(s)'
            \/ /\ pending[a] # NULL /\ pending'[a].sid = pending[a].sid
               /\ pending'[a].tombstone = pending[a].tombstone
  PROVE  EndingStays' /\ TracesOK'
<1>1. TracesOK'
  <2>1. \A s \in Sids : Live(s)' \/ db'.session[s] # NULL => s \in used'
    BY DEF DeadInv, TracesOK
  <2>2. \A c \in Channel' :
           c.cmd \in {"insert_session", "tombstone_session"} => c.sid \in used'
    BY DEF DeadInv, TracesOK
  <2>3. \A a \in Actors : pending'[a] # NULL => pending'[a].sid \in used'
    BY DEF DeadInv, TracesOK
  <2> QED BY <2>1, <2>2, <2>3 DEF TracesOK
<1>2. ASSUME NEW s \in Sids, Ending(s)' PROVE s \in used' /\ ~ Alive(s)'
  <2>1. Ending(s) => s \in used' /\ ~ Alive(s)'
    BY DEF DeadInv, EndingStays
  <2>2. RowEnded(s)' => Ending(s)
    BY DEF RowEnded, Ending
  <2>3. ASSUME QueuedEnd(s)' PROVE s \in used' /\ ~ Alive(s)'
    <3>1. PICK c \in Channel' : c.cmd = "tombstone_session" /\ c.sid = s
      BY <2>3 DEF QueuedEnd
    <3>2. CASE c \in Channel
      BY <2>1, <3>1, <3>2 DEF QueuedEnd, Ending
    <3>3. CASE c \notin Channel
      BY <3>1, <3>3
    <3> QED BY <3>2, <3>3
  <2>4. ASSUME PendingEnd(s)' PROVE s \in used' /\ ~ Alive(s)'
    <3>1. PICK a \in Actors : /\ pending'[a] # NULL
                              /\ pending'[a].tombstone
                              /\ pending'[a].sid = s
      BY <2>4 DEF PendingEnd
    <3>2. CASE s \in used' /\ ~ Alive(s)'
      BY <3>2
    <3>3. CASE /\ pending[a] # NULL /\ pending'[a].sid = pending[a].sid
               /\ pending'[a].tombstone = pending[a].tombstone
      <4>1. Ending(s)
        BY <3>1, <3>3 DEF PendingEnd, Ending
      <4> QED BY <2>1, <4>1
    <3>4. \/ pending'[a].sid \in used' /\ ~ pending'[a].tombstone
          \/ \E x \in used' : pending'[a].sid = x /\ ~ Alive(x)'
          \/ /\ pending[a] # NULL /\ pending'[a].sid = pending[a].sid
             /\ pending'[a].tombstone = pending[a].tombstone
      BY <3>1, Zenon
    <3> QED BY <3>1, <3>2, <3>3, <3>4
  <2> QED BY <1>2, <2>1, <2>2, <2>3, <2>4 DEF Ending
<1> QED BY <1>1, <1>2 DEF EndingStays

\* A worker's entry replaced by one with the same status.
LEMMA SameStatus ==
  ASSUME sessions \in [Sids -> Option(SessionEntry)], NEW s \in Sids, Live(s),
         NEW e, e.status = sessions[s].status,
         sessions' = [sessions EXCEPT ![s] = e]
  PROVE  \A x \in Sids : /\ Alive(x)' => Alive(x)
                         /\ Live(x)' => Live(x)
BY DEF Alive, Live

\* A refresh brings no session to life and ends none.
LEMMA RefreshDead ==
  ASSUME DeadInv, NEW w \in Workers,
         RefreshCoalesced(w) \/ RefreshRotated(w), db' = db
  PROVE  EndingStays' /\ TracesOK'
<1> DEFINE s == index[call[w].tok]
           at == call[w].at
<1>1. s \in Sids /\ at \in Nat /\ Live(s) /\ sessions[s].gens # {}
      /\ sessions[s].status = "alive"
  BY RefreshTyped DEF RefreshCoalesced, RefreshRotated, DeadInv, StoreTyped
<1>2. sessions[s] \in SessionEntry /\ IsFiniteSet(sessions[s].gens)
  BY <1>1, EntryTyped DEF DeadInv, StoreTyped
<1>3. \E e, p : /\ e.status = sessions[s].status
                /\ sessions' = [sessions EXCEPT ![s] = e]
                /\ pending' = [pending EXCEPT ![w] = p]
                /\ p.sid = s /\ p.tombstone = FALSE
  <2>1. CASE RefreshCoalesced(w)
    <3> DEFINE e == Slide(sessions[s], at)
               p == [NothingPending(s, at) EXCEPT !.progress = Progress(e),
                                                  !.token = e.current_token]
    <3>1. /\ sessions' = [sessions EXCEPT ![s] = e]
          /\ pending' = [pending EXCEPT ![w] = p]
      BY <2>1 DEF RefreshCoalesced
    <3>2. e.status = sessions[s].status
      BY <1>1, <1>2, SlidEntry
    <3>3. p.sid = s /\ p.tombstone = FALSE
      BY DEF NothingPending
    <3> HIDE DEF s, e, p
    <3> QED BY <3>1, <3>2, <3>3
  <2>2. CASE RefreshRotated(w)
    <3> DEFINE rotated == Rotated(sessions[s], minted + 1, at)
               e == Slide(ReapGenerations(rotated, at), at)
               p == [NothingPending(s, at) EXCEPT
                       !.added = NewGeneration(e.current_gen, minted + 1, at,
                                               Current(sessions[s]).pos + 1),
                       !.superseded = Current(sessions[s]).tok,
                       !.purged = Purged(rotated, at),
                       !.progress = Progress(e), !.token = minted + 1]
    <3>1. /\ sessions' = [sessions EXCEPT ![s] = e]
          /\ pending' = [pending EXCEPT ![w] = p]
      BY <2>2 DEF RefreshRotated
    <3>2. e.status = sessions[s].status
      <4>1. minted + 1 \in Nat
        BY MapAssumption DEF DeadInv, StoreTyped, MapTyped
      <4> QED BY <1>1, <1>2, <4>1, MintedEntry
    <3>3. p.sid = s /\ p.tombstone = FALSE
      BY DEF NothingPending
    <3> HIDE DEF s, e, p
    <3> QED BY <3>1, <3>2, <3>3
  <2> QED BY <2>1, <2>2
<1>4. PICK e, p : /\ e.status = sessions[s].status
                  /\ sessions' = [sessions EXCEPT ![s] = e]
                  /\ pending' = [pending EXCEPT ![w] = p]
                  /\ p.sid = s /\ p.tombstone = FALSE
  BY <1>3
<1>5. used' = used /\ queue' = queue
  BY DEF RefreshCoalesced, RefreshRotated
<1>6. \A x \in Sids : (Alive(x)' => Alive(x)) /\ (Live(x)' => Live(x))
  <2> HIDE DEF s
  <2> QED BY <1>1, <1>4, SameStatus DEF DeadInv, StoreTyped, MapTyped
<1>7. s \in used
  BY <1>1 DEF DeadInv, TracesOK
<1>8. \A a \in Actors : pending'[a] # NULL =>
         \/ pending'[a].sid \in used' /\ ~ pending'[a].tombstone
         \/ pending[a] # NULL /\ pending'[a] = pending[a]
  <2> HIDE DEF s
  <2> QED BY <1>4, <1>5, <1>7 DEF DeadInv, StoreTyped, MapTyped
<1>9. Channel' = Channel
  BY <1>5 DEF Channel
<1> QED BY <1>5, <1>6, <1>8, <1>9, DeadStep

\* What follows a lock section ends what was killed there, and nothing else.
LEMMA FinishDead ==
  ASSUME DeadInv, NEW w \in Workers, db' = db,
         FinishCreate(w) \/ FinishRefresh(w) \/ FinishTombstone(w) \/ Apply(w)
  PROVE  EndingStays' /\ TracesOK'
<1> DEFINE p == pending[w]
<1>1. /\ p \in Pending /\ p # NULL /\ p.sid \in Sids
      /\ queue \in Seq(StoreCommand)
      /\ pending \in [Actors -> Option(Pending)]
      /\ w \in Actors
  BY DEF DeadInv, StoreTyped, MapTyped, FinishCreate, FinishRefresh,
         FinishTombstone, Apply, Option, Actors, Pending
<1>2. p.sid \in used
  BY <1>1 DEF DeadInv, TracesOK
<1>3. UNCHANGED <<used, sessions>>
  BY DEF FinishCreate, FinishRefresh, FinishTombstone, Apply
<1>4. \A x \in Sids : (Alive(x)' => Alive(x)) /\ (Live(x)' => Live(x))
  BY <1>3 DEF Alive, Live
<1>5. \A a \in Actors : pending'[a] # NULL =>
         /\ pending[a] # NULL /\ pending'[a].sid = pending[a].sid
         /\ pending'[a].tombstone = pending[a].tombstone
  <2>1. CASE FinishCreate(w) \/ FinishRefresh(w) \/ FinishTombstone(w)
    <3>1. pending' = [pending EXCEPT ![w] = NULL]
      BY <2>1 DEF FinishCreate, FinishRefresh, FinishTombstone
    <3> QED BY <1>1, <3>1
  <2>2. CASE Apply(w)
    <3> DEFINE q == [p EXCEPT !.added = NULL, !.superseded = NULL]
    <3>1. pending' = [pending EXCEPT ![w] = q]
      BY <2>2 DEF Apply
    <3>2. q.sid = p.sid /\ q.tombstone = p.tombstone
      BY <1>1 DEF Pending
    <3> HIDE DEF q
    <3> QED BY <1>1, <3>1, <3>2
  <2> QED BY <2>1, <2>2
<1>6. \A c \in Channel' : \/ c \in Channel
                          \/ c.cmd \notin {"insert_session", "tombstone_session"}
                          \/ c.cmd = "insert_session" /\ c.sid \in used
                          \/ c.sid \in used /\ ~ Alive(c.sid)
  <2>1. CASE FinishCreate(w)
    <3> DEFINE e == NewEntry(p.token, p.at)
               b == [cmd |-> "insert_session", sid |-> p.sid,
                     current_gen |-> e.current_gen, idle_exp |-> e.idle_exp,
                     absolute_exp |-> e.absolute_exp]
               c == [cmd |-> "insert_generation", sid |-> p.sid, gen |-> p.added]
    <3>1. Persist(<<b, c>>)
      BY <2>1 DEF FinishCreate
    <3>2. b.cmd = "insert_session" /\ b.sid = p.sid /\ c.cmd = "insert_generation"
      OBVIOUS
    <3> HIDE DEF b, c
    <3>3. Channel' \subseteq Channel \cup {b, c}
      BY <1>1, <3>1, PersistTwo
    <3> QED BY <1>2, <3>2, <3>3
  <2>2. CASE FinishRefresh(w)
    <3> DEFINE c == [cmd |-> "update_session_progress", sid |-> p.sid,
                     current_gen |-> p.progress.current_gen,
                     idle_exp |-> p.progress.idle_exp]
    <3>1. Persist(<<c>>)
      BY <2>2 DEF FinishRefresh
    <3>2. c.cmd = "update_session_progress"
      OBVIOUS
    <3> HIDE DEF c
    <3>3. Channel' \subseteq Channel \cup {c}
      BY <1>1, <3>1, PersistOne
    <3> QED BY <3>2, <3>3
  <2>3. CASE FinishTombstone(w)
    <3> DEFINE c == [cmd |-> "tombstone_session", sid |-> p.sid, at |-> p.at]
    <3>1. Persist(<<c>>) /\ p.tombstone
      BY <2>3 DEF FinishTombstone
    <3>2. c.cmd = "tombstone_session" /\ c.sid = p.sid
      OBVIOUS
    <3> HIDE DEF c
    <3>3. Channel' \subseteq Channel \cup {c}
      BY <1>1, <3>1, PersistOne
    <3>4. Ending(p.sid)
      BY <1>1, <3>1 DEF PendingEnd, Ending
    <3>5. ~ Alive(p.sid)
      BY <1>1, <3>4 DEF DeadInv, EndingStays
    <3> QED BY <1>2, <3>2, <3>3, <3>5
  <2>4. CASE Apply(w)
    <3> DEFINE b == [cmd |-> "insert_generation", sid |-> p.sid, gen |-> p.added]
               c == [cmd |-> "supersede_generation", tok |-> p.superseded,
                     at |-> p.at]
    <3>1. Persist(<<b, c>>)
      BY <2>4 DEF Apply
    <3>2. b.cmd = "insert_generation" /\ c.cmd = "supersede_generation"
      OBVIOUS
    <3> HIDE DEF b, c
    <3>3. Channel' \subseteq Channel \cup {b, c}
      BY <1>1, <3>1, PersistTwo
    <3> QED BY <3>2, <3>3
  <2> QED BY <2>1, <2>2, <2>3, <2>4
<1>7. \A c \in Channel' : \/ c \in Channel
                          \/ c.cmd \notin {"insert_session", "tombstone_session"}
                          \/ c.cmd = "insert_session" /\ c.sid \in used'
                          \/ c.sid \in used' /\ ~ Alive(c.sid)'
  <2>1. \A x : ~ Alive(x) => ~ Alive(x)'
    BY <1>3 DEF Alive, Live
  <2> QED BY <1>3, <1>6, <2>1
<1> HIDE DEF p
<1> QED BY <1>3, <1>4, <1>5, <1>7, DeadStep

\* Forgetting a token ends nothing.
LEMMA PurgeDead ==
  ASSUME DeadInv, NEW a \in Actors, Purge(a), db' = db
  PROVE  EndingStays' /\ TracesOK'
<1> DEFINE p == pending[a]
<1>1. /\ p \in Pending /\ p # NULL
      /\ queue \in Seq(StoreCommand)
      /\ pending \in [Actors -> Option(Pending)]
  BY DEF DeadInv, StoreTyped, MapTyped, Purge, Option
<1>2. UNCHANGED <<used, sessions>>
  BY DEF Purge
<1>3. PICK r \in p.purged :
         /\ Persist(<<[cmd |-> "delete_generation", tok |-> r.tok]>>)
         /\ pending' = [pending EXCEPT ![a] = [p EXCEPT !.purged = @ \ {r}]]
  BY DEF Purge
<1> DEFINE q == [p EXCEPT !.purged = @ \ {r}]
           c == [cmd |-> "delete_generation", tok |-> r.tok]
<1>4. q.sid = p.sid /\ q.tombstone = p.tombstone /\ c.cmd = "delete_generation"
  BY <1>1 DEF Pending
<1>5. pending' = [pending EXCEPT ![a] = q] /\ Persist(<<c>>)
  BY <1>3
<1> HIDE DEF p, q, c
<1>6. \A x \in Actors : pending'[x] # NULL =>
         /\ pending[x] # NULL /\ pending'[x].sid = pending[x].sid
         /\ pending'[x].tombstone = pending[x].tombstone
  BY <1>1, <1>4, <1>5 DEF p
<1>7. Channel' \subseteq Channel \cup {c}
  BY <1>1, <1>5, PersistOne
<1>8. \A x \in Sids : (Alive(x)' => Alive(x)) /\ (Live(x)' => Live(x))
  BY <1>2 DEF Alive, Live
<1>9. \A x \in Channel' : \/ x \in Channel
                          \/ x.cmd \notin {"insert_session", "tombstone_session"}
  BY <1>4, <1>7
<1> QED BY <1>2, <1>6, <1>8, <1>9, DeadStep

\* A kill: the session it ends is not alive from the lock section on.
LEMMA TombstoneDead ==
  ASSUME DeadInv, NEW w \in Workers, NEW s \in Sids, Tombstone(w, s), db' = db
  PROVE  EndingStays' /\ TracesOK'
<1> DEFINE f == sessions[s]
           e == [f EXCEPT !.status = "tombstoned", !.tombstoned_at = now,
                          !.current_token = NULL]
           p == [NothingPending(s, now) EXCEPT !.tombstone = TRUE]
<1>1. /\ sessions' = [sessions EXCEPT ![s] = e]
      /\ pending' = [pending EXCEPT ![w] = p]
      /\ UNCHANGED <<queue, used>>
      /\ Live(s)
  BY DEF Tombstone
<1>2. f \in SessionEntry /\ sessions \in [Sids -> Option(SessionEntry)]
      /\ pending \in [Actors -> Option(Pending)]
  BY <1>1, EntryTyped DEF DeadInv, StoreTyped, MapTyped
<1>3. e.status = "tombstoned" /\ p.sid = s
  BY <1>2 DEF SessionEntry, NothingPending
<1> HIDE DEF f, e, p
<1>4. \A x \in Sids : (Alive(x)' => Alive(x)) /\ (Live(x)' => Live(x))
  BY <1>1, <1>2, <1>3 DEF Alive, Live
<1>5. ~ Alive(s)' /\ s \in used'
  BY <1>1, <1>2, <1>3 DEF Alive, DeadInv, TracesOK
<1>6. \A a \in Actors : pending'[a] # NULL =>
         \/ pending'[a].sid = s
         \/ pending[a] # NULL /\ pending'[a] = pending[a]
  BY <1>1, <1>2, <1>3
<1>7. Channel' = Channel
  BY <1>1 DEF Channel
<1> QED BY <1>1, <1>4, <1>5, <1>6, <1>7, DeadStep

\* A login brings to life a session that no trace of an ending names.
LEMMA CreateDead ==
  ASSUME DeadInv, NEW w \in Workers, NEW s \in Sids, Create(w, s), db' = db
  PROVE  EndingStays' /\ TracesOK'
<1> DEFINE tok == minted + 1
           e == NewEntry(tok, now)
           p == [NothingPending(s, now) EXCEPT
                    !.created = TRUE, !.added = NewGeneration(1, tok, now, 1),
                    !.token = tok]
<1>1. /\ sessions' = [sessions EXCEPT ![s] = e]
      /\ pending' = [pending EXCEPT ![w] = p]
      /\ used' = used \cup {s}
      /\ queue' = queue
      /\ s \notin used
  BY DEF Create
<1>2. p.sid = s /\ p.tombstone = FALSE
  BY DEF NothingPending
<1>3. /\ sessions \in [Sids -> Option(SessionEntry)]
      /\ pending \in [Actors -> Option(Pending)]
  BY DEF DeadInv, StoreTyped, MapTyped
<1> HIDE DEF e, p
<1>4. \A x \in Sids : /\ Alive(x)' => Alive(x) \/ x \notin used
                      /\ Live(x)' => Live(x) \/ x \in used'
  BY <1>1, <1>3 DEF Alive, Live
<1>5. \A a \in Actors : pending'[a] # NULL =>
         \/ pending'[a].sid \in used' /\ ~ pending'[a].tombstone
         \/ pending[a] # NULL /\ pending'[a] = pending[a]
  BY <1>1, <1>2, <1>3
<1>6. Channel' = Channel
  BY <1>1 DEF Channel
<1> QED BY <1>1, <1>4, <1>5, <1>6, DeadStep

\* The sweeper only removes what is there.
LEMMA SweepDead ==
  ASSUME DeadInv, SweepNext, db' = db
  PROVE  EndingStays' /\ TracesOK'
<1>0. /\ sessions \in [Sids -> Option(SessionEntry)]
      /\ pending \in [Actors -> Option(Pending)]
      /\ Sweeper \in Actors
  BY DEF DeadInv, StoreTyped, MapTyped, Actors
<1>1. CASE Purge(Sweeper)
  BY <1>0, <1>1, PurgeDead
<1>2. ASSUME NEW s \in Sids, SweepReap(s) PROVE EndingStays' /\ TracesOK'
  <2> DEFINE e == ReapGenerations(sessions[s], sweep.at)
             p == [NothingPending(s, sweep.at) EXCEPT
                     !.purged = Purged(sessions[s], sweep.at)]
  <2>1. /\ sessions' = [sessions EXCEPT ![s] = e]
        /\ pending' = [pending EXCEPT ![Sweeper] = p]
        /\ UNCHANGED <<queue, used>>
        /\ Live(s)
    BY <1>2 DEF SweepReap, ReapGenerations
  <2>2. e.status = sessions[s].status
    <3>1. sessions[s] \in SessionEntry
      BY <2>1, EntryTyped DEF DeadInv, StoreTyped
    <3> QED BY <3>1 DEF ReapGenerations, SessionEntry
  <2>3. p.sid = s /\ p.tombstone = FALSE
    BY DEF NothingPending
  <2> HIDE DEF e, p
  <2>4. \A x \in Sids : (Alive(x)' => Alive(x)) /\ (Live(x)' => Live(x))
    BY <1>0, <2>1, <2>2, SameStatus
  <2>5. s \in used
    BY <2>1 DEF DeadInv, TracesOK
  <2>6. \A a \in Actors : pending'[a] # NULL =>
           \/ pending'[a].sid \in used' /\ ~ pending'[a].tombstone
           \/ pending[a] # NULL /\ pending'[a] = pending[a]
    BY <1>0, <2>1, <2>3, <2>5
  <2>7. Channel' = Channel
    BY <2>1 DEF Channel
  <2> QED BY <2>1, <2>4, <2>6, <2>7, DeadStep
<1>3. ASSUME UNCHANGED <<queue, used>>,
             \A x \in Sids : sessions'[x] = sessions[x] \/ sessions'[x] = NULL,
             \A a \in Actors : pending'[a] = pending[a] \/ pending'[a] = NULL
      PROVE  EndingStays' /\ TracesOK'
  <2>1. \A x \in Sids : (Alive(x)' => Alive(x)) /\ (Live(x)' => Live(x))
    BY <1>3 DEF Alive, Live
  <2>2. Channel' = Channel
    BY <1>3 DEF Channel
  <2>3. \A a \in Actors : pending'[a] # NULL =>
           pending[a] # NULL /\ pending'[a] = pending[a]
    BY <1>3
  <2> QED BY <1>3, <2>1, <2>2, <2>3, DeadStep
<1>4. CASE SweepStart \/ SweepEnd \/ SweepApplied
  BY <1>0, <1>3, <1>4 DEF SweepStart, SweepEnd, SweepApplied
<1>5. ASSUME NEW s \in Sids, SweepMark(s) \/ SweepRemove(s)
      PROVE  EndingStays' /\ TracesOK'
  BY <1>0, <1>3, <1>5 DEF SweepMark, SweepRemove
<1> QED BY <1>1, <1>2, <1>4, <1>5 DEF SweepNext

\* The writer: a row it tombstones was queued to be, a row it inserts was
\* drawn; what it leaves in the channel was there.
LEMMA WriteBatchDead ==
  ASSUME DeadInv, WriteBatch
  PROVE  EndingStays' /\ TracesOK'
<1> DEFINE Fine(d) ==
             \A s \in Sids :
                /\ d.session[s] # NULL => s \in used
                /\ d.session[s] # NULL /\ d.session[s].status = "tombstoned" =>
                      RowEnded(s) \/ QueuedEnd(s)
           Good == {d \in Db : IsFiniteSet(d.generation) /\ Fine(d)} \cup {NULL}
<1>1. PICK n \in 1..Len(queue) :
         /\ queue' = SubSeq(queue, n + 1, Len(queue))
         /\ \/ db' = db
            \/ db' = Batch(db, SubSeq(queue, 1, n)) /\ db' # NULL
  <2>1. PICK n \in 1..Len(queue), fault \in {FALSE, StoreFaults /\ ~ failed} :
          LET batch == SubSeq(queue, 1, n)
              d == IF fault THEN NULL ELSE Batch(db, batch)
          IN /\ queue' = SubSeq(queue, n + 1, Len(queue))
             /\ db' = IF d = NULL THEN db ELSE d
    BY DEF WriteBatch
  <2> QED BY <2>1
<1>2. /\ queue \in Seq(StoreCommand)
      /\ db \in Db /\ IsFiniteSet(db.generation)
  BY DEF DeadInv, StoreTyped, MapTyped, RowsTyped
<1> DEFINE cmds == SubSeq(queue, 1, n)
<1>3. /\ cmds \in Seq(StoreCommand)
      /\ Len(cmds) \in Nat
      /\ \A i \in 1..Len(cmds) : cmds[i] \in StoreCommand /\ cmds[i] \in Channel
      /\ Channel' \subseteq Channel
  <2>1. /\ cmds \in Seq(StoreCommand) /\ Len(cmds) = n
        /\ \A i \in 1..n : cmds[i] = queue[i]
        /\ Len(queue') = Len(queue) - n
        /\ \A i \in 1..(Len(queue) - n) : queue'[i] = queue[n + i]
    BY <1>1, <1>2, DrainedTyped
  <2>2. Len(queue) \in Nat /\ n \in 1..Len(queue)
    BY <1>2
  <2> HIDE DEF cmds
  <2>3. \A i \in 1..Len(cmds) : cmds[i] \in StoreCommand /\ cmds[i] \in Channel
    BY <2>1, <2>2, <1>2 DEF Channel
  <2>4. Channel' \subseteq Channel
    BY <2>1, <2>2 DEF Channel
  <2> QED BY <2>1, <2>2, <2>3, <2>4
<1> HIDE DEF cmds
<1>4. Fine(db)
  BY DEF DeadInv, TracesOK, RowEnded
<1>5. ASSUME NEW d \in Good, NEW i \in 1..Len(cmds)
      PROVE  Stepped(d, cmds[i]) \in Good
  <2>1. CASE d = NULL
    BY <2>1 DEF Stepped
  <2>2. CASE d # NULL
    <3> DEFINE e == Applied(d, cmds[i])
               c == cmds[i]
    <3>1. d \in Db /\ IsFiniteSet(d.generation) /\ Fine(d)
      BY <2>2
    <3>2. c \in StoreCommand /\ c \in Channel
      BY <1>3
    <3>3. Stepped(d, cmds[i]) = e
      BY <2>2 DEF Stepped
    <3>4. CASE e = NULL
      BY <3>3, <3>4
    <3>5. CASE e # NULL
      <4>1. e \in Db /\ IsFiniteSet(e.generation)
        BY <3>1, <3>2, <3>5, AppliedType, FailsIsNull
      <4>2. \A s \in Sids : RowFollows(d, c, e, s)
        BY <3>1, <3>2, <3>5, AppliedRows
      <4> HIDE DEF e, c
      <4>3. Fine(e)
        <5> SUFFICES ASSUME NEW s \in Sids, e.session[s] # NULL
                     PROVE  /\ s \in used
                            /\ e.session[s].status = "tombstoned" =>
                                 RowEnded(s) \/ QueuedEnd(s)
          OBVIOUS
        <5>1. RowFollows(d, c, e, s)
          BY <4>2
        <5>2. s \in used
          BY <3>1, <3>2, <5>1 DEF RowFollows, DeadInv, TracesOK
        <5>3. e.session[s].status = "tombstoned" => RowEnded(s) \/ QueuedEnd(s)
          BY <3>1, <3>2, <5>1 DEF RowFollows, QueuedEnd
        <5> QED BY <5>2, <5>3
      <4> QED BY <3>3, <4>1, <4>3
    <3> QED BY <3>4, <3>5
  <2> QED BY <2>1, <2>2
<1>6. Batch(db, cmds) \in Good
  <2> DEFINE D == [i \in 0..Len(cmds) |-> Good]
  <2>1. db \in Good
    BY <1>2, <1>4
  <2> HIDE DEF Good
  <2>2. \A i \in 0..Len(cmds) : D[i] = Good
    OBVIOUS
  <2>3. 0 \in 0..Len(cmds) /\ Len(cmds) \in 0..Len(cmds)
    BY <1>3
  <2>4. \A i \in 1..Len(cmds) : i \in 0..Len(cmds) /\ i - 1 \in 0..Len(cmds)
    BY <1>3
  <2> HIDE DEF D
  <2>5. \A i \in 1..Len(cmds) : \A d \in D[i - 1] : Stepped(d, cmds[i]) \in D[i]
    BY <1>5, <2>2, <2>4
  <2>6. Batch(db, cmds) \in D[Len(cmds)]
    BY <1>3, <2>1, <2>2, <2>3, <2>5, BatchInduction
  <2> QED BY <2>2, <2>3, <2>6
<1>7. db' \in Db /\ Fine(db')
  <2>1. CASE db' = db
    BY <1>2, <1>4, <2>1
  <2>2. CASE db' = Batch(db, cmds) /\ db' # NULL
    BY <1>6, <2>2
  <2> QED BY <1>1, <2>1, <2>2 DEF cmds
<1>8. UNCHANGED <<sessions, used, pending>>
  BY DEF WriteBatch
<1>9. \A s : Alive(s)' <=> Alive(s)
  BY <1>8 DEF Alive, Live
<1>10. ASSUME NEW s \in Sids, Ending(s)' PROVE Ending(s)
  <2>1. RowEnded(s)' => RowEnded(s) \/ QueuedEnd(s)
    BY <1>7 DEF RowEnded
  <2>2. QueuedEnd(s)' => QueuedEnd(s)
    BY <1>3 DEF QueuedEnd
  <2>3. PendingEnd(s)' => PendingEnd(s)
    BY <1>8 DEF PendingEnd
  <2> QED BY <1>10, <2>1, <2>2, <2>3 DEF Ending
<1>11. EndingStays'
  BY <1>8, <1>9, <1>10 DEF EndingStays, DeadInv
<1>12. TracesOK'
  <2>1. \A s \in Sids : Live(s)' \/ db'.session[s] # NULL => s \in used'
    BY <1>7, <1>8 DEF DeadInv, TracesOK, Live
  <2> QED BY <1>3, <1>8, <2>1 DEF DeadInv, TracesOK
<1> QED BY <1>11, <1>12

\* A process that stops takes what it had not yet written with it.
LEMMA StopDead ==
  ASSUME DeadInv, NEW clean, Stop(clean)
  PROVE  EndingStays' /\ TracesOK' /\ DownOK'
<1>1. /\ \A s \in Sids : sessions'[s] = NULL
      /\ queue' = <<>>
      /\ \A a \in Actors : pending'[a] = NULL
      /\ UNCHANGED <<used, db>>
  BY DEF Stop, MemoryLost
<1>2. Channel' = {}
  BY <1>1 DEF Channel
<1>3. ASSUME NEW s \in Sids, Ending(s)' PROVE Ending(s)
  BY <1>1, <1>2, <1>3 DEF Ending, RowEnded, QueuedEnd, PendingEnd
<1>4. EndingStays'
  BY <1>1, <1>3 DEF EndingStays, DeadInv, Alive, Live
<1>5. TracesOK'
  BY <1>1, <1>2 DEF TracesOK, DeadInv, Live
<1> QED BY <1>1, <1>4, <1>5 DEF DownOK

\* A restart brings back no session whose row is tombstoned, and then nothing
\* else ends one.
LEMMA BootDead ==
  ASSUME DeadInv, Boot
  PROVE  EndingStays' /\ TracesOK' /\ DownOK'
<1>1. /\ queue = <<>> /\ \A a \in Actors : pending[a] = NULL
      /\ UNCHANGED <<queue, pending, used, db>>
      /\ up' = TRUE
  BY DEF Boot, DeadInv, DownOK
<1>2. \A s \in Sids : Live(s)' => s \in Rehydratable
  BY DEF Boot, Live
<1>3. Channel' = {}
  BY <1>1 DEF Channel
<1>4. ASSUME NEW s \in Sids, Ending(s)' PROVE RowEnded(s)
  BY <1>1, <1>3, <1>4 DEF Ending, RowEnded, QueuedEnd, PendingEnd
<1>5. EndingStays'
  <2> SUFFICES ASSUME NEW s \in Sids, Ending(s)'
               PROVE  s \in used' /\ ~ Alive(s)'
    BY DEF EndingStays
  <2>1. RowEnded(s)
    BY <1>4
  <2>2. s \in used'
    BY <1>1, <2>1 DEF RowEnded, DeadInv, TracesOK
  <2>3. s \notin Rehydratable
    BY <2>1 DEF RowEnded, Rehydratable
  <2> QED BY <1>2, <2>2, <2>3 DEF Alive
<1>6. TracesOK'
  <2>1. \A s \in Sids : Live(s)' \/ db'.session[s] # NULL => s \in used'
    BY <1>1, <1>2 DEF Rehydratable, DeadInv, TracesOK
  <2> QED BY <1>1, <1>3, <2>1 DEF TracesOK
<1> QED BY <1>1, <1>5, <1>6 DEF DownOK

\* A command of the store's own in the channel.
LEMMA EnqueuedDead ==
  ASSUME DeadInv, NEW c, queue' = Append(queue, c),
         \/ c.cmd \in {"insert_custody", "reap"}
         \/ c.cmd = "tombstone_session" /\ c.sid \in used /\ ~ Alive(c.sid),
         UNCHANGED <<sessions, pending, used, db>>
  PROVE  EndingStays' /\ TracesOK'
<1>1. Channel' \subseteq Channel \cup {c}
  BY AppendOne DEF DeadInv, StoreTyped, MapTyped
<1>2. \A x : Alive(x)' = Alive(x) /\ Live(x)' = Live(x)
  BY DEF Alive, Live
<1>3. \A x \in Sids : (Alive(x)' => Alive(x)) /\ (Live(x)' => Live(x))
  BY <1>2
<1>4. \A x \in Channel' : \/ x \in Channel
                          \/ x.cmd \notin {"insert_session", "tombstone_session"}
                          \/ x.sid \in used' /\ ~ Alive(x.sid)'
  BY <1>1, <1>2
<1>5. \A a \in Actors : pending'[a] # NULL =>
         pending[a] # NULL /\ pending'[a] = pending[a]
  OBVIOUS
<1> QED BY <1>3, <1>4, <1>5, DeadStep

LEMMA InitDead == StoreInit => DeadInv
<1> SUFFICES ASSUME StoreInit PROVE DeadInv
  OBVIOUS
<1>1. Channel = {}
  BY DEF StoreInit, Init, Channel
<1>2. EndingStays
  BY <1>1 DEF StoreInit, Init, EmptyDb, EndingStays, Ending, RowEnded, QueuedEnd,
              PendingEnd
<1>3. TracesOK
  BY <1>1 DEF StoreInit, Init, EmptyDb, TracesOK, Live
<1> QED BY <1>2, <1>3, InitTyped DEF DeadInv, DownOK, StoreInit

LEMMA NextDead == DeadInv /\ [StoreNext]_allVars => DeadInv'
<1> SUFFICES ASSUME DeadInv, [StoreNext]_allVars PROVE DeadInv'
  OBVIOUS
<1>1. StoreTyped'
  BY NextTyped DEF DeadInv
<1>2. CASE StoreTick
  <2>1. UNCHANGED <<sessions, queue, pending, used, db, up>>
    BY <1>2 DEF StoreTick, Tick, storeVars
  <2> QED BY <1>1, <2>1 DEF DeadInv, EndingStays, TracesOK, DownOK, Ending,
             RowEnded, QueuedEnd, PendingEnd, Alive, Live, Channel
<1>3. ASSUME NEW w \in Workers, Serve(w) PROVE EndingStays' /\ TracesOK'
  <2>1. db' = db /\ w \in Actors /\ HandlerNext(w)
    BY <1>3 DEF Serve, storeVars, Actors
  <2>2. ASSUME NEW tok \in Tokens, BeginRefresh(w, tok)
        PROVE  EndingStays' /\ TracesOK'
    <3>1. UNCHANGED <<sessions, queue, pending, used>>
      BY <2>2 DEF BeginRefresh
    <3> QED BY <2>1, <3>1 DEF DeadInv, EndingStays, TracesOK, Ending,
               RowEnded, QueuedEnd, PendingEnd, Alive, Live, Channel
  <2>3. ASSUME RefreshDenied(w) PROVE EndingStays' /\ TracesOK'
    <3>1. UNCHANGED <<sessions, queue, pending, used>>
      BY <2>3 DEF RefreshDenied
    <3> QED BY <2>1, <3>1 DEF DeadInv, EndingStays, TracesOK, Ending,
               RowEnded, QueuedEnd, PendingEnd, Alive, Live, Channel
  <2> QED BY <2>1, <2>2, <2>3, RefreshDead, FinishDead, PurgeDead DEF HandlerNext
<1>4. ASSUME NEW w \in Workers, NEW tok \in Tokens, Logout(w, tok)
      PROVE  EndingStays' /\ TracesOK'
  <2>1. index[tok] \in Sids
    BY <1>4 DEF Logout, DeadInv, StoreTyped, MapTyped, Option
  <2> QED BY <1>4, <2>1, TombstoneDead DEF Logout, storeVars
<1>5. ASSUME NEW w \in Workers, NEW s \in Sids, RevokeSession(w, s)
      PROVE  EndingStays' /\ TracesOK'
  BY <1>5, TombstoneDead DEF RevokeSession, storeVars
<1>6. ASSUME NEW s \in Sids, RevokeStored(s) PROVE EndingStays' /\ TracesOK'
  <2> DEFINE c == [cmd |-> "tombstone_session", sid |-> s, at |-> now]
  <2>1. queue' = Append(queue, c) /\ UNCHANGED <<sessions, pending, used, db>>
    BY <1>6 DEF RevokeStored, storeVars
  <2>2. s \in used /\ ~ Alive(s)
    BY <1>6 DEF RevokeStored, Rehydratable, DeadInv, TracesOK, Alive
  <2>3. c.cmd = "tombstone_session" /\ c.sid = s
    OBVIOUS
  <2> HIDE DEF c
  <2> QED BY <2>1, <2>2, <2>3, EnqueuedDead
<1>7. ASSUME NEW w \in Workers, NEW s \in Sids, TakeCustody(w, s)
      PROVE  EndingStays' /\ TracesOK'
  <2> DEFINE c == [cmd |-> "insert_custody", sid |-> s]
  <2>1. queue' = Append(queue, c) /\ UNCHANGED <<sessions, pending, used, db>>
    BY <1>7 DEF TakeCustody
  <2>2. c.cmd \in {"insert_custody", "reap"}
    OBVIOUS
  <2> HIDE DEF c
  <2> QED BY <2>1, <2>2, EnqueuedDead
<1>8. ASSUME NEW w \in Workers, FinishLogin(w) PROVE EndingStays' /\ TracesOK'
  <2>1. login[w].sid \in Sids
    BY <1>8 DEF FinishLogin, DeadInv, StoreTyped, RowsTyped, Option
  <2> QED BY <1>8, <2>1, CreateDead DEF FinishLogin
<1>9. ASSUME NEW w \in Workers, RefuseLogin(w) PROVE EndingStays' /\ TracesOK'
  <2>1. UNCHANGED <<sessions, queue, pending, used, db>>
    BY <1>9 DEF RefuseLogin, vars
  <2> QED BY <2>1 DEF DeadInv, EndingStays, TracesOK, Ending,
             RowEnded, QueuedEnd, PendingEnd, Alive, Live, Channel
<1>10. ASSUME Reaper PROVE EndingStays' /\ TracesOK'
  BY <1>10, SweepDead DEF Reaper
<1>11. ASSUME EnqueueReap PROVE EndingStays' /\ TracesOK'
  <2> DEFINE c == [cmd |-> "reap", dead_before |-> reapDue - ReapAfter]
  <2>1. queue' = Append(queue, c) /\ UNCHANGED <<sessions, pending, used, db>>
    BY <1>11 DEF EnqueueReap
  <2>2. c.cmd \in {"insert_custody", "reap"}
    OBVIOUS
  <2> HIDE DEF c
  <2> QED BY <2>1, <2>2, EnqueuedDead
<1>12. CASE UNCHANGED allVars
  <2>1. UNCHANGED <<sessions, queue, pending, used, db, up>>
    BY <1>12 DEF allVars, vars, storeVars
  <2> QED BY <1>1, <2>1 DEF DeadInv, EndingStays, TracesOK, DownOK, Ending,
             RowEnded, QueuedEnd, PendingEnd, Alive, Live, Channel
<1>13. CASE Crash \/ Shutdown
  BY <1>1, <1>13, StopDead DEF Crash, Shutdown, DeadInv
<1>14. CASE Boot
  BY <1>1, <1>14, BootDead DEF DeadInv
<1>15. ASSUME up, up' = up, EndingStays' /\ TracesOK' PROVE DeadInv'
  BY <1>1, <1>15 DEF DeadInv, DownOK
<1>16. ASSUME NEW w \in Workers, Serve(w) PROVE DeadInv'
  BY <1>3, <1>15, <1>16 DEF Serve, storeVars
<1>17. ASSUME NEW w \in Workers, NEW tok \in Tokens, Logout(w, tok) PROVE DeadInv'
  BY <1>4, <1>15, <1>17 DEF Logout, storeVars
<1>18. ASSUME NEW w \in Workers, NEW s \in Sids, RevokeSession(w, s) PROVE DeadInv'
  BY <1>5, <1>15, <1>18 DEF RevokeSession, storeVars
<1>19. ASSUME NEW s \in Sids, RevokeStored(s) PROVE DeadInv'
  BY <1>6, <1>15, <1>19 DEF RevokeStored, storeVars
<1>20. ASSUME NEW w \in Workers, NEW s \in Sids, TakeCustody(w, s) PROVE DeadInv'
  BY <1>7, <1>15, <1>20 DEF TakeCustody
<1>21. ASSUME NEW w \in Workers, FinishLogin(w) \/ RefuseLogin(w) PROVE DeadInv'
  BY <1>8, <1>9, <1>15, <1>21 DEF FinishLogin, RefuseLogin
<1>22. CASE Reaper \/ EnqueueReap
  BY <1>10, <1>11, <1>15, <1>22 DEF Reaper, EnqueueReap
<1>23. CASE WriteBatch
  <2>1. up /\ up' = up
    BY <1>23 DEF WriteBatch
  <2> QED BY <1>15, <1>23, <2>1, WriteBatchDead
<1> QED BY <1>2, <1>12, <1>13, <1>14, <1>16, <1>17, <1>18, <1>19, <1>20, <1>21,
           <1>22, <1>23 DEF StoreNext

LEMMA DeadInvariance == StoreSpec => []DeadInv
BY InitDead, NextDead, PTL DEF StoreSpec

\* INV-7 across restarts: once the writer has committed a session's tombstone,
\* no crash, no restart and no later command brings the session back to life,
\* however the batches were cut and whatever else was queued or lost.
THEOREM TombstonesSurviveRestarts == StoreSpec => []TombstoneSurvives
<1>1. DeadInv => TombstoneSurvives
  BY DEF DeadInv, EndingStays, Ending, RowEnded, Alive, TombstoneSurvives
<1> QED BY <1>1, DeadInvariance, PTL

----------------------------------------------------------------------------
(***************************************************************************)
(* What reaping takes.  The absolute end a session was created with is the *)
(* same wherever it is written: in its entry, in the work of the call that *)
(* created it, in the command that call enqueues and in the row; and the   *)
(* reaper counts from a moment that has passed.                            *)
(***************************************************************************)
\* The absolute end of the session whose creation left work p.
MadeEnd(p) == p.at + AbsoluteTtl

\* Worker a has created session s and not yet enqueued its row.
Making(a, s) == pending[a] # NULL /\ pending[a].created /\ pending[a].sid = s

EndsAgree ==
  \A s \in Sids : Live(s) =>
    /\ db.session[s] # NULL =>
         db.session[s].absolute_exp = sessions[s].absolute_exp
    /\ \A c \in Channel : c.cmd = "insert_session" /\ c.sid = s =>
         c.absolute_exp = sessions[s].absolute_exp
    /\ \A a \in Actors : Making(a, s) =>
         MadeEnd(pending[a]) = sessions[s].absolute_exp

ReapsPast ==
  /\ sweep # NULL => sweep.at <= now
  /\ reapDue # NULL => reapDue <= now
  /\ \A c \in Channel : c.cmd = "reap" => c.dead_before <= now

DatesInv == DeadInv /\ EndsAgree /\ ReapsPast

\* What one command c that makes rows e of rows d does to the absolute end of
\* session s: it is written once, and the row goes only to a reaping.
RowDated(d, c, e, s) ==
  /\ e.session[s] # NULL =>
        \/ /\ d.session[s] # NULL
           /\ e.session[s].absolute_exp = d.session[s].absolute_exp
        \/ /\ c.cmd = "insert_session" /\ c.sid = s
           /\ e.session[s].absolute_exp = c.absolute_exp
  /\ d.session[s] # NULL /\ e.session[s] = NULL =>
        /\ c.cmd = "reap"
        /\ \/ d.session[s].status = "tombstoned"
           \/ d.session[s].absolute_exp < c.dead_before

LEMMA AppliedDates ==
  ASSUME NEW d \in Db, NEW c \in StoreCommand, Applied(d, c) # NULL, NEW s \in Sids
  PROVE  RowDated(d, c, Applied(d, c), s)
<1> DEFINE e == Applied(d, c)
<1> SUFFICES RowDated(d, c, e, s)
  OBVIOUS
<1> HIDE DEF e
<1>0. /\ d.session \in [Sids -> Option(Row)]
      /\ d = [custody |-> d.custody, session |-> d.session,
              generation |-> d.generation]
      /\ RowFollows(d, c, e, s)
  BY AppliedRows DEF Db, e
<1>1. CASE c.cmd \in {"insert_custody", "insert_generation",
                      "supersede_generation", "delete_generation"}
  <2>1. e.session = d.session
    <3>1. \E K, G : e = [d EXCEPT !.custody = K] \/ e = [d EXCEPT !.generation = G]
      BY <1>1 DEF Applied, e
    <3> QED BY <1>0, <3>1
  <2> QED BY <1>1, <2>1 DEF RowDated
<1>2. CASE c.cmd = "insert_session"
  <2> DEFINE row == [current_gen |-> c.current_gen, idle_exp |-> c.idle_exp,
                     absolute_exp |-> c.absolute_exp, status |-> "alive",
                     tombstoned_at |-> NULL]
  <2>1. row.absolute_exp = c.absolute_exp
    OBVIOUS
  <2>2. e.session = [d.session EXCEPT ![c.sid] = row]
    <3>1. e = [d EXCEPT !.session[c.sid] = row]
      BY <1>2, AppliedKinds DEF e
    <3> HIDE DEF row
    <3> QED BY <1>0, <3>1
  <2> HIDE DEF row
  <2> QED BY <1>0, <1>2, <2>1, <2>2 DEF RowDated, RowFollows
<1>3. ASSUME c.sid \in Sids, c.cmd # "reap", NEW row,
             e = IF d.session[c.sid] = NULL THEN d
                 ELSE [d EXCEPT !.session[c.sid] = row],
             d.session[c.sid] # NULL => row.absolute_exp = d.session[c.sid].absolute_exp
      PROVE  RowDated(d, c, e, s)
  <2>1. \/ e.session = d.session
        \/ d.session[c.sid] # NULL /\ e.session = [d.session EXCEPT ![c.sid] = row]
    BY <1>0, <1>3
  <2> QED BY <1>0, <1>3, <2>1 DEF RowDated, RowFollows
<1>4. CASE c.cmd = "update_session_progress"
  <2> DEFINE row == [d.session[c.sid] EXCEPT !.current_gen = c.current_gen,
                                             !.idle_exp = c.idle_exp]
  <2>1. e = IF d.session[c.sid] = NULL THEN d ELSE [d EXCEPT !.session[c.sid] = row]
    BY <1>4, AppliedKinds, ZenonT(40) DEF UpdateSession, e
  <2>2. c.sid \in Sids
    BY <1>4, CommandKinds
  <2>3. d.session[c.sid] # NULL => row.absolute_exp = d.session[c.sid].absolute_exp
    <3>1. d.session[c.sid] # NULL => d.session[c.sid] \in Row
      BY <1>0, <2>2 DEF Option
    <3> QED BY <3>1 DEF Row
  <2> HIDE DEF row
  <2> QED BY <1>3, <1>4, <2>1, <2>2, <2>3
<1>5. CASE c.cmd = "tombstone_session"
  <2> DEFINE row == [d.session[c.sid] EXCEPT
                    !.status = "tombstoned",
                    !.tombstoned_at = IF @ = NULL THEN c.at ELSE @]
  <2>1. e = IF d.session[c.sid] = NULL THEN d ELSE [d EXCEPT !.session[c.sid] = row]
    BY <1>5, AppliedKinds, ZenonT(40) DEF UpdateSession, e
  <2>2. c.sid \in Sids
    BY <1>5, CommandKinds
  <2>3. d.session[c.sid] # NULL => row.absolute_exp = d.session[c.sid].absolute_exp
    <3>1. d.session[c.sid] # NULL => d.session[c.sid] \in Row
      BY <1>0, <2>2 DEF Option
    <3> QED BY <3>1 DEF Row
  <2> HIDE DEF row
  <2> QED BY <1>3, <1>5, <2>1, <2>2, <2>3
<1>6. CASE c.cmd = "reap"
  <2>1. e = Reaped(d, c.dead_before)
    BY <1>6, AppliedKinds DEF e
  <2>2. \/ e.session[s] = d.session[s]
        \/ /\ e.session[s] = NULL
           /\ \/ d.session[s].status = "tombstoned"
              \/ d.session[s].absolute_exp < c.dead_before
    BY <2>1 DEF Reaped
  <2> QED BY <1>6, <2>2 DEF RowDated
<1> QED BY <1>1, <1>2, <1>4, <1>5, <1>6, CommandKinds

\* How a step that writes no row treats the dates.
DatesMove ==
  /\ \A s \in Sids : Live(s)' =>
        \/ s \notin used
        \/ Live(s) /\ sessions'[s].absolute_exp = sessions[s].absolute_exp
  /\ \A c \in Channel' :
        \/ c \in Channel
        \/ c.cmd \notin {"insert_session", "reap"}
        \/ /\ c.cmd = "insert_session"
           /\ \E a \in Actors : /\ Making(a, c.sid)
                                /\ c.absolute_exp = MadeEnd(pending[a])
  /\ \A a \in Actors : \A s \in Sids : Making(a, s)' =>
        \/ Making(a, s) /\ pending'[a].at = pending[a].at
        \/ s \notin used /\ MadeEnd(pending'[a]) = sessions'[s].absolute_exp

LEMMA DatesStep ==
  ASSUME DeadInv, EndsAgree, db' = db, DatesMove
  PROVE  EndsAgree'
<1> SUFFICES ASSUME NEW s \in Sids, Live(s)'
    PROVE  /\ db'.session[s] # NULL =>
                db'.session[s].absolute_exp = sessions'[s].absolute_exp
           /\ \A c \in Channel' : c.cmd = "insert_session" /\ c.sid = s =>
                c.absolute_exp = sessions'[s].absolute_exp
           /\ \A a \in Actors : Making(a, s)' =>
                MadeEnd(pending'[a]) = sessions'[s].absolute_exp
  BY Zenon DEF EndsAgree
<1>1. CASE s \notin used
  <2>1. db.session[s] = NULL
    BY <1>1 DEF DeadInv, TracesOK
  <2>2. \A a \in Actors : ~ Making(a, s)
    BY <1>1 DEF DeadInv, TracesOK, Making
  <2>3. \A c \in Channel' : ~ (c.cmd = "insert_session" /\ c.sid = s)
    <3> SUFFICES ASSUME NEW c \in Channel', c.cmd = "insert_session", c.sid = s
                 PROVE  FALSE
      OBVIOUS
    <3>1. c \in Channel
      BY <2>2 DEF DatesMove
    <3> QED BY <1>1, <3>1 DEF DeadInv, TracesOK
  <2>4. \A a \in Actors : Making(a, s)' =>
           MadeEnd(pending'[a]) = sessions'[s].absolute_exp
    BY <2>2 DEF DatesMove
  <2> QED BY <2>1, <2>3, <2>4
<1>2. CASE s \in used
  <2>1. Live(s) /\ sessions'[s].absolute_exp = sessions[s].absolute_exp
    BY <1>2 DEF DatesMove
  <2>2. db.session[s] # NULL =>
          db.session[s].absolute_exp = sessions[s].absolute_exp
    BY <2>1 DEF EndsAgree
  <2>3. \A a \in Actors : Making(a, s) =>
          MadeEnd(pending[a]) = sessions[s].absolute_exp
    BY <2>1 DEF EndsAgree
  <2>4. ASSUME NEW c \in Channel', c.cmd = "insert_session", c.sid = s
        PROVE  c.absolute_exp = sessions[s].absolute_exp
    <3>1. CASE c \in Channel
      BY <2>1, <2>4, <3>1 DEF EndsAgree
    <3>2. CASE c \notin Channel
      BY <2>3, <2>4, <3>2 DEF DatesMove
    <3> QED BY <3>1, <3>2
  <2>5. ASSUME NEW a \in Actors, Making(a, s)'
        PROVE  MadeEnd(pending'[a]) = sessions[s].absolute_exp
    <3>1. Making(a, s) /\ pending'[a].at = pending[a].at
      BY <1>2, <2>5 DEF DatesMove
    <3> QED BY <2>3, <3>1 DEF MadeEnd
  <2> QED BY <2>1, <2>2, <2>4, <2>5
<1> QED BY <1>1, <1>2

\* A session's entry replaced by one with the same absolute end.
LEMMA SameEnd ==
  ASSUME sessions \in [Sids -> Option(SessionEntry)], NEW s \in Sids, Live(s),
         NEW e, e.absolute_exp = sessions[s].absolute_exp,
         sessions' = [sessions EXCEPT ![s] = e]
  PROVE  \A x \in Sids : Live(x)' =>
            Live(x) /\ sessions'[x].absolute_exp = sessions[x].absolute_exp
BY DEF Live

\* An actor's work replaced by work that creates nothing.
LEMMA NoMaker ==
  ASSUME pending \in [Actors -> Option(Pending)], NEW b \in Actors, NEW p,
         p = NULL \/ ~ p.created, pending' = [pending EXCEPT ![b] = p]
  PROVE  \A a \in Actors : \A s \in Sids : Making(a, s)' =>
            Making(a, s) /\ pending'[a].at = pending[a].at
BY DEF Making

\* A refresh keeps the absolute end, and creates nothing.
LEMMA RefreshDates ==
  ASSUME DeadInv, NEW w \in Workers, RefreshCoalesced(w) \/ RefreshRotated(w)
  PROVE  DatesMove
<1> DEFINE s == index[call[w].tok]
           at == call[w].at
<1>1. /\ s \in Sids /\ at \in Nat /\ Live(s) /\ sessions[s].gens # {}
      /\ sessions \in [Sids -> Option(SessionEntry)]
      /\ pending \in [Actors -> Option(Pending)]
      /\ w \in Actors
  BY RefreshTyped
  DEF RefreshCoalesced, RefreshRotated, DeadInv, StoreTyped, MapTyped, Actors
<1>2. sessions[s] \in SessionEntry /\ IsFiniteSet(sessions[s].gens)
  BY <1>1, EntryTyped DEF DeadInv, StoreTyped
<1>3. \E e, p : /\ e.absolute_exp = sessions[s].absolute_exp
                /\ sessions' = [sessions EXCEPT ![s] = e]
                /\ pending' = [pending EXCEPT ![w] = p]
                /\ ~ p.created
  <2>1. CASE RefreshCoalesced(w)
    <3> DEFINE e == Slide(sessions[s], at)
               p == [NothingPending(s, at) EXCEPT !.progress = Progress(e),
                                                  !.token = e.current_token]
    <3>1. /\ sessions' = [sessions EXCEPT ![s] = e]
          /\ pending' = [pending EXCEPT ![w] = p]
      BY <2>1 DEF RefreshCoalesced
    <3>2. e.absolute_exp = sessions[s].absolute_exp
      BY <1>1, <1>2, SlidEntry
    <3>3. ~ p.created
      BY DEF NothingPending
    <3> HIDE DEF s, e, p
    <3> QED BY <3>1, <3>2, <3>3
  <2>2. CASE RefreshRotated(w)
    <3> DEFINE rotated == Rotated(sessions[s], minted + 1, at)
               e == Slide(ReapGenerations(rotated, at), at)
               p == [NothingPending(s, at) EXCEPT
                       !.added = NewGeneration(e.current_gen, minted + 1, at,
                                               Current(sessions[s]).pos + 1),
                       !.superseded = Current(sessions[s]).tok,
                       !.purged = Purged(rotated, at),
                       !.progress = Progress(e), !.token = minted + 1]
    <3>1. /\ sessions' = [sessions EXCEPT ![s] = e]
          /\ pending' = [pending EXCEPT ![w] = p]
      BY <2>2 DEF RefreshRotated
    <3>2. e.absolute_exp = sessions[s].absolute_exp
      <4>1. minted + 1 \in Nat
        BY MapAssumption DEF DeadInv, StoreTyped, MapTyped
      <4> QED BY <1>1, <1>2, <4>1, MintedEntry
    <3>3. ~ p.created
      BY DEF NothingPending
    <3> HIDE DEF s, e, p
    <3> QED BY <3>1, <3>2, <3>3
  <2> QED BY <2>1, <2>2
<1>4. PICK e, p : /\ e.absolute_exp = sessions[s].absolute_exp
                  /\ sessions' = [sessions EXCEPT ![s] = e]
                  /\ pending' = [pending EXCEPT ![w] = p]
                  /\ ~ p.created
  BY <1>3
<1> HIDE DEF s
<1>5. Channel' = Channel
  BY DEF RefreshCoalesced, RefreshRotated, Channel
<1> QED BY <1>1, <1>4, <1>5, SameEnd, NoMaker DEF DatesMove

\* After the lock section the end goes from the creator's work to its command.
LEMMA FinishDates ==
  ASSUME DeadInv, NEW w \in Workers,
         FinishCreate(w) \/ FinishRefresh(w) \/ FinishTombstone(w) \/ Apply(w)
  PROVE  DatesMove
<1> DEFINE p == pending[w]
<1>1. /\ p \in Pending /\ p # NULL
      /\ queue \in Seq(StoreCommand)
      /\ pending \in [Actors -> Option(Pending)]
      /\ w \in Actors
  BY DEF DeadInv, StoreTyped, MapTyped, FinishCreate, FinishRefresh,
         FinishTombstone, Apply, Option, Actors
<1>2. \A x \in Sids : Live(x)' =>
         Live(x) /\ sessions'[x].absolute_exp = sessions[x].absolute_exp
  BY DEF FinishCreate, FinishRefresh, FinishTombstone, Apply, Live
<1>3. \A a \in Actors : \A s \in Sids : Making(a, s)' =>
         Making(a, s) /\ pending'[a].at = pending[a].at
  <2>1. CASE FinishCreate(w) \/ FinishRefresh(w) \/ FinishTombstone(w)
    <3>1. pending' = [pending EXCEPT ![w] = NULL]
      BY <2>1 DEF FinishCreate, FinishRefresh, FinishTombstone
    <3> QED BY <1>1, <3>1, NoMaker
  <2>2. CASE Apply(w)
    <3> DEFINE q == [p EXCEPT !.added = NULL, !.superseded = NULL]
    <3>1. pending' = [pending EXCEPT ![w] = q] /\ ~ p.created
      BY <2>2 DEF Apply
    <3>2. ~ q.created
      BY <1>1, <3>1 DEF Pending
    <3> HIDE DEF p, q
    <3> QED BY <1>1, <3>1, <3>2, NoMaker
  <2> QED BY <2>1, <2>2
<1>4. \A c \in Channel' :
         \/ c \in Channel
         \/ c.cmd \notin {"insert_session", "reap"}
         \/ /\ c.cmd = "insert_session" /\ Making(w, c.sid)
            /\ c.absolute_exp = MadeEnd(pending[w])
  <2>1. CASE FinishCreate(w)
    <3> DEFINE e == NewEntry(p.token, p.at)
               b == [cmd |-> "insert_session", sid |-> p.sid,
                     current_gen |-> e.current_gen, idle_exp |-> e.idle_exp,
                     absolute_exp |-> e.absolute_exp]
               c == [cmd |-> "insert_generation", sid |-> p.sid, gen |-> p.added]
    <3>1. Persist(<<b, c>>) /\ p.created
      BY <2>1 DEF FinishCreate
    <3>2. /\ b.cmd = "insert_session" /\ b.sid = p.sid
          /\ b.absolute_exp = e.absolute_exp /\ c.cmd = "insert_generation"
      OBVIOUS
    <3>3. e.absolute_exp = MadeEnd(p)
      BY DEF NewEntry, MadeEnd
    <3> HIDE DEF b, c, e
    <3>4. Channel' \subseteq Channel \cup {b, c}
      BY <1>1, <3>1, PersistTwo
    <3> QED BY <1>1, <3>1, <3>2, <3>3, <3>4 DEF Making
  <2>2. CASE FinishRefresh(w)
    <3> DEFINE c == [cmd |-> "update_session_progress", sid |-> p.sid,
                     current_gen |-> p.progress.current_gen,
                     idle_exp |-> p.progress.idle_exp]
    <3>1. Persist(<<c>>)
      BY <2>2 DEF FinishRefresh
    <3>2. c.cmd = "update_session_progress"
      OBVIOUS
    <3> HIDE DEF c
    <3>3. Channel' \subseteq Channel \cup {c}
      BY <1>1, <3>1, PersistOne
    <3> QED BY <3>2, <3>3
  <2>3. CASE FinishTombstone(w)
    <3> DEFINE c == [cmd |-> "tombstone_session", sid |-> p.sid, at |-> p.at]
    <3>1. Persist(<<c>>)
      BY <2>3 DEF FinishTombstone
    <3>2. c.cmd = "tombstone_session"
      OBVIOUS
    <3> HIDE DEF c
    <3>3. Channel' \subseteq Channel \cup {c}
      BY <1>1, <3>1, PersistOne
    <3> QED BY <3>2, <3>3
  <2>4. CASE Apply(w)
    <3> DEFINE b == [cmd |-> "insert_generation", sid |-> p.sid, gen |-> p.added]
               c == [cmd |-> "supersede_generation", tok |-> p.superseded,
                     at |-> p.at]
    <3>1. Persist(<<b, c>>)
      BY <2>4 DEF Apply
    <3>2. b.cmd = "insert_generation" /\ c.cmd = "supersede_generation"
      OBVIOUS
    <3> HIDE DEF b, c
    <3>3. Channel' \subseteq Channel \cup {b, c}
      BY <1>1, <3>1, PersistTwo
    <3> QED BY <3>2, <3>3
  <2> QED BY <2>1, <2>2, <2>3, <2>4
<1> HIDE DEF p
<1> QED BY <1>1, <1>2, <1>3, <1>4 DEF DatesMove

\* Forgetting a token dates nothing.
LEMMA PurgeDates ==
  ASSUME DeadInv, NEW a \in Actors, Purge(a)
  PROVE  DatesMove
<1> DEFINE p == pending[a]
<1>1. /\ p \in Pending /\ p # NULL
      /\ queue \in Seq(StoreCommand)
      /\ pending \in [Actors -> Option(Pending)]
  BY DEF DeadInv, StoreTyped, MapTyped, Purge, Option
<1>2. \A x \in Sids : Live(x)' =>
         Live(x) /\ sessions'[x].absolute_exp = sessions[x].absolute_exp
  BY DEF Purge, Live
<1>3. PICK r \in p.purged :
         /\ Persist(<<[cmd |-> "delete_generation", tok |-> r.tok]>>)
         /\ pending' = [pending EXCEPT ![a] = [p EXCEPT !.purged = @ \ {r}]]
  BY DEF Purge
<1> DEFINE q == [p EXCEPT !.purged = @ \ {r}]
           c == [cmd |-> "delete_generation", tok |-> r.tok]
<1>4. /\ q.sid = p.sid /\ q.created = p.created /\ q.at = p.at
      /\ c.cmd = "delete_generation"
  BY <1>1 DEF Pending
<1>5. pending' = [pending EXCEPT ![a] = q] /\ Persist(<<c>>)
  BY <1>3
<1> HIDE DEF q, c
<1>6. \A x \in Actors : \A s \in Sids : Making(x, s)' =>
         Making(x, s) /\ pending'[x].at = pending[x].at
  BY <1>1, <1>4, <1>5 DEF Making
<1>7. Channel' \subseteq Channel \cup {c}
  BY <1>1, <1>5, PersistOne
<1> QED BY <1>2, <1>4, <1>6, <1>7 DEF DatesMove

\* A kill leaves the dates.
LEMMA TombstoneDates ==
  ASSUME DeadInv, NEW w \in Workers, NEW s \in Sids, Tombstone(w, s)
  PROVE  DatesMove
<1> DEFINE e == [sessions[s] EXCEPT !.status = "tombstoned", !.tombstoned_at = now,
                                    !.current_token = NULL]
           p == [NothingPending(s, now) EXCEPT !.tombstone = TRUE]
<1>1. /\ sessions' = [sessions EXCEPT ![s] = e]
      /\ pending' = [pending EXCEPT ![w] = p]
      /\ queue' = queue
      /\ Live(s)
      /\ w \in Actors
  BY DEF Tombstone, Actors
<1>2. /\ sessions[s] \in SessionEntry
      /\ sessions \in [Sids -> Option(SessionEntry)]
      /\ pending \in [Actors -> Option(Pending)]
  BY <1>1, EntryTyped DEF DeadInv, StoreTyped, MapTyped
<1>3. e.absolute_exp = sessions[s].absolute_exp /\ ~ p.created
  BY <1>2 DEF SessionEntry, NothingPending
<1> HIDE DEF e, p
<1>4. Channel' = Channel
  BY <1>1 DEF Channel
<1> QED BY <1>1, <1>2, <1>3, <1>4, SameEnd, NoMaker DEF DatesMove

\* A login dates the session it creates, and hands that date to its work.
LEMMA CreateDates ==
  ASSUME DeadInv, NEW w \in Workers, NEW s \in Sids, Create(w, s)
  PROVE  DatesMove
<1> DEFINE tok == minted + 1
           e == NewEntry(tok, now)
           p == [NothingPending(s, now) EXCEPT
                    !.created = TRUE, !.added = NewGeneration(1, tok, now, 1),
                    !.token = tok]
<1>1. /\ sessions' = [sessions EXCEPT ![s] = e]
      /\ pending' = [pending EXCEPT ![w] = p]
      /\ queue' = queue
      /\ s \notin used
  BY DEF Create
<1>2. p.sid = s /\ MadeEnd(p) = e.absolute_exp
  BY DEF NothingPending, MadeEnd, NewEntry
<1>3. /\ sessions \in [Sids -> Option(SessionEntry)]
      /\ pending \in [Actors -> Option(Pending)]
  BY DEF DeadInv, StoreTyped, MapTyped
<1> HIDE DEF e, p
<1>4. \A x \in Sids : Live(x)' =>
         \/ x \notin used
         \/ Live(x) /\ sessions'[x].absolute_exp = sessions[x].absolute_exp
  BY <1>1, <1>3 DEF Live
<1>5. \A a \in Actors : \A x \in Sids : Making(a, x)' =>
         \/ Making(a, x) /\ pending'[a].at = pending[a].at
         \/ x \notin used /\ MadeEnd(pending'[a]) = sessions'[x].absolute_exp
  <2> SUFFICES ASSUME NEW a \in Actors, NEW x \in Sids, Making(a, x)'
               PROVE  \/ Making(a, x) /\ pending'[a].at = pending[a].at
                      \/ /\ x \notin used
                         /\ MadeEnd(pending'[a]) = sessions'[x].absolute_exp
    OBVIOUS
  <2>1. CASE a = w
    <3>1. pending'[a] = p /\ x = s /\ sessions'[s] = e
      BY <1>1, <1>2, <1>3, <2>1 DEF Making
    <3> QED BY <1>1, <1>2, <3>1
  <2>2. CASE a # w
    BY <1>1, <1>3, <2>2 DEF Making
  <2> QED BY <2>1, <2>2
<1>6. Channel' = Channel
  BY <1>1 DEF Channel
<1> QED BY <1>4, <1>5, <1>6 DEF DatesMove

\* The sweeper dates nothing.
LEMMA SweepDates ==
  ASSUME DeadInv, SweepNext
  PROVE  DatesMove
<1>0. /\ sessions \in [Sids -> Option(SessionEntry)]
      /\ pending \in [Actors -> Option(Pending)]
      /\ Sweeper \in Actors
  BY DEF DeadInv, StoreTyped, MapTyped, Actors
<1>1. CASE Purge(Sweeper)
  BY <1>0, <1>1, PurgeDates
<1>2. ASSUME NEW s \in Sids, SweepReap(s) PROVE DatesMove
  <2> DEFINE e == ReapGenerations(sessions[s], sweep.at)
             p == [NothingPending(s, sweep.at) EXCEPT
                     !.purged = Purged(sessions[s], sweep.at)]
  <2>1. /\ sessions' = [sessions EXCEPT ![s] = e]
        /\ pending' = [pending EXCEPT ![Sweeper] = p]
        /\ queue' = queue
        /\ Live(s)
    BY <1>2 DEF SweepReap, ReapGenerations
  <2>2. e.absolute_exp = sessions[s].absolute_exp
    <3>1. sessions[s] \in SessionEntry
      BY <2>1, EntryTyped DEF DeadInv, StoreTyped
    <3> QED BY <3>1 DEF ReapGenerations, SessionEntry
  <2>3. ~ p.created
    BY DEF NothingPending
  <2> HIDE DEF e, p
  <2>4. Channel' = Channel
    BY <2>1 DEF Channel
  <2> QED BY <1>0, <2>1, <2>2, <2>3, <2>4, SameEnd, NoMaker DEF DatesMove
<1>3. ASSUME queue' = queue,
             \A x \in Sids : sessions'[x] = sessions[x] \/ sessions'[x] = NULL,
             \A a \in Actors : pending'[a] = pending[a] \/ pending'[a] = NULL
      PROVE  DatesMove
  <2>1. Channel' = Channel
    BY <1>3 DEF Channel
  <2> QED BY <1>3, <2>1 DEF DatesMove, Live, Making
<1>4. CASE SweepStart \/ SweepEnd \/ SweepApplied
  BY <1>0, <1>3, <1>4 DEF SweepStart, SweepEnd, SweepApplied
<1>5. ASSUME NEW s \in Sids, SweepMark(s) \/ SweepRemove(s)
      PROVE  DatesMove
  BY <1>0, <1>3, <1>5 DEF SweepMark, SweepRemove
<1> QED BY <1>1, <1>2, <1>4, <1>5 DEF SweepNext

\* The reaper's rounds and what they enqueue count from the past.
LEMMA PastStep ==
  ASSUME StoreTyped, StoreTyped', ReapsPast, now <= now',
         sweep' # NULL => sweep'.at = now \/ (sweep # NULL /\ sweep'.at = sweep.at),
         reapDue' # NULL => \/ reapDue # NULL /\ reapDue' = reapDue
                            \/ sweep # NULL /\ reapDue' = sweep.at,
         \A c \in Channel' : c.cmd = "reap" =>
            c \in Channel \/ (reapDue # NULL /\ c.dead_before <= reapDue)
  PROVE  ReapsPast'
<1>1. /\ now \in Nat /\ now' \in Nat
      /\ sweep # NULL => sweep.at \in Nat
      /\ sweep' # NULL => sweep'.at \in Nat
      /\ reapDue # NULL => reapDue \in Nat
  BY DEF StoreTyped, MapTyped, RowsTyped, Option
<1>2. /\ sweep # NULL => sweep.at <= now'
      /\ reapDue # NULL => reapDue <= now'
  BY <1>1 DEF ReapsPast
<1>3. /\ sweep' # NULL => sweep'.at <= now'
      /\ reapDue' # NULL => reapDue' <= now'
  BY <1>1, <1>2
<1>4. \A c \in Channel' : c.cmd = "reap" => c.dead_before <= now'
  <2> SUFFICES ASSUME NEW c \in Channel', c.cmd = "reap" PROVE c.dead_before <= now'
    OBVIOUS
  <2>1. c.dead_before \in Int
    <3>1. c \in StoreCommand
      BY DEF Channel, StoreTyped, MapTyped
    <3> QED BY <3>1, CommandKinds
  <2>2. CASE c \in Channel
    BY <1>1, <2>1, <2>2 DEF ReapsPast
  <2>3. CASE reapDue # NULL /\ c.dead_before <= reapDue
    BY <1>1, <1>2, <2>1, <2>3
  <2> QED BY <2>2, <2>3
<1> QED BY <1>3, <1>4 DEF ReapsPast

\* The sweeper's part of it.
LEMMA SweepPast ==
  ASSUME DeadInv, SweepNext
  PROVE  /\ now' = now
         /\ sweep' # NULL => sweep'.at = now \/ (sweep # NULL /\ sweep'.at = sweep.at)
<1>1. sweep \in Option([at : Nat, visit : SUBSET Sids, doomed : SUBSET Sids])
  BY DEF DeadInv, StoreTyped, MapTyped
<1>2. CASE SweepStart
  BY <1>2 DEF SweepStart
<1>3. ASSUME NEW s \in Sids, SweepMark(s)
      PROVE  now' = now /\ sweep' # NULL => sweep # NULL /\ sweep'.at = sweep.at
  BY <1>1, <1>3 DEF SweepMark, Option
<1>4. ASSUME NEW s \in Sids, SweepReap(s) \/ SweepRemove(s)
      PROVE  now' = now /\ sweep' # NULL => sweep # NULL /\ sweep'.at = sweep.at
  BY <1>1, <1>4 DEF SweepReap, SweepRemove, Option
<1>5. CASE Purge(Sweeper) \/ SweepApplied
  BY <1>5 DEF Purge, SweepApplied
<1>6. CASE SweepEnd
  BY <1>6 DEF SweepEnd
<1> QED BY <1>2, <1>3, <1>4, <1>5, <1>6 DEF SweepNext, SweepMark, SweepReap, SweepRemove

\* The writer keeps the date of every session that lives, and where it drops
\* its row the session was ended or past that date.
LEMMA WriteBatchDates ==
  ASSUME DatesInv, WriteBatch
  PROVE  /\ EndsAgree'
         /\ \A s \in Sids : db.session[s] # NULL /\ db'.session[s] = NULL /\ Live(s) =>
               Ending(s) \/ sessions[s].absolute_exp < now
<1> DEFINE Doomed(s) == RowEnded(s) \/ QueuedEnd(s) \/ sessions[s].absolute_exp < now
           Fine(d) ==
             \A s \in Sids :
                /\ d.session[s] # NULL /\ d.session[s].status = "tombstoned" =>
                      RowEnded(s) \/ QueuedEnd(s)
                /\ d.session[s] # NULL /\ Live(s) =>
                      d.session[s].absolute_exp = sessions[s].absolute_exp
                /\ db.session[s] # NULL /\ d.session[s] = NULL /\ Live(s) => Doomed(s)
           Good == {d \in Db : IsFiniteSet(d.generation) /\ Fine(d)} \cup {NULL}
<1>1. PICK n \in 1..Len(queue) :
         /\ queue' = SubSeq(queue, n + 1, Len(queue))
         /\ \/ db' = db
            \/ db' = Batch(db, SubSeq(queue, 1, n)) /\ db' # NULL
  <2>1. PICK n \in 1..Len(queue), fault \in {FALSE, StoreFaults /\ ~ failed} :
          LET batch == SubSeq(queue, 1, n)
              d == IF fault THEN NULL ELSE Batch(db, batch)
          IN /\ queue' = SubSeq(queue, n + 1, Len(queue))
             /\ db' = IF d = NULL THEN db ELSE d
    BY DEF WriteBatch
  <2> QED BY <2>1
<1>2. /\ queue \in Seq(StoreCommand)
      /\ db \in Db /\ IsFiniteSet(db.generation)
      /\ now \in Nat
      /\ \A s \in Sids : Live(s) => sessions[s].absolute_exp \in Nat
  <2>1. \A s \in Sids : Live(s) => sessions[s] \in SessionEntry
    BY EntryTyped DEF DatesInv, DeadInv, StoreTyped
  <2> QED BY <2>1 DEF DatesInv, DeadInv, StoreTyped, MapTyped, RowsTyped, SessionEntry
<1> DEFINE cmds == SubSeq(queue, 1, n)
<1>3. /\ cmds \in Seq(StoreCommand)
      /\ Len(cmds) \in Nat
      /\ \A i \in 1..Len(cmds) : cmds[i] \in StoreCommand /\ cmds[i] \in Channel
      /\ Channel' \subseteq Channel
  <2>1. /\ cmds \in Seq(StoreCommand) /\ Len(cmds) = n
        /\ \A i \in 1..n : cmds[i] = queue[i]
        /\ Len(queue') = Len(queue) - n
        /\ \A i \in 1..(Len(queue) - n) : queue'[i] = queue[n + i]
    BY <1>1, <1>2, DrainedTyped
  <2>2. Len(queue) \in Nat /\ n \in 1..Len(queue)
    BY <1>2
  <2> HIDE DEF cmds
  <2>3. \A i \in 1..Len(cmds) : cmds[i] \in StoreCommand /\ cmds[i] \in Channel
    BY <2>1, <2>2, <1>2 DEF Channel
  <2>4. Channel' \subseteq Channel
    BY <2>1, <2>2 DEF Channel
  <2> QED BY <2>1, <2>2, <2>3, <2>4
<1> HIDE DEF cmds
<1>4. Fine(db)
  BY DEF DatesInv, EndsAgree, RowEnded
<1>5. ASSUME NEW d \in Good, NEW i \in 1..Len(cmds)
      PROVE  Stepped(d, cmds[i]) \in Good
  <2>1. CASE d = NULL
    BY <2>1 DEF Stepped
  <2>2. CASE d # NULL
    <3> DEFINE e == Applied(d, cmds[i])
               c == cmds[i]
    <3>1. d \in Db /\ IsFiniteSet(d.generation) /\ Fine(d)
      BY <2>2
    <3>2. c \in StoreCommand /\ c \in Channel
      BY <1>3
    <3>3. Stepped(d, cmds[i]) = e
      BY <2>2 DEF Stepped
    <3>4. CASE e = NULL
      BY <3>3, <3>4
    <3>5. CASE e # NULL
      <4>1. e \in Db /\ IsFiniteSet(e.generation)
        BY <3>1, <3>2, <3>5, AppliedType, FailsIsNull
      <4>2. \A s \in Sids : RowFollows(d, c, e, s) /\ RowDated(d, c, e, s)
        BY <3>1, <3>2, <3>5, AppliedRows, AppliedDates
      <4> HIDE DEF e, c
      <4>3. Fine(e)
        <5> SUFFICES ASSUME NEW s \in Sids
              PROVE  /\ e.session[s] # NULL /\ e.session[s].status = "tombstoned" =>
                          RowEnded(s) \/ QueuedEnd(s)
                     /\ e.session[s] # NULL /\ Live(s) =>
                          e.session[s].absolute_exp = sessions[s].absolute_exp
                     /\ db.session[s] # NULL /\ e.session[s] = NULL /\ Live(s) =>
                          Doomed(s)
          OBVIOUS
        <5>1. RowFollows(d, c, e, s) /\ RowDated(d, c, e, s)
          BY <4>2
        <5>2. e.session[s] # NULL /\ e.session[s].status = "tombstoned" =>
                 RowEnded(s) \/ QueuedEnd(s)
          BY <3>1, <3>2, <5>1 DEF RowFollows, QueuedEnd
        <5>3. ASSUME e.session[s] # NULL, Live(s)
              PROVE  e.session[s].absolute_exp = sessions[s].absolute_exp
          <6>1. CASE /\ d.session[s] # NULL
                     /\ e.session[s].absolute_exp = d.session[s].absolute_exp
            BY <3>1, <5>3, <6>1
          <6>2. CASE /\ c.cmd = "insert_session" /\ c.sid = s
                     /\ e.session[s].absolute_exp = c.absolute_exp
            BY <3>2, <5>3, <6>2 DEF DatesInv, EndsAgree
          <6> QED BY <5>1, <5>3, <6>1, <6>2 DEF RowDated
        <5>4. ASSUME db.session[s] # NULL, e.session[s] = NULL, Live(s)
              PROVE  Doomed(s)
          <6>1. CASE d.session[s] = NULL
            BY <3>1, <5>4, <6>1
          <6>2. CASE d.session[s] # NULL
            <7>1. /\ c.cmd = "reap"
                  /\ \/ d.session[s].status = "tombstoned"
                     \/ d.session[s].absolute_exp < c.dead_before
              BY <5>1, <5>4, <6>2 DEF RowDated
            <7>2. CASE d.session[s].status = "tombstoned"
              BY <3>1, <6>2, <7>2
            <7>3. CASE d.session[s].absolute_exp < c.dead_before
              <8>1. sessions[s].absolute_exp < c.dead_before
                BY <3>1, <5>4, <6>2, <7>3
              <8>2. c.dead_before <= now /\ c.dead_before \in Int
                BY <3>2, <7>1, CommandKinds DEF DatesInv, ReapsPast
              <8>3. sessions[s].absolute_exp < now
                BY <1>2, <5>4, <8>1, <8>2
              <8> QED BY <8>3
            <7> QED BY <7>1, <7>2, <7>3
          <6> QED BY <6>1, <6>2
        <5> QED BY <5>2, <5>3, <5>4
      <4> QED BY <3>3, <4>1, <4>3
    <3> QED BY <3>4, <3>5
  <2> QED BY <2>1, <2>2
<1>6. Batch(db, cmds) \in Good
  <2> DEFINE D == [i \in 0..Len(cmds) |-> Good]
  <2>1. db \in Good
    BY <1>2, <1>4
  <2> HIDE DEF Good
  <2>2. \A i \in 0..Len(cmds) : D[i] = Good
    OBVIOUS
  <2>3. 0 \in 0..Len(cmds) /\ Len(cmds) \in 0..Len(cmds)
    BY <1>3
  <2>4. \A i \in 1..Len(cmds) : i \in 0..Len(cmds) /\ i - 1 \in 0..Len(cmds)
    BY <1>3
  <2> HIDE DEF D
  <2>5. \A i \in 1..Len(cmds) : \A d \in D[i - 1] : Stepped(d, cmds[i]) \in D[i]
    BY <1>5, <2>2, <2>4
  <2>6. Batch(db, cmds) \in D[Len(cmds)]
    BY <1>3, <2>1, <2>2, <2>3, <2>5, BatchInduction
  <2> QED BY <2>2, <2>3, <2>6
<1>7. Fine(db')
  <2>1. CASE db' = db
    BY <1>4, <2>1
  <2>2. CASE db' = Batch(db, cmds) /\ db' # NULL
    BY <1>6, <2>2
  <2> QED BY <1>1, <2>1, <2>2 DEF cmds
<1>8. UNCHANGED <<sessions, pending>>
  BY DEF WriteBatch
<1>9. EndsAgree'
  <2>1. \A s \in Sids : Live(s)' = Live(s)
    BY <1>8 DEF Live
  <2>2. \A a \in Actors : \A s \in Sids : Making(a, s)' = Making(a, s)
    BY <1>8 DEF Making
  <2> QED BY <1>3, <1>7, <1>8, <2>1, <2>2 DEF DatesInv, EndsAgree
<1> QED BY <1>7, <1>9 DEF Ending

\* A command of the store's own dates nothing.
LEMMA EnqueuedDates ==
  ASSUME DeadInv, NEW c, queue' = Append(queue, c),
         c.cmd \notin {"insert_session", "reap"}, UNCHANGED <<sessions, pending>>
  PROVE  DatesMove
<1>1. Channel' \subseteq Channel \cup {c}
  BY AppendOne DEF DeadInv, StoreTyped, MapTyped
<1> QED BY <1>1 DEF DatesMove, Live, Making

LEMMA InitDates == StoreInit => DatesInv
<1> SUFFICES ASSUME StoreInit PROVE DatesInv
  OBVIOUS
<1>1. Channel = {}
  BY DEF StoreInit, Init, Channel
<1>2. EndsAgree
  BY DEF StoreInit, Init, EndsAgree, Live
<1>3. ReapsPast
  BY <1>1 DEF StoreInit, Init, ReapsPast
<1> QED BY <1>2, <1>3, InitDead DEF DatesInv

\* A step that leaves the reaper alone enqueues no Reap.
LEMMA DatesPast ==
  ASSUME DatesInv, StoreTyped', DatesMove, UNCHANGED <<now, sweep, reapDue>>
  PROVE  ReapsPast'
<1>1. \A c \in Channel' : c.cmd = "reap" => c \in Channel
  BY DEF DatesMove
<1>2. now <= now'
  BY DEF DatesInv, DeadInv, StoreTyped, MapTyped
<1> QED BY <1>1, <1>2, PastStep DEF DatesInv, DeadInv

LEMMA NextDates == DatesInv /\ [StoreNext]_allVars => DatesInv'
<1> SUFFICES ASSUME DatesInv, [StoreNext]_allVars PROVE DatesInv'
  OBVIOUS
<1>1. DeadInv /\ DeadInv' /\ StoreTyped' /\ EndsAgree /\ ReapsPast
  BY NextDead DEF DatesInv, DeadInv
<1>2. ASSUME db' = db, DatesMove, UNCHANGED <<now, sweep, reapDue>>
      PROVE  DatesInv'
  BY <1>1, <1>2, DatesStep, DatesPast DEF DatesInv
<1>3. ASSUME UNCHANGED <<sessions, pending, queue, db>> PROVE EndsAgree' /\ Channel' = Channel
  BY <1>1, <1>3 DEF EndsAgree, Live, Making, Channel
<1>4. CASE StoreTick
  <2>1. /\ now' = now + 1
        /\ UNCHANGED <<sessions, pending, queue, db, sweep, reapDue>>
    BY <1>4 DEF StoreTick, Tick, storeVars
  <2>2. now <= now'
    BY <1>1, <2>1 DEF StoreTyped, MapTyped, DeadInv
  <2>3. EndsAgree' /\ Channel' = Channel
    BY <1>3, <2>1
  <2> QED BY <1>1, <2>1, <2>2, <2>3, PastStep DEF DatesInv, DeadInv
<1>5. ASSUME NEW w \in Workers, Serve(w) PROVE DatesInv'
  <2>1. db' = db /\ reapDue' = reapDue /\ w \in Actors /\ HandlerNext(w)
    BY <1>5 DEF Serve, storeVars, Actors
  <2>2. UNCHANGED <<now, sweep>>
    BY <2>1 DEF HandlerNext, FinishCreate, BeginRefresh, RefreshDenied,
                RefreshCoalesced, RefreshRotated, Apply, Purge, FinishRefresh,
                FinishTombstone
  <2>3. ASSUME RefreshDenied(w) \/ \E tok \in Tokens : BeginRefresh(w, tok)
        PROVE  DatesMove
    <3>1. UNCHANGED <<sessions, queue, pending>>
      BY <2>3 DEF BeginRefresh, RefreshDenied
    <3> QED BY <3>1 DEF DatesMove, Live, Making, Channel
  <2>4. DatesMove
    BY <1>1, <2>1, <2>3, RefreshDates, FinishDates, PurgeDates DEF HandlerNext
  <2> QED BY <1>2, <2>1, <2>2, <2>4
<1>6. ASSUME NEW w \in Workers, NEW s \in Sids, Tombstone(w, s), UNCHANGED storeVars
      PROVE  DatesInv'
  <2>1. UNCHANGED <<now, sweep, reapDue, db>>
    BY <1>6 DEF Tombstone, storeVars
  <2> QED BY <1>1, <1>2, <1>6, <2>1, TombstoneDates
<1>7. ASSUME NEW w \in Workers, NEW tok \in Tokens, Logout(w, tok) PROVE DatesInv'
  <2>1. index[tok] \in Sids
    BY <1>1, <1>7 DEF Logout, DeadInv, StoreTyped, MapTyped, Option
  <2> QED BY <1>6, <1>7, <2>1 DEF Logout
<1>8. ASSUME NEW w \in Workers, NEW s \in Sids, RevokeSession(w, s) PROVE DatesInv'
  BY <1>6, <1>8 DEF RevokeSession
<1>9. ASSUME NEW s \in Sids, RevokeStored(s) PROVE DatesInv'
  <2> DEFINE c == [cmd |-> "tombstone_session", sid |-> s, at |-> now]
  <2>1. /\ queue' = Append(queue, c)
        /\ UNCHANGED <<sessions, pending, db, now, sweep, reapDue>>
    BY <1>9 DEF RevokeStored, storeVars
  <2>2. c.cmd \notin {"insert_session", "reap"}
    OBVIOUS
  <2> HIDE DEF c
  <2> QED BY <1>1, <1>2, <2>1, <2>2, EnqueuedDates
<1>10. ASSUME NEW w \in Workers, NEW s \in Sids, TakeCustody(w, s) PROVE DatesInv'
  <2> DEFINE c == [cmd |-> "insert_custody", sid |-> s]
  <2>1. /\ queue' = Append(queue, c)
        /\ UNCHANGED <<sessions, pending, db, now, sweep, reapDue>>
    BY <1>10 DEF TakeCustody
  <2>2. c.cmd \notin {"insert_session", "reap"}
    OBVIOUS
  <2> HIDE DEF c
  <2> QED BY <1>1, <1>2, <2>1, <2>2, EnqueuedDates
<1>11. ASSUME NEW w \in Workers, FinishLogin(w) PROVE DatesInv'
  <2>1. login[w].sid \in Sids
    BY <1>1, <1>11 DEF FinishLogin, DeadInv, StoreTyped, RowsTyped, Option
  <2>2. UNCHANGED <<db, now, sweep, reapDue>>
    BY <1>11 DEF FinishLogin, Create
  <2> QED BY <1>1, <1>2, <1>11, <2>1, <2>2, CreateDates DEF FinishLogin
<1>12. ASSUME UNCHANGED <<now, sessions, pending, queue, sweep, db, reapDue>>
       PROVE  DatesInv'
  <2>1. DatesMove
    BY <1>12 DEF DatesMove, Live, Making, Channel
  <2> QED BY <1>2, <1>12, <2>1
<1>13. ASSUME NEW w \in Workers, RefuseLogin(w) PROVE DatesInv'
  BY <1>12, <1>13 DEF RefuseLogin, vars
<1>14. CASE UNCHANGED allVars
  BY <1>12, <1>14 DEF allVars, vars, storeVars
<1>15. CASE Reaper
  <2>1. SweepNext /\ db' = db
    BY <1>15 DEF Reaper
  <2>2. DatesMove
    BY <1>1, <2>1, SweepDates
  <2>3. reapDue' # NULL => sweep # NULL /\ reapDue' = sweep.at
    BY <1>15 DEF Reaper
  <2>4. \A c \in Channel' : c.cmd = "reap" => c \in Channel
    BY <2>2 DEF DatesMove
  <2>5. /\ now <= now'
        /\ sweep' # NULL => sweep'.at = now \/ (sweep # NULL /\ sweep'.at = sweep.at)
    <3>1. now \in Nat
      BY <1>1 DEF DeadInv, StoreTyped, MapTyped
    <3>2. /\ now' = now
          /\ sweep' # NULL => sweep'.at = now \/ (sweep # NULL /\ sweep'.at = sweep.at)
      BY <1>1, <2>1, SweepPast
    <3> QED BY <3>1, <3>2
  <2> QED BY <1>1, <2>1, <2>2, <2>3, <2>4, <2>5, DatesStep, PastStep
          DEF DatesInv, DeadInv
<1>16. CASE EnqueueReap
  <2> DEFINE c == [cmd |-> "reap", dead_before |-> reapDue - ReapAfter]
  <2>1. /\ queue' = Append(queue, c)
        /\ reapDue # NULL /\ reapDue' = NULL
        /\ UNCHANGED <<sessions, pending, db, now, sweep>>
    BY <1>16 DEF EnqueueReap
  <2>2. c.cmd = "reap" /\ c.dead_before <= reapDue
    <3>1. reapDue \in Nat /\ ReapAfter \in Nat
      BY <1>1, <2>1, StoreAssumption DEF DeadInv, StoreTyped, RowsTyped, Option
    <3> QED BY <3>1
  <2> HIDE DEF c
  <2>3. Channel' \subseteq Channel \cup {c}
    BY <1>1, <2>1, AppendOne DEF DeadInv, StoreTyped, MapTyped
  <2>4. EndsAgree'
    BY <1>1, <2>1, <2>2, <2>3 DEF EndsAgree, Live, Making
  <2>5. now <= now'
    BY <1>1, <2>1 DEF DeadInv, StoreTyped, MapTyped
  <2>6. ReapsPast'
    BY <1>1, <2>1, <2>2, <2>3, <2>5, PastStep DEF DeadInv
  <2> QED BY <1>1, <2>4, <2>6 DEF DatesInv
<1>17. CASE Crash \/ Shutdown
  <2>1. /\ \A s \in Sids : sessions'[s] = NULL
        /\ queue' = <<>> /\ sweep' = NULL /\ reapDue' = NULL
    BY <1>17 DEF Crash, Shutdown, Stop, MemoryLost
  <2>2. Channel' = {}
    BY <2>1 DEF Channel
  <2> QED BY <1>1, <2>1, <2>2 DEF DatesInv, EndsAgree, ReapsPast, Live
<1>18. CASE Boot
  <2>1. /\ queue = <<>> /\ \A a \in Actors : pending[a] = NULL
        /\ UNCHANGED <<queue, pending, db, now, sweep, reapDue>>
    BY <1>1, <1>18 DEF Boot, DeadInv, DownOK
  <2>2. Channel' = Channel /\ Channel = {}
    BY <2>1 DEF Channel
  <2>3. ASSUME NEW s \in Sids, Live(s)'
        PROVE  sessions'[s].absolute_exp = db.session[s].absolute_exp
    <3>1. sessions'[s] = Rehydrated(s)
      BY <1>18, <2>3 DEF Boot, Live
    <3> QED BY <3>1 DEF Rehydrated
  <2>4. EndsAgree'
    BY <2>1, <2>2, <2>3 DEF EndsAgree, Making
  <2> QED BY <1>1, <2>1, <2>2, <2>4 DEF DatesInv, ReapsPast
<1>19. CASE WriteBatch
  <2>1. EndsAgree'
    BY <1>19, WriteBatchDates
  <2>2. UNCHANGED <<now, sweep, reapDue>>
    BY <1>19 DEF WriteBatch
  <2>3. Channel' \subseteq Channel
    <3>1. PICK n \in 1..Len(queue) : queue' = SubSeq(queue, n + 1, Len(queue))
      BY <1>19 DEF WriteBatch
    <3>2. /\ Len(queue) \in Nat
          /\ Len(queue') = Len(queue) - n
          /\ \A i \in 1..(Len(queue) - n) : queue'[i] = queue[n + i]
      BY <1>1, <3>1, DrainedTyped DEF DeadInv, StoreTyped, MapTyped
    <3> QED BY <3>1, <3>2 DEF Channel
  <2> QED BY <1>1, <2>1, <2>2, <2>3 DEF DatesInv, ReapsPast
<1> QED BY <1>4, <1>5, <1>7, <1>8, <1>9, <1>10, <1>11, <1>13, <1>14, <1>15, <1>16,
           <1>17, <1>18, <1>19 DEF StoreNext

LEMMA DatesInvariance == StoreSpec => []DatesInv
BY InitDates, NextDates, PTL DEF StoreSpec

\* What run_reaper says of its Reap: it deletes the rows of no session whose
\* cookie the running broker would still accept, whatever was queued beside it
\* and however old the moment it counts from.
THEOREM ReapingSparesTheLiving == StoreSpec => ReapSparesTheLiving
<1> DEFINE Spares ==
             \A s \in Sids : db.session[s] # NULL /\ db'.session[s] = NULL =>
                \A tok \in Tokens :
                   index[tok] = s => Resolve(tok) \notin {"active", "stale"}
<1>1. DatesInv /\ [StoreNext]_allVars => Spares
  <2> SUFFICES ASSUME DatesInv, [StoreNext]_allVars, NEW s \in Sids,
                      db.session[s] # NULL, db'.session[s] = NULL,
                      NEW tok \in Tokens, index[tok] = s, Live(s)
               PROVE  Classify(sessions[s], tok, now) \notin {"active", "stale"}
    BY DEF Resolve, ResolveAt, Live
  <2>1. db' # db
    OBVIOUS
  <2>2. WriteBatch
    <3>1. ~ (Reaper \/ EnqueueReap \/ Crash \/ Shutdown \/ Boot \/ StoreTick)
      BY <2>1 DEF Reaper, EnqueueReap, Crash, Shutdown, Stop, MemoryLost, Boot,
                  StoreTick, storeVars
    <3>2. ASSUME NEW w \in Workers
          PROVE  ~ (Serve(w) \/ FinishLogin(w) \/ RefuseLogin(w))
      BY <2>1 DEF Serve, FinishLogin, RefuseLogin, storeVars
    <3>3. ASSUME NEW w \in Workers, NEW x \in Sids
          PROVE  ~ (RevokeSession(w, x) \/ TakeCustody(w, x))
      BY <2>1 DEF RevokeSession, TakeCustody, storeVars
    <3>4. ASSUME NEW x \in Sids PROVE ~ RevokeStored(x)
      BY <2>1 DEF RevokeStored, storeVars
    <3>5. ASSUME NEW w \in Workers, NEW t \in Tokens PROVE ~ Logout(w, t)
      BY <2>1 DEF Logout, storeVars
    <3>6. ~ UNCHANGED allVars
      BY <2>1 DEF allVars, storeVars
    <3> QED BY <3>1, <3>2, <3>3, <3>4, <3>5, <3>6 DEF StoreNext
  <2>3. Ending(s) \/ sessions[s].absolute_exp < now
    BY <2>2, WriteBatchDates
  <2>4. sessions[s] \in SessionEntry /\ now \in Nat
    BY EntryTyped DEF DatesInv, DeadInv, StoreTyped, MapTyped
  <2>5. sessions[s].status = "tombstoned" \/ sessions[s].absolute_exp < now
    BY <2>3, <2>4 DEF DatesInv, DeadInv, EndingStays, Alive, SessionEntry, SessionStatus
  <2>6. SessionExpiry(sessions[s], now) # NULL
    BY <2>4, <2>5, Expiry DEF SessionEntry
  <2> QED BY <2>6 DEF Classify
<1> QED BY <1>1, DatesInvariance, PTL DEF StoreSpec, ReapSparesTheLiving

----------------------------------------------------------------------------
(***************************************************************************)
(* The foreign keys.  Where the store is durable, no fault strikes and the *)
(* reaper does not run, no batch fails: each command finds the row it      *)
(* refers to, committed or queued before it.                               *)
(***************************************************************************)
\* The session has its row, or the channel holds the command that makes it.
Stored(s) ==
  \/ db.session[s] # NULL
  \/ \E c \in Channel : c.cmd = "insert_session" /\ c.sid = s

\* Worker a has created a session whose row it has not yet enqueued.
Creator(a) == pending[a] # NULL /\ pending[a].created

NoReap == \A c \in Channel : c.cmd # "reap"

\* A session's custody was stored before the session was drawn.
CustodyFirst ==
  /\ used \subseteq db.custody
  /\ \A w \in Workers :
        login[w] # NULL /\ login[w].ack = "ok" => login[w].sid \in db.custody

\* A session's row comes before the rows of its generations.
RowsFirst ==
  \A i \in 1..Len(queue) : queue[i].cmd = "insert_generation" =>
    \/ db.session[queue[i].sid] # NULL
    \/ \E j \in 1..(i - 1) :
          queue[j].cmd = "insert_session" /\ queue[j].sid = queue[i].sid

Integrity == \A g \in db.generation : db.session[g.sid] # NULL

StoreHalf == ~ failed /\ NoReap /\ CustodyFirst /\ RowsFirst /\ Integrity

\* Tokens are handed out in minting order.
FreshOK ==
  /\ \A t \in held : t <= minted
  /\ \A w \in Workers : call[w] # NULL => call[w].tok <= minted
  /\ \A a \in Actors : pending[a] # NULL /\ pending[a].token # NULL =>
        pending[a].token <= minted
  /\ \A s \in Sids : Live(s) /\ sessions[s].current_token # NULL =>
        sessions[s].current_token <= minted

\* The token of a session that is being created is known to its creator only,
\* and nothing of the session is stored.
PrivateTo(a) ==
  /\ ~ pending[a].tombstone
  /\ ~ Stored(pending[a].sid)
  /\ pending[a].token \notin held
  /\ \A w \in Workers : call[w] # NULL => call[w].tok # pending[a].token
  /\ \A b \in Actors : b # a /\ pending[b] # NULL =>
        /\ pending[b].token # pending[a].token
        /\ pending[b].created => pending[b].sid # pending[a].sid
  /\ \A s \in Sids : Live(s) /\ sessions[s].current_token = pending[a].token =>
        s = pending[a].sid

CreatorsOK == \A a \in Actors : Creator(a) => PrivateTo(a)

\* What the index names is stored, or being created under that very token.
IndexOK ==
  \A t \in Tokens : index[t] # NULL =>
    \/ Stored(index[t])
    \/ \E a \in Actors : /\ Creator(a)
                         /\ pending[a].sid = index[t]
                         /\ pending[a].token = t

\* A refresh that has minted belongs to a session that is stored.
ApplyOK ==
  \A a \in Actors :
    pending[a] # NULL /\ pending[a].added # NULL /\ ~ pending[a].created =>
      Stored(pending[a].sid)

OneCall == \A w \in Workers : call[w] # NULL => pending[w] = NULL

MapHalf == FreshOK /\ CreatorsOK /\ IndexOK /\ ApplyOK /\ OneCall

FKInv == DeadInv /\ StoreHalf /\ MapHalf

----------------------------------------------------------------------------
\* A command that does not fail, and does not reap, keeps the foreign keys.
LEMMA AppliedIntegrity ==
  ASSUME NEW d \in Db, IsFiniteSet(d.generation), NEW c \in StoreCommand,
         ~ Fails(d, c), c.cmd # "reap",
         \A g \in d.generation : d.session[g.sid] # NULL
  PROVE  \A g \in Applied(d, c).generation : Applied(d, c).session[g.sid] # NULL
<1> DEFINE e == Applied(d, c)
<1>1. e \in Db /\ e # NULL
  BY AppliedType, RowsAssumption
<1>2. \A s \in Sids : d.session[s] # NULL => e.session[s] # NULL
  BY <1>1, AppliedRows DEF RowFollows
<1>3. d.generation \subseteq GenerationRow
  BY DEF Db
<1> SUFFICES ASSUME NEW g \in e.generation
             PROVE  g.sid \in Sids /\ d.session[g.sid] # NULL
  BY <1>2
<1>4. CASE c.cmd \in {"insert_custody", "insert_session"}
  <2>1. e.generation = d.generation
    <3>1. \/ e = [d EXCEPT !.custody = @ \cup {c.sid}]
          \/ \E row : e = [d EXCEPT !.session[c.sid] = row]
      BY <1>4 DEF Applied, Fails
    <3> QED BY <3>1 DEF Db
  <2> QED BY <1>3, <2>1 DEF GenerationRow
<1>5. CASE c.cmd \in {"update_session_progress", "tombstone_session"}
  <2>1. e.generation = d.generation
    <3>1. \/ e = d
          \/ \E row : e = [d EXCEPT !.session[c.sid] = row]
      BY <1>5 DEF Applied, UpdateSession
    <3> QED BY <3>1 DEF Db
  <2> QED BY <1>3, <2>1 DEF GenerationRow
<1>6. CASE c.cmd = "insert_generation"
  <2> DEFINE row == [tok |-> c.gen.tok, sid |-> c.sid, gen_no |-> c.gen.gen_no,
                     created_at |-> c.gen.created_at,
                     active_until |-> c.gen.active_until,
                     superseded_at |-> NULL]
  <2>1. e = [d EXCEPT !.generation = @ \cup {row}] /\ d.session[c.sid] # NULL
    BY <1>6, AppliedKinds DEF Fails
  <2>2. row.sid = c.sid /\ c.sid \in Sids
    BY <1>6, CommandKinds
  <2> HIDE DEF row, e
  <2>3. e.generation = d.generation \cup {row}
    BY <2>1 DEF Db
  <2> QED BY <1>3, <2>1, <2>2, <2>3 DEF GenerationRow
<1>7. CASE c.cmd = "supersede_generation"
  <2> DEFINE F(h) == IF h.tok = c.tok THEN [h EXCEPT !.superseded_at = c.at] ELSE h
             G == {F(h) : h \in d.generation}
  <2>1. e = [d EXCEPT !.generation = G]
    BY <1>7 DEF Applied
  <2>2. \A h \in d.generation : F(h).sid = h.sid
    BY <1>3 DEF GenerationRow
  <2>3. e.generation = G
    <3> HIDE DEF e, G
    <3> QED BY <2>1 DEF Db
  <2>4. PICK h \in d.generation : g = F(h)
    BY <2>3
  <2>5. g.sid = h.sid
    BY <2>2, <2>4
  <2> QED BY <1>3, <2>5 DEF GenerationRow
<1>8. CASE c.cmd = "delete_generation"
  <2> DEFINE G == {h \in d.generation : h.tok # c.tok}
  <2>1. e = [d EXCEPT !.generation = G]
    BY <1>8 DEF Applied
  <2>2. e.generation = G
    <3> HIDE DEF e, G
    <3> QED BY <2>1 DEF Db
  <2> QED BY <1>3, <2>2 DEF GenerationRow
<1> QED BY <1>4, <1>5, <1>6, <1>7, <1>8, CommandKinds

\* The rows after the first n commands of a batch: everything that was there
\* still is, and everything those commands insert is.
Reaches(d, cmds, n) ==
  /\ IsFiniteSet(d.generation)
  /\ \A s \in Sids : db.session[s] # NULL => d.session[s] # NULL
  /\ db.custody \subseteq d.custody
  /\ \A j \in 1..n :
        /\ cmds[j].cmd = "insert_session" => d.session[cmds[j].sid] # NULL
        /\ cmds[j].cmd = "insert_custody" => cmds[j].sid \in d.custody
  /\ \A s \in Sids : d.session[s] # NULL => Stored(s)
  /\ \A g \in d.generation : d.session[g.sid] # NULL

\* One more command of the batch does not fail.
LEMMA ReachesNext ==
  ASSUME FKInv, NEW n \in 1..Len(queue), NEW cmds \in Seq(StoreCommand),
         Len(cmds) = n, \A i \in 1..n : cmds[i] = queue[i],
         NEW i \in 1..n, NEW d \in Db, Reaches(d, cmds, i - 1)
  PROVE  Stepped(d, cmds[i]) \in Db /\ Reaches(Stepped(d, cmds[i]), cmds, i)
<1> DEFINE c == cmds[i]
           e == Applied(d, c)
<1>1. queue \in Seq(StoreCommand)
  BY DEF FKInv, DeadInv, StoreTyped, MapTyped
<1>2. /\ c \in StoreCommand /\ c \in Channel /\ c = queue[i] /\ i \in 1..Len(queue)
      /\ i \in Nat
  BY <1>1 DEF Channel
<1> HIDE DEF c
<1>3. c.cmd # "reap"
  BY <1>2 DEF FKInv, StoreHalf, NoReap
<1>4. ~ Fails(d, c)
  <2>1. c.cmd = "insert_session" => c.sid \in d.custody
    BY <1>2 DEF FKInv, DeadInv, TracesOK, StoreHalf, CustodyFirst, Reaches
  <2>2. ASSUME c.cmd = "insert_generation" PROVE d.session[c.sid] # NULL
    <3>1. c.sid \in Sids
      BY <1>2, <2>2, CommandKinds
    <3>2. CASE db.session[c.sid] # NULL
      BY <3>1, <3>2 DEF Reaches
    <3>3. ASSUME NEW j \in 1..(i - 1), queue[j].cmd = "insert_session",
                 queue[j].sid = c.sid
          PROVE  d.session[c.sid] # NULL
      <4>1. cmds[j] = queue[j]
        BY <1>2
      <4> QED BY <3>3, <4>1 DEF Reaches
    <3> QED BY <1>2, <2>2, <3>2, <3>3 DEF FKInv, StoreHalf, RowsFirst
  <2> QED BY <2>1, <2>2 DEF Fails
<1>5. IsFiniteSet(d.generation)
  BY DEF Reaches
<1>6. e \in Db /\ IsFiniteSet(e.generation) /\ e # NULL
  BY <1>2, <1>4, <1>5, AppliedType, RowsAssumption
<1>7. \A s \in Sids : RowFollows(d, c, e, s)
  BY <1>2, <1>6, AppliedRows
<1>8. \A g \in e.generation : e.session[g.sid] # NULL
  BY <1>2, <1>3, <1>4, <1>5, AppliedIntegrity DEF Reaches
<1>9. Stepped(d, c) = e
  BY RowsAssumption DEF Stepped
<1> HIDE DEF e
<1>10. \A s \in Sids : /\ d.session[s] # NULL => e.session[s] # NULL
                       /\ s \in d.custody => s \in e.custody
  BY <1>3, <1>7 DEF RowFollows
<1>11. ASSUME NEW j \in 1..i
       PROVE  /\ cmds[j].cmd = "insert_session" => e.session[cmds[j].sid] # NULL
              /\ cmds[j].cmd = "insert_custody" => cmds[j].sid \in e.custody
  <2>1. cmds[j] \in StoreCommand
    BY <1>1
  <2>2. cmds[j].cmd \in {"insert_session", "insert_custody"} => cmds[j].sid \in Sids
    BY <2>1, CommandKinds
  <2>3. CASE j = i
    BY <1>7, <2>2, <2>3 DEF RowFollows, c
  <2>4. CASE j # i
    <3>1. j \in 1..(i - 1)
      BY <1>2, <2>4
    <3> QED BY <1>10, <2>2, <3>1 DEF Reaches
  <2> QED BY <2>3, <2>4
<1>12. \A s \in Sids : e.session[s] # NULL => Stored(s)
  BY <1>2, <1>7 DEF RowFollows, Reaches, Stored
<1>13. db.custody \subseteq e.custody
  BY <1>10 DEF Reaches, FKInv, DeadInv, StoreTyped, RowsTyped, Db
<1>14. \A s \in Sids : db.session[s] # NULL => e.session[s] # NULL
  BY <1>10 DEF Reaches
<1>15. Reaches(e, cmds, i)
  BY <1>6, <1>8, <1>11, <1>12, <1>13, <1>14 DEF Reaches
<1> QED BY <1>6, <1>9, <1>15 DEF c

\* No batch of the channel fails.
LEMMA BatchReaches ==
  ASSUME FKInv, NEW n \in 1..Len(queue), NEW cmds \in Seq(StoreCommand),
         Len(cmds) = n, \A i \in 1..n : cmds[i] = queue[i]
  PROVE  Batch(db, cmds) \in Db /\ Reaches(Batch(db, cmds), cmds, n)
<1> DEFINE D == [i \in 0..n |-> {d \in Db : Reaches(d, cmds, i)}]
<1>1. n \in Nat /\ Len(queue) \in Nat
  BY DEF FKInv, DeadInv, StoreTyped, MapTyped
<1>2. db \in D[0]
  <2>1. db \in Db /\ IsFiniteSet(db.generation)
    BY DEF FKInv, DeadInv, StoreTyped, RowsTyped
  <2>2. Reaches(db, cmds, 0)
    BY <2>1 DEF Reaches, Stored, FKInv, StoreHalf, Integrity
  <2> QED BY <1>1, <2>1, <2>2
<1>3. ASSUME NEW i \in 1..n, NEW d \in D[i - 1]
      PROVE  Stepped(d, cmds[i]) \in D[i]
  <2>1. i - 1 \in 0..n /\ i \in 0..n
    BY <1>1
  <2>2. d \in Db /\ Reaches(d, cmds, i - 1)
    BY <2>1
  <2>3. Stepped(d, cmds[i]) \in Db /\ Reaches(Stepped(d, cmds[i]), cmds, i)
    BY <2>2, ReachesNext
  <2> QED BY <2>1, <2>3
<1>4. n \in 0..n /\ D[n] = {d \in Db : Reaches(d, cmds, n)}
  BY <1>1
<1> HIDE DEF D
<1>5. Batch(db, cmds) \in D[n]
  BY <1>1, <1>2, <1>3, BatchInduction
<1> QED BY <1>4, <1>5

\* What the map half of the invariant speaks of.
LEMMA MapHalfStays ==
  ASSUME MapHalf, UNCHANGED <<sessions, index, call, pending, minted, held>>,
         \A s : Stored(s)' <=> Stored(s)
  PROVE  MapHalf'
<1>1. FreshOK' /\ OneCall'
  BY DEF MapHalf, FreshOK, OneCall, Live
<1>2. IndexOK' /\ ApplyOK'
  BY DEF MapHalf, IndexOK, ApplyOK, Creator
<1>3. CreatorsOK'
  BY DEF MapHalf, CreatorsOK, PrivateTo, Creator, Live
<1> QED BY <1>1, <1>2, <1>3 DEF MapHalf

\* The writer commits what it drains.
LEMMA WriteBatchFK ==
  ASSUME ~ StoreFaults, FKInv, WriteBatch
  PROVE  StoreHalf' /\ MapHalf'
<1>1. PICK n \in 1..Len(queue), fault \in {FALSE, StoreFaults /\ ~ failed} :
      LET batch == SubSeq(queue, 1, n)
          d == IF fault THEN NULL ELSE Batch(db, batch)
      IN /\ queue' = SubSeq(queue, n + 1, Len(queue))
         /\ db' = IF d = NULL THEN db ELSE d
         /\ failed' = (failed \/ d = NULL)
         /\ login' = [w \in Workers |->
               IF /\ login[w] # NULL
                  /\ \E i \in 1..n : /\ batch[i].cmd = "insert_custody"
                                     /\ batch[i].sid = login[w].sid
               THEN [login[w] EXCEPT !.ack = IF d = NULL THEN "err" ELSE "ok"]
               ELSE login[w]]
  BY DEF WriteBatch
<1> DEFINE cmds == SubSeq(queue, 1, n)
           d == Batch(db, cmds)
<1>2. fault = FALSE
  OBVIOUS
<1>3. /\ queue \in Seq(StoreCommand)
      /\ login \in [Workers -> Option([sid : Sids, ack : {"waiting", "ok", "err"}])]
      /\ db \in Db
  BY DEF FKInv, DeadInv, StoreTyped, MapTyped, RowsTyped
<1>4. /\ cmds \in Seq(StoreCommand)
      /\ Len(cmds) = n
      /\ \A i \in 1..n : cmds[i] = queue[i]
      /\ Len(queue') = Len(queue) - n
      /\ \A i \in 1..(Len(queue) - n) : queue'[i] = queue[n + i]
      /\ Len(queue) \in Nat /\ n \in Nat /\ n <= Len(queue) /\ n >= 1
  BY <1>1, <1>3, DrainedTyped
<1>5. d \in Db /\ Reaches(d, cmds, n) /\ d # NULL
  <2> HIDE DEF cmds
  <2> QED BY <1>4, BatchReaches, RowsAssumption
<1>6. /\ db' = d
      /\ ~ failed'
      /\ login' = [w \in Workers |->
               IF /\ login[w] # NULL
                  /\ \E i \in 1..n : /\ cmds[i].cmd = "insert_custody"
                                     /\ cmds[i].sid = login[w].sid
               THEN [login[w] EXCEPT !.ack = "ok"]
               ELSE login[w]]
  <2>1. (IF fault THEN NULL ELSE Batch(db, cmds)) = d
    BY <1>2
  <2>2. db' = d
    BY <1>1, <1>5, <2>1
  <2>3. ~ failed'
    <3>1. failed' = (failed \/ d = NULL)
      BY <1>1, <2>1
    <3>2. ~ failed
      BY DEF FKInv, StoreHalf
    <3> HIDE DEF d
    <3> QED BY <1>5, <3>1, <3>2, Zenon
  <2>4. login' = [w \in Workers |->
               IF /\ login[w] # NULL
                  /\ \E i \in 1..n : /\ cmds[i].cmd = "insert_custody"
                                     /\ cmds[i].sid = login[w].sid
               THEN [login[w] EXCEPT !.ack = IF d = NULL THEN "err" ELSE "ok"]
               ELSE login[w]]
    BY <1>1, <2>1
  <2> HIDE DEF d, cmds
  <2>5. (IF d = NULL THEN "err" ELSE "ok") = "ok"
    BY <1>5
  <2> QED BY <2>2, <2>3, <2>4, <2>5
<1>7. UNCHANGED <<sessions, index, call, pending, minted, used, held>>
  BY DEF WriteBatch
<1> HIDE DEF cmds, d
<1>8. Channel' \subseteq Channel
  BY <1>4 DEF Channel
<1>9. \A c \in Channel : c \in Channel' \/ \E j \in 1..n : c = cmds[j]
  <2> SUFFICES ASSUME NEW i \in 1..Len(queue)
               PROVE  queue[i] \in Channel' \/ \E j \in 1..n : queue[i] = cmds[j]
    BY DEF Channel
  <2>1. CASE i <= n
    BY <1>4, <2>1
  <2>2. CASE ~ (i <= n)
    <3>1. i - n \in 1..(Len(queue) - n) /\ n + (i - n) = i
      BY <1>4, <2>2
    <3>2. queue'[i - n] = queue[i]
      BY <1>4, <3>1
    <3> QED BY <1>4, <3>1, <3>2 DEF Channel
  <2> QED BY <2>1, <2>2
<1>10. \A c \in Channel : c.cmd = "insert_session" => c.sid \in Sids
  <2>1. \A c \in Channel : c \in StoreCommand
    BY <1>3 DEF Channel
  <2> QED BY <2>1, CommandKinds
<1>11. ASSUME NEW s \in Sids PROVE Stored(s)' <=> Stored(s)
  <2>1. Stored(s)' => Stored(s)
    <3>1. db'.session[s] # NULL => Stored(s)
      BY <1>5, <1>6 DEF Reaches
    <3> QED BY <1>8, <3>1 DEF Stored
  <2>2. db.session[s] # NULL => db'.session[s] # NULL
    BY <1>5, <1>6 DEF Reaches
  <2>3. ASSUME NEW c \in Channel, c.cmd = "insert_session", c.sid = s
        PROVE  Stored(s)'
    <3>1. CASE c \in Channel'
      BY <2>3, <3>1 DEF Stored
    <3>2. CASE \E j \in 1..n : c = cmds[j]
      <4>1. d.session[s] # NULL
        BY <1>5, <2>3, <3>2 DEF Reaches
      <4> QED BY <1>6, <4>1 DEF Stored
    <3> QED BY <1>9, <3>1, <3>2
  <2> QED BY <2>1, <2>2, <2>3 DEF Stored
<1>12. MapHalf'
  <2>1. /\ \A a \in Actors : pending[a] # NULL => pending[a].sid \in Sids
        /\ \A t \in Tokens : index[t] # NULL => index[t] \in Sids
    BY DEF FKInv, DeadInv, StoreTyped, MapTyped, Option, Pending
  <2>2. FreshOK' /\ OneCall'
    BY <1>7 DEF FKInv, MapHalf, FreshOK, OneCall, Live
  <2>3. IndexOK' /\ ApplyOK'
    BY <1>7, <1>11, <2>1 DEF FKInv, MapHalf, IndexOK, ApplyOK, Creator
  <2>4. CreatorsOK'
    BY <1>7, <1>11, <2>1 DEF FKInv, MapHalf, CreatorsOK, PrivateTo, Creator, Live
  <2> QED BY <2>2, <2>3, <2>4 DEF MapHalf
<1>13. CustodyFirst'
  <2>1. used' \subseteq db'.custody
    BY <1>5, <1>6, <1>7 DEF Reaches, FKInv, StoreHalf, CustodyFirst
  <2>2. ASSUME NEW w \in Workers, login'[w] # NULL, login'[w].ack = "ok"
        PROVE  login'[w].sid \in db'.custody
    <3>0. login[w] # NULL /\ login[w] \in [sid : Sids, ack : {"waiting", "ok", "err"}]
          => login'[w].sid = login[w].sid
      BY <1>6
    <3>1. login[w] # NULL
      BY <1>6, <2>2
    <3>2. login[w] \in [sid : Sids, ack : {"waiting", "ok", "err"}]
      BY <1>3, <3>1 DEF Option
    <3>3. CASE \E i \in 1..n : /\ cmds[i].cmd = "insert_custody"
                               /\ cmds[i].sid = login[w].sid
      BY <1>5, <1>6, <3>0, <3>1, <3>2, <3>3 DEF Reaches
    <3>4. CASE ~ \E i \in 1..n : /\ cmds[i].cmd = "insert_custody"
                                 /\ cmds[i].sid = login[w].sid
      <4>1. login'[w] = login[w]
        BY <1>6, <3>4
      <4> QED BY <1>5, <1>6, <2>2, <4>1
              DEF Reaches, FKInv, StoreHalf, CustodyFirst
    <3> QED BY <3>3, <3>4
  <2> QED BY <2>1, <2>2 DEF CustodyFirst
<1>14. RowsFirst'
  <2> SUFFICES ASSUME NEW i \in 1..Len(queue'),
                      queue'[i].cmd = "insert_generation"
               PROVE  \/ db'.session[queue'[i].sid] # NULL
                      \/ \E j \in 1..(i - 1) :
                            /\ queue'[j].cmd = "insert_session"
                            /\ queue'[j].sid = queue'[i].sid
    BY DEF RowsFirst
  <2>1. queue'[i] = queue[n + i] /\ n + i \in 1..Len(queue)
    BY <1>4
  <2>2. queue[n + i].sid \in Sids
    <3>1. queue[n + i] \in StoreCommand
      BY <1>3, <2>1
    <3> QED BY <2>1, <3>1, CommandKinds
  <2>3. CASE db.session[queue[n + i].sid] # NULL
    BY <1>5, <1>6, <2>1, <2>2, <2>3 DEF Reaches
  <2>4. ASSUME NEW j \in 1..(n + i - 1), queue[j].cmd = "insert_session",
               queue[j].sid = queue[n + i].sid
        PROVE  \/ db'.session[queue'[i].sid] # NULL
               \/ \E k \in 1..(i - 1) :
                     /\ queue'[k].cmd = "insert_session"
                     /\ queue'[k].sid = queue'[i].sid
    <3>1. CASE j <= n
      <4>1. j \in 1..n /\ cmds[j] = queue[j]
        BY <1>4, <3>1
      <4> QED BY <1>5, <1>6, <2>1, <2>4, <4>1 DEF Reaches
    <3>2. CASE ~ (j <= n)
      <4>1. j - n \in 1..(i - 1) /\ j - n \in 1..(Len(queue) - n) /\ n + (j - n) = j
        BY <1>4, <3>2
      <4>2. queue'[j - n] = queue[j]
        BY <1>4, <4>1
      <4> QED BY <2>1, <2>4, <4>1, <4>2
    <3> QED BY <3>1, <3>2
  <2>5. \/ db.session[queue[n + i].sid] # NULL
        \/ \E j \in 1..(n + i - 1) :
              queue[j].cmd = "insert_session" /\ queue[j].sid = queue[n + i].sid
    <3>1. queue[n + i].cmd = "insert_generation"
      BY <2>1
    <3>2. PICK k \in 1..Len(queue) : k = n + i
      BY <2>1
    <3>3. \/ db.session[queue[k].sid] # NULL
          \/ \E j \in 1..(k - 1) :
                queue[j].cmd = "insert_session" /\ queue[j].sid = queue[k].sid
      BY <3>1, <3>2 DEF FKInv, StoreHalf, RowsFirst
    <3> QED BY <3>2, <3>3
  <2> QED BY <2>3, <2>4, <2>5
<1>15. StoreHalf'
  <2>1. NoReap'
    BY <1>8 DEF NoReap, FKInv, StoreHalf
  <2>2. Integrity'
    BY <1>5, <1>6 DEF Integrity, Reaches
  <2> QED BY <1>6, <1>13, <1>14, <2>1, <2>2 DEF StoreHalf, FKInv
<1> QED BY <1>12, <1>15

\* One more command in the channel.
LEMMA OneMore ==
  ASSUME FKInv, NEW c, queue' = queue \o <<c>> \/ queue' = Append(queue, c),
         UNCHANGED <<db, failed>>, CustodyFirst',
         c.cmd # "reap", c.cmd = "insert_generation" => Stored(c.sid)
  PROVE  /\ StoreHalf'
         /\ \A s : Stored(s)' <=>
               Stored(s) \/ (c.cmd = "insert_session" /\ c.sid = s)
<1> DEFINE n == Len(queue)
<1>1. /\ queue \in Seq(StoreCommand) /\ n \in Nat
      /\ Len(queue') = n + 1
      /\ \A i \in 1..n : queue'[i] = queue[i]
      /\ queue'[n + 1] = c
  BY DEF FKInv, DeadInv, StoreTyped, MapTyped
<1>2. Channel' = Channel \cup {c}
  BY <1>1 DEF Channel
<1>3. ASSUME NEW i \in 1..Len(queue'), queue'[i].cmd = "insert_generation"
      PROVE  \/ db'.session[queue'[i].sid] # NULL
             \/ \E j \in 1..(i - 1) :
                   queue'[j].cmd = "insert_session" /\ queue'[j].sid = queue'[i].sid
  <2>1. CASE i \in 1..n
    <3>1. \/ db.session[queue[i].sid] # NULL
          \/ \E j \in 1..(i - 1) :
                queue[j].cmd = "insert_session" /\ queue[j].sid = queue[i].sid
      BY <1>1, <1>3, <2>1 DEF FKInv, StoreHalf, RowsFirst
    <3> QED BY <1>1, <2>1, <3>1, SMTT(30)
  <2>2. CASE i = n + 1
    <3>1. \/ db.session[c.sid] # NULL
          \/ \E j \in 1..n : queue[j].cmd = "insert_session" /\ queue[j].sid = c.sid
      BY <1>1, <1>3, <2>2 DEF Stored, Channel
    <3> QED BY <1>1, <2>2, <3>1
  <2> QED BY <1>1, <2>1, <2>2
<1>4. RowsFirst'
  BY <1>3 DEF RowsFirst
<1>5. NoReap' /\ Integrity' /\ ~ failed'
  BY <1>2 DEF FKInv, StoreHalf, NoReap, Integrity
<1>6. \A s : Stored(s)' <=>
               Stored(s) \/ (c.cmd = "insert_session" /\ c.sid = s)
  BY <1>2 DEF Stored
<1> QED BY <1>4, <1>5, <1>6 DEF StoreHalf

\* Two more commands in the channel.
LEMMA TwoMore ==
  ASSUME FKInv, NEW b, NEW c, queue' = queue \o <<b, c>>,
         UNCHANGED <<db, failed>>, CustodyFirst',
         b.cmd # "reap", b.cmd = "insert_generation" => Stored(b.sid),
         c.cmd # "reap",
         c.cmd = "insert_generation" =>
            Stored(c.sid) \/ (b.cmd = "insert_session" /\ b.sid = c.sid)
  PROVE  /\ StoreHalf'
         /\ \A s : Stored(s)' <=>
               \/ Stored(s)
               \/ b.cmd = "insert_session" /\ b.sid = s
               \/ c.cmd = "insert_session" /\ c.sid = s
<1> DEFINE n == Len(queue)
<1>1. /\ queue \in Seq(StoreCommand) /\ n \in Nat
      /\ Len(queue') = n + 2
      /\ \A i \in 1..n : queue'[i] = queue[i]
      /\ queue'[n + 1] = b
      /\ queue'[n + 2] = c
  BY DEF FKInv, DeadInv, StoreTyped, MapTyped
<1>2. Channel' = Channel \cup {b, c}
  <2>1. \A i \in 1..(n + 2) : i \in 1..n \/ i = n + 1 \/ i = n + 2
    BY <1>1
  <2>2. \A x \in Channel' : x \in Channel \cup {b, c}
    BY <1>1, <2>1 DEF Channel
  <2>3. \A x \in Channel : x \in Channel'
    BY <1>1 DEF Channel
  <2>4. n + 1 \in 1..Len(queue') /\ n + 2 \in 1..Len(queue')
    BY <1>1
  <2>5. b \in Channel' /\ c \in Channel'
    BY <1>1, <2>4 DEF Channel
  <2> QED BY <2>2, <2>3, <2>5
<1>3. ASSUME NEW i \in 1..Len(queue'), queue'[i].cmd = "insert_generation"
      PROVE  \/ db'.session[queue'[i].sid] # NULL
             \/ \E j \in 1..(i - 1) :
                   queue'[j].cmd = "insert_session" /\ queue'[j].sid = queue'[i].sid
  <2>1. CASE i \in 1..n
    <3>1. \/ db.session[queue[i].sid] # NULL
          \/ \E j \in 1..(i - 1) :
                queue[j].cmd = "insert_session" /\ queue[j].sid = queue[i].sid
      BY <1>1, <1>3, <2>1 DEF FKInv, StoreHalf, RowsFirst
    <3> QED BY <1>1, <2>1, <3>1
  <2>2. CASE i = n + 1
    <3>1. \/ db.session[b.sid] # NULL
          \/ \E j \in 1..n : queue[j].cmd = "insert_session" /\ queue[j].sid = b.sid
      BY <1>1, <1>3, <2>2 DEF Stored, Channel
    <3> QED BY <1>1, <2>2, <3>1
  <2>3. CASE i = n + 2 /\ Stored(c.sid)
    <3>1. \/ db.session[c.sid] # NULL
          \/ \E j \in 1..n : queue[j].cmd = "insert_session" /\ queue[j].sid = c.sid
      BY <2>3 DEF Stored, Channel
    <3> QED BY <1>1, <2>3, <3>1
  <2>4. CASE i = n + 2 /\ b.cmd = "insert_session" /\ b.sid = c.sid
    <3>1. n + 1 \in 1..(i - 1)
      BY <1>1, <2>4
    <3> QED BY <1>1, <2>4, <3>1
  <2>5. i \in 1..n \/ i = n + 1 \/ i = n + 2
    BY <1>1
  <2> QED BY <1>1, <1>3, <2>1, <2>2, <2>3, <2>4, <2>5
<1>4. RowsFirst'
  BY <1>3 DEF RowsFirst
<1>5. NoReap' /\ Integrity' /\ ~ failed'
  BY <1>2 DEF FKInv, StoreHalf, NoReap, Integrity
<1>6. \A s : Stored(s)' <=>
               \/ Stored(s)
               \/ b.cmd = "insert_session" /\ b.sid = s
               \/ c.cmd = "insert_session" /\ c.sid = s
  BY <1>2 DEF Stored
<1> QED BY <1>4, <1>5, <1>6 DEF StoreHalf

\* Nothing new in the channel.
LEMMA NoMore ==
  ASSUME FKInv, UNCHANGED <<queue, db, failed>>, CustodyFirst'
  PROVE  StoreHalf' /\ \A s : Stored(s)' <=> Stored(s)
<1>1. Channel' = Channel
  BY DEF Channel
<1>2. NoReap' /\ Integrity' /\ ~ failed' /\ RowsFirst'
  BY <1>1 DEF FKInv, StoreHalf, NoReap, Integrity, RowsFirst
<1>3. \A s : Stored(s)' <=> Stored(s)
  BY <1>1 DEF Stored
<1> QED BY <1>2, <1>3 DEF StoreHalf

\* What a call in flight may refresh is stored: nobody but its creator knows
\* the token of a session that is not.
LEMMA RefreshStored ==
  ASSUME FKInv, NEW w \in Workers, call[w] # NULL,
         ResolveAt(call[w].tok, call[w].at) \in {"active", "stale"}
  PROVE  Stored(index[call[w].tok])
<1> DEFINE tok == call[w].tok
<1>1. tok \in Tokens /\ index[tok] \in Sids /\ index[tok] # NULL
  BY RefreshTyped, MapAssumption DEF FKInv, DeadInv, StoreTyped
<1>2. ASSUME NEW a \in Actors, Creator(a), pending[a].token = tok PROVE FALSE
  BY <1>2 DEF FKInv, MapHalf, CreatorsOK, PrivateTo
<1> QED BY <1>1, <1>2 DEF FKInv, MapHalf, IndexOK

\* A refresh hands out a token that no session being created has, and mints
\* only for a session that is stored.
LEMMA RefreshFK ==
  ASSUME FKInv, StoreTyped', NEW w \in Workers,
         RefreshCoalesced(w) \/ RefreshRotated(w), UNCHANGED storeVars
  PROVE  StoreHalf' /\ MapHalf'
<1> DEFINE s == index[call[w].tok]
           at == call[w].at
<1>1. /\ s \in Sids /\ Live(s) /\ call[w] # NULL /\ Stored(s)
      /\ w \in Actors /\ pending[w] = NULL
  BY RefreshTyped, RefreshStored
     DEF RefreshCoalesced, RefreshRotated, FKInv, DeadInv, StoreTyped, MapHalf,
         OneCall, Actors
<1>2. /\ sessions \in [Sids -> Option(SessionEntry)]
      /\ call \in [Workers -> Option([tok : Tokens, at : Nat])]
      /\ pending \in [Actors -> Option(Pending)]
      /\ minted \in Nat /\ held \in SUBSET Tokens
      /\ sessions[s] \in SessionEntry
      /\ at \in Nat
  <2>1. minted \in Nat
    BY MapAssumption DEF FKInv, DeadInv, StoreTyped, MapTyped
  <2>2. sessions[s] \in SessionEntry
    BY <1>1, EntryTyped DEF FKInv, DeadInv, StoreTyped
  <2>3. at \in Nat
    BY <1>1 DEF FKInv, DeadInv, StoreTyped, MapTyped, Option
  <2> QED BY <2>1, <2>2, <2>3 DEF FKInv, DeadInv, StoreTyped, MapTyped
<1>3. \E e, p : /\ sessions' = [sessions EXCEPT ![s] = e]
                /\ pending' = [pending EXCEPT ![w] = p]
                /\ p.sid = s /\ p.tombstone = FALSE /\ p.created = FALSE
                /\ e.current_token = p.token
                /\ \/ p.token = sessions[s].current_token /\ minted' = minted
                   \/ p.token = minted + 1 /\ minted' = minted + 1
  <2>1. CASE RefreshCoalesced(w)
    <3> DEFINE e == Slide(sessions[s], at)
               p == [NothingPending(s, at) EXCEPT !.progress = Progress(e),
                                                  !.token = e.current_token]
    <3>1. /\ sessions' = [sessions EXCEPT ![s] = e]
          /\ pending' = [pending EXCEPT ![w] = p]
          /\ minted' = minted
      BY <2>1 DEF RefreshCoalesced
    <3>2. e.current_token = sessions[s].current_token
      BY <1>2 DEF Slide, SessionEntry
    <3>3. /\ p.sid = s /\ p.tombstone = FALSE /\ p.created = FALSE
          /\ p.token = e.current_token
      BY DEF NothingPending
    <3> HIDE DEF s, e, p
    <3> QED BY <3>1, <3>2, <3>3
  <2>2. CASE RefreshRotated(w)
    <3> DEFINE rotated == Rotated(sessions[s], minted + 1, at)
               e == Slide(ReapGenerations(rotated, at), at)
               p == [NothingPending(s, at) EXCEPT
                       !.added = NewGeneration(e.current_gen, minted + 1, at,
                                               Current(sessions[s]).pos + 1),
                       !.superseded = Current(sessions[s]).tok,
                       !.purged = Purged(rotated, at),
                       !.progress = Progress(e), !.token = minted + 1]
    <3>1. /\ sessions' = [sessions EXCEPT ![s] = e]
          /\ pending' = [pending EXCEPT ![w] = p]
          /\ minted' = minted + 1
      BY <2>2 DEF RefreshRotated
    <3>2. e.current_token = minted + 1
      <4>1. sessions[s].gens # {} /\ IsFiniteSet(sessions[s].gens)
        BY <1>1, <2>2, RefreshTyped, EntryTyped
           DEF FKInv, DeadInv, StoreTyped, RefreshRotated
      <4> QED BY <1>2, <4>1, MintedEntry
    <3>3. /\ p.sid = s /\ p.tombstone = FALSE /\ p.created = FALSE
          /\ p.token = minted + 1
      BY DEF NothingPending
    <3> HIDE DEF s, e, p
    <3> QED BY <3>1, <3>2, <3>3
  <2> QED BY <2>1, <2>2
<1>4. PICK e, p : /\ sessions' = [sessions EXCEPT ![s] = e]
                  /\ pending' = [pending EXCEPT ![w] = p]
                  /\ p.sid = s /\ p.tombstone = FALSE /\ p.created = FALSE
                  /\ e.current_token = p.token
                  /\ \/ p.token = sessions[s].current_token /\ minted' = minted
                     \/ p.token = minted + 1 /\ minted' = minted + 1
  BY <1>3
<1>5. /\ call' = [call EXCEPT ![w] = NULL]
      /\ UNCHANGED <<index, queue, used, held, db, failed, login>>
  BY DEF RefreshCoalesced, RefreshRotated, storeVars
<1>6. CustodyFirst'
  BY <1>5 DEF FKInv, StoreHalf, CustodyFirst
<1>7. StoreHalf' /\ \A x : Stored(x)' <=> Stored(x)
  BY <1>5, <1>6, NoMore
<1> HIDE DEF s, at
<1>8. \A a \in Actors : a # w => pending'[a] = pending[a]
  BY <1>2, <1>4
<1>9. /\ pending'[w] = p
      /\ p # NULL => p.token = NULL \/ p.token \in Nat
      /\ \A x \in Sids : x # s => sessions'[x] = sessions[x]
      /\ sessions'[s] = e
  BY <1>1, <1>2, <1>4 DEF SessionEntry, Option
<1>10. \A a \in Actors : Creator(a)' => a # w /\ Creator(a)
  BY <1>4, <1>8, <1>9 DEF Creator
<1>11. ASSUME NEW a \in Actors, Creator(a) PROVE pending[a].token \in Nat
  <2>1. pending[a] \in Pending /\ pending[a].token # NULL
    BY <1>2, <1>11 DEF Creator, FKInv, DeadInv, StoreTyped, MapTyped, PendingOK, Option
  <2> QED BY <2>1 DEF Pending, Option, Tokens
<1>12. ASSUME NEW a \in Actors, Creator(a) PROVE p.token # pending[a].token
  <2>1. PrivateTo(a)
    BY <1>12 DEF FKInv, MapHalf, CreatorsOK
  <2>2. CASE p.token = sessions[s].current_token
    BY <1>1, <2>1, <2>2 DEF PrivateTo
  <2>3. CASE p.token = minted + 1
    <3>1. pending[a].token <= minted
      BY <1>11, <1>12, NullAssumption DEF FKInv, MapHalf, FreshOK, Creator
    <3> QED BY <1>2, <1>11, <1>12, <2>3, <3>1
  <2> QED BY <1>4, <2>2, <2>3
<1>13. FreshOK'
  <2>1. p.token # NULL => p.token <= minted'
    BY <1>1, <1>2, <1>4 DEF FKInv, MapHalf, FreshOK
  <2>2. minted <= minted' /\ minted' \in Nat
    BY <1>2, <1>4
  <2>3. \A t \in held' : t <= minted'
    BY <1>2, <1>5, <2>2 DEF FKInv, MapHalf, FreshOK, Tokens
  <2>4. ASSUME NEW v \in Workers, call'[v] # NULL PROVE call'[v].tok <= minted'
    <3>1. call'[v] = call[v] /\ call[v].tok \in Nat
      BY <1>2, <1>5, <2>4 DEF Tokens, Option
    <3> QED BY <1>2, <2>2, <2>4, <3>1 DEF FKInv, MapHalf, FreshOK
  <2>5. ASSUME NEW a \in Actors, pending'[a] # NULL, pending'[a].token # NULL
        PROVE  pending'[a].token <= minted'
    <3>1. CASE a = w
      BY <1>9, <2>1, <2>5, <3>1
    <3>2. CASE a # w
      <4>1. pending[a].token \in Nat
        BY <1>2, <1>8, <2>5, <3>2 DEF Pending, Option, Tokens
      <4> QED BY <1>2, <1>8, <2>2, <2>5, <3>2, <4>1 DEF FKInv, MapHalf, FreshOK
    <3> QED BY <3>1, <3>2
  <2>6. ASSUME NEW x \in Sids, Live(x)', sessions'[x].current_token # NULL
        PROVE  sessions'[x].current_token <= minted'
    <3>1. CASE x = s
      BY <1>4, <1>9, <2>1, <2>6, <3>1
    <3>2. CASE x # s
      <4>1. sessions[x].current_token \in Nat /\ Live(x)
        BY <1>2, <1>9, <2>6, <3>2 DEF SessionEntry, Option, Live
      <4> QED BY <1>2, <1>9, <2>2, <2>6, <3>2, <4>1 DEF FKInv, MapHalf, FreshOK
    <3> QED BY <3>1, <3>2
  <2> QED BY <2>3, <2>4, <2>5, <2>6 DEF FreshOK
<1>14. OneCall'
  BY <1>2, <1>5, <1>8, Zenon DEF FKInv, MapHalf, OneCall, Actors
<1>15. ASSUME NEW a \in Actors, Creator(a)' PROVE PrivateTo(a)'
  <2>1. PrivateTo(a) /\ a # w /\ Creator(a) /\ pending'[a] = pending[a]
    BY <1>8, <1>10, <1>15 DEF FKInv, MapHalf, CreatorsOK
  <2>2. p.token # pending[a].token
    BY <1>12, <2>1
  <2>3. \A v \in Workers : call'[v] # NULL => call'[v].tok # pending[a].token
    BY <1>2, <1>5, <2>1 DEF PrivateTo
  <2>4. \A b \in Actors : b # a /\ pending'[b] # NULL =>
          /\ pending'[b].token # pending[a].token
          /\ pending'[b].created => pending'[b].sid # pending[a].sid
    BY <1>4, <1>8, <1>9, <2>1, <2>2 DEF PrivateTo
  <2>5. \A x \in Sids : Live(x)' /\ sessions'[x].current_token = pending[a].token =>
           x = pending[a].sid
    BY <1>1, <1>4, <1>9, <2>1, <2>2 DEF PrivateTo, Live
  <2> QED BY <1>5, <1>7, <2>1, <2>3, <2>4, <2>5 DEF PrivateTo
<1>16. IndexOK'
  <2>1. \A a \in Actors : Creator(a) => Creator(a)' /\ pending'[a] = pending[a]
    BY <1>1, <1>8 DEF Creator
  <2> QED BY <1>5, <1>7, <2>1 DEF FKInv, MapHalf, IndexOK
<1>17. ApplyOK'
  BY <1>1, <1>4, <1>7, <1>8, <1>9 DEF FKInv, MapHalf, ApplyOK
<1> QED BY <1>7, <1>13, <1>14, <1>15, <1>16, <1>17 DEF MapHalf, CreatorsOK

\* Actor a goes on with what it does after the lock, or is done with it.
LEMMA WorkFK ==
  ASSUME FKInv, NEW a \in Actors, pending[a] # NULL,
         NEW q, pending' = [pending EXCEPT ![a] = q],
         q # NULL => /\ q.created = pending[a].created
                     /\ q.token = pending[a].token
                     /\ q.tombstone = pending[a].tombstone
                     /\ q.sid = pending[a].sid
                     /\ q.added # NULL => pending[a].added # NULL,
         UNCHANGED <<sessions, call, minted>>,
         \A t \in held' : \/ t \in held
                          \/ q = NULL /\ t # NULL /\ t = pending[a].token,
         \A x : Stored(x)' <=>
            Stored(x) \/ (q = NULL /\ Creator(a) /\ x = pending[a].sid),
         \A t \in Tokens : index'[t] # NULL =>
            index'[t] = index[t] \/ Stored(index'[t])
  PROVE  MapHalf'
<1>1. pending \in [Actors -> Option(Pending)]
  BY DEF FKInv, DeadInv, StoreTyped, MapTyped
<1>2. /\ pending'[a] = q
      /\ \A b \in Actors : b # a => pending'[b] = pending[b]
  BY <1>1
<1>3. \A b \in Actors : pending'[b] # NULL =>
         /\ pending[b] # NULL
         /\ pending'[b].created = pending[b].created
         /\ pending'[b].token = pending[b].token
         /\ pending'[b].tombstone = pending[b].tombstone
         /\ pending'[b].sid = pending[b].sid
         /\ pending'[b].added # NULL => pending[b].added # NULL
  BY <1>2
<1>4. FreshOK'
  BY <1>3 DEF FKInv, MapHalf, FreshOK, Live
<1>5. OneCall'
  BY <1>3 DEF FKInv, MapHalf, OneCall, Actors
<1>6. ASSUME NEW b \in Actors, Creator(b)' PROVE PrivateTo(b)'
  <2>1. Creator(b) /\ PrivateTo(b)
    BY <1>3, <1>6 DEF Creator, FKInv, MapHalf, CreatorsOK
  <2>2. /\ pending'[b].created = pending[b].created
        /\ pending'[b].token = pending[b].token
        /\ pending'[b].tombstone = pending[b].tombstone
        /\ pending'[b].sid = pending[b].sid
    BY <1>3, <1>6 DEF Creator
  <2>3. ~ Stored(pending[b].sid)'
    <3>1. ASSUME q = NULL, Creator(a), pending[a].sid = pending[b].sid PROVE FALSE
      <4>1. a # b
        BY <1>2, <1>6, <3>1 DEF Creator
      <4>2. pending[a] # NULL /\ pending[a].created
        BY <3>1 DEF Creator
      <4> QED BY <2>1, <3>1, <4>1, <4>2 DEF PrivateTo
    <3> QED BY <2>1, <3>1 DEF PrivateTo
  <2>4. pending[b].token \notin held'
    <3>1. ASSUME q = NULL, pending[a].token = pending[b].token PROVE FALSE
      <4>1. a # b
        BY <1>2, <1>6, <3>1 DEF Creator
      <4> QED BY <2>1, <3>1, <4>1 DEF PrivateTo
    <3> QED BY <2>1, <3>1 DEF PrivateTo
  <2>5. \A v \in Workers : call'[v] # NULL => call'[v].tok # pending[b].token
    BY <2>1 DEF PrivateTo
  <2>6. \A c \in Actors : c # b /\ pending'[c] # NULL =>
          /\ pending'[c].token # pending[b].token
          /\ pending'[c].created => pending'[c].sid # pending[b].sid
    BY <1>3, <2>1 DEF PrivateTo
  <2>7. \A x \in Sids : Live(x)' /\ sessions'[x].current_token = pending[b].token =>
           x = pending[b].sid
    BY <2>1 DEF PrivateTo, Live
  <2> QED BY <2>1, <2>2, <2>3, <2>4, <2>5, <2>6, <2>7 DEF PrivateTo
<1>7. ASSUME NEW t \in Tokens, NEW i, i = index'[t], i # NULL
      PROVE  \/ Stored(i)'
             \/ \E b \in Actors : /\ Creator(b)'
                                  /\ pending'[b].sid = i
                                  /\ pending'[b].token = t
  <2>1. Stored(i) => Stored(i)'
    OBVIOUS
  <2>2. CASE Stored(i)
    BY <2>1, <2>2
  <2>3. CASE ~ Stored(i)
    <3>1. i = index[t] /\ index[t] # NULL
      BY <1>7, <2>3
    <3>2. PICK b \in Actors : Creator(b) /\ pending[b].sid = i /\ pending[b].token = t
      BY <2>3, <3>1 DEF FKInv, MapHalf, IndexOK
    <3>3. CASE pending'[b] = NULL
      <4>1. b = a /\ q = NULL
        BY <1>2, <3>2, <3>3 DEF Creator
      <4> QED BY <3>2, <4>1
    <3>4. CASE pending'[b] # NULL
      BY <1>3, <3>2, <3>4 DEF Creator
    <3> QED BY <3>3, <3>4
  <2> QED BY <2>2, <2>3
<1>8. IndexOK'
  <2> SUFFICES ASSUME NEW t \in Tokens, NEW i, i = index'[t], i # NULL
               PROVE  \/ Stored(i)'
                      \/ \E b \in Actors : /\ Creator(b)'
                                           /\ pending'[b].sid = i
                                           /\ pending'[b].token = t
    BY DEF IndexOK
  <2> QED BY <1>7
<1>9. ApplyOK'
  BY <1>3 DEF FKInv, MapHalf, ApplyOK
<1> QED BY <1>4, <1>5, <1>6, <1>8, <1>9 DEF MapHalf, CreatorsOK

\* What a request handler does after the lock keeps the foreign keys.
LEMMA FinishFK ==
  ASSUME Durable, FKInv, NEW w \in Workers, UNCHANGED storeVars,
         FinishCreate(w) \/ FinishRefresh(w) \/ FinishTombstone(w) \/ Apply(w)
  PROVE  StoreHalf' /\ MapHalf'
<1> DEFINE p == pending[w]
<1>1. /\ p \in Pending /\ p # NULL /\ w \in Actors
      /\ pending \in [Actors -> Option(Pending)]
  BY DEF FKInv, DeadInv, StoreTyped, MapTyped, FinishCreate, FinishRefresh,
         FinishTombstone, Apply, Option, Actors
<1>2. UNCHANGED <<sessions, call, minted, used, db, failed, login>>
  BY DEF FinishCreate, FinishRefresh, FinishTombstone, Apply, storeVars
<1>3. CustodyFirst'
  BY <1>2 DEF FKInv, StoreHalf, CustodyFirst
<1>4. /\ Creator(w) => p.added # NULL /\ p.token # NULL /\ ~ p.tombstone
      /\ p.progress # NULL => p.token # NULL
  <2>1. NULL \notin Generation
    BY NullAssumption
  <2> QED BY <1>1, <2>1 DEF Creator, FKInv, DeadInv, StoreTyped, MapTyped, PendingOK,
                          MapHalf, CreatorsOK, PrivateTo
<1>5. CASE FinishCreate(w)
  <2> DEFINE e == NewEntry(p.token, p.at)
             b == [cmd |-> "insert_session", sid |-> p.sid,
                   current_gen |-> e.current_gen, idle_exp |-> e.idle_exp,
                   absolute_exp |-> e.absolute_exp]
             c == [cmd |-> "insert_generation", sid |-> p.sid, gen |-> p.added]
  <2>1. /\ queue' = queue \o <<b, c>> /\ Creator(w)
        /\ held' = held \cup {p.token}
        /\ pending' = [pending EXCEPT ![w] = NULL]
        /\ index' = index
    BY <1>1, <1>5 DEF FinishCreate, Persist, Creator
  <2>2. /\ b.cmd = "insert_session" /\ b.sid = p.sid
        /\ c.cmd = "insert_generation" /\ c.sid = p.sid
    OBVIOUS
  <2> HIDE DEF b, c
  <2>3. /\ StoreHalf'
        /\ \A s : Stored(s)' <=>
               \/ Stored(s)
               \/ b.cmd = "insert_session" /\ b.sid = s
               \/ c.cmd = "insert_session" /\ c.sid = s
    BY <1>2, <1>3, <2>1, <2>2, TwoMore
  <2>4. \A x : Stored(x)' <=> Stored(x) \/ x = p.sid
    BY <2>2, <2>3
  <2>5. MapHalf'
    BY <1>1, <1>2, <1>4, <2>1, <2>4, WorkFK
  <2> QED BY <2>3, <2>5
<1>6. CASE FinishRefresh(w)
  <2> DEFINE c == [cmd |-> "update_session_progress", sid |-> p.sid,
                   current_gen |-> p.progress.current_gen,
                   idle_exp |-> p.progress.idle_exp]
  <2>1. /\ queue' = queue \o <<c>> /\ ~ Creator(w) /\ p.token # NULL
        /\ held' = held \cup {p.token}
        /\ pending' = [pending EXCEPT ![w] = NULL]
        /\ index' = index
    BY <1>1, <1>4, <1>6 DEF FinishRefresh, Persist
  <2>2. c.cmd = "update_session_progress"
    OBVIOUS
  <2> HIDE DEF c
  <2>3. StoreHalf' /\ \A s : Stored(s)' <=> Stored(s)
    BY <1>2, <1>3, <2>1, <2>2, OneMore
  <2>4. MapHalf'
    BY <1>1, <1>2, <2>1, <2>3, WorkFK
  <2> QED BY <2>3, <2>4
<1>7. CASE FinishTombstone(w)
  <2> DEFINE c == [cmd |-> "tombstone_session", sid |-> p.sid, at |-> p.at]
  <2>1. /\ queue' = queue \o <<c>> /\ ~ Creator(w)
        /\ pending' = [pending EXCEPT ![w] = NULL]
        /\ index' = index /\ held' = held
    BY <1>1, <1>4, <1>7 DEF FinishTombstone, Persist
  <2>2. c.cmd = "tombstone_session"
    OBVIOUS
  <2> HIDE DEF c
  <2>3. StoreHalf' /\ \A s : Stored(s)' <=> Stored(s)
    BY <1>2, <1>3, <2>1, <2>2, OneMore
  <2>4. MapHalf'
    BY <1>1, <1>2, <2>1, <2>3, WorkFK
  <2> QED BY <2>3, <2>4
<1>8. CASE Apply(w)
  <2> DEFINE b == [cmd |-> "insert_generation", sid |-> p.sid, gen |-> p.added]
             c == [cmd |-> "supersede_generation", tok |-> p.superseded,
                   at |-> p.at]
             q == [p EXCEPT !.added = NULL, !.superseded = NULL]
             t0 == p.added.tok
  <2>1. /\ queue' = queue \o <<b, c>> /\ ~ p.created /\ p.added # NULL
        /\ pending' = [pending EXCEPT ![w] = q]
        /\ index' = [index EXCEPT ![t0] = p.sid] /\ held' = held
    BY <1>1, <1>8 DEF Apply, Persist
  <2>2. /\ b.cmd = "insert_generation" /\ b.sid = p.sid
        /\ c.cmd = "supersede_generation"
    OBVIOUS
  <2>3. /\ q.created = p.created /\ q.token = p.token /\ q.tombstone = p.tombstone
        /\ q.sid = p.sid /\ q.added = NULL /\ q # NULL
    <3>1. q \in Pending
      BY <1>1 DEF Pending, Option
    <3> QED BY <1>1, <3>1, PendingAssumption DEF Pending
  <2>4. Stored(p.sid)
    BY <1>1, <2>1 DEF FKInv, MapHalf, ApplyOK
  <2> HIDE DEF b, c, q, t0
  <2>5. /\ StoreHalf'
        /\ \A s : Stored(s)' <=>
               \/ Stored(s)
               \/ b.cmd = "insert_session" /\ b.sid = s
               \/ c.cmd = "insert_session" /\ c.sid = s
    BY <1>2, <1>3, <2>1, <2>2, <2>4, TwoMore
  <2>6. \A x : Stored(x)' <=> Stored(x)
    BY <2>2, <2>5
  <2>7. \A t \in Tokens : index'[t] = index[t] \/ index'[t] = p.sid
    BY <2>1 DEF FKInv, DeadInv, StoreTyped, MapTyped
  <2>8. MapHalf'
    BY <1>1, <1>2, <2>1, <2>3, <2>4, <2>6, <2>7, WorkFK
  <2> QED BY <2>5, <2>8
<1> QED BY <1>5, <1>6, <1>7, <1>8

\* So does forgetting a token.
LEMMA PurgeFK ==
  ASSUME Durable, FKInv, NEW a \in Actors, UNCHANGED storeVars, Purge(a)
  PROVE  StoreHalf' /\ MapHalf'
<1> DEFINE p == pending[a]
<1>1. /\ p \in Pending /\ p # NULL
      /\ pending \in [Actors -> Option(Pending)]
  BY DEF FKInv, DeadInv, StoreTyped, MapTyped, Purge, Option
<1>2. UNCHANGED <<sessions, call, minted, used, held, db, failed, login>>
  BY DEF Purge, storeVars
<1>3. CustodyFirst'
  BY <1>2 DEF FKInv, StoreHalf, CustodyFirst
<1>4. PICK r \in p.purged :
         /\ index' = [index EXCEPT ![r.tok] = NULL]
         /\ Persist(<<[cmd |-> "delete_generation", tok |-> r.tok]>>)
         /\ pending' = [pending EXCEPT ![a] = [p EXCEPT !.purged = @ \ {r}]]
  BY DEF Purge
<1> DEFINE q == [p EXCEPT !.purged = @ \ {r}]
           c == [cmd |-> "delete_generation", tok |-> r.tok]
<1>5. /\ q.created = p.created /\ q.token = p.token /\ q.tombstone = p.tombstone
      /\ q.sid = p.sid /\ q.added = p.added /\ q # NULL
  <2>1. q \in Pending
    BY <1>1 DEF Pending
  <2> QED BY <1>1, <2>1, PendingAssumption DEF Pending
<1>6. pending' = [pending EXCEPT ![a] = q] /\ queue' = queue \o <<c>>
  BY <1>4 DEF Persist
<1>7. c.cmd = "delete_generation"
  OBVIOUS
<1>8. \A t \in Tokens : index'[t] = index[t] \/ index'[t] = NULL
  BY <1>4 DEF FKInv, DeadInv, StoreTyped, MapTyped
<1> HIDE DEF q, c
<1>9. StoreHalf' /\ \A s : Stored(s)' <=> Stored(s)
  BY <1>2, <1>3, <1>6, <1>7, OneMore
<1>10. MapHalf'
  BY <1>1, <1>2, <1>5, <1>6, <1>8, <1>9, WorkFK
<1> QED BY <1>9, <1>10

\* A kill: nothing is stored by it, and no token becomes known.
LEMMA TombstoneFK ==
  ASSUME FKInv, NEW w \in Workers, NEW s \in Sids, Tombstone(w, s),
         UNCHANGED storeVars
  PROVE  StoreHalf' /\ MapHalf'
<1> DEFINE e == [sessions[s] EXCEPT !.status = "tombstoned", !.tombstoned_at = now,
                                    !.current_token = NULL]
           p == [NothingPending(s, now) EXCEPT !.tombstone = TRUE]
<1>1. /\ sessions' = [sessions EXCEPT ![s] = e]
      /\ pending' = [pending EXCEPT ![w] = p]
      /\ pending[w] = NULL /\ call[w] = NULL /\ Live(s)
      /\ UNCHANGED <<index, queue, call, minted, used, held, db, failed, login>>
  BY DEF Tombstone, Idle, storeVars
<1>2. /\ sessions \in [Sids -> Option(SessionEntry)]
      /\ pending \in [Actors -> Option(Pending)] /\ w \in Actors
  BY DEF FKInv, DeadInv, StoreTyped, MapTyped, Actors
<1>3. e.current_token = NULL
  BY <1>1, <1>2 DEF Live, Option, SessionEntry
<1>4. /\ p.created = FALSE /\ p.added = NULL /\ p.token = NULL
  BY DEF NothingPending
<1> HIDE DEF e, p
<1>5. CustodyFirst'
  BY <1>1 DEF FKInv, StoreHalf, CustodyFirst
<1>6. StoreHalf' /\ \A x : Stored(x)' <=> Stored(x)
  BY <1>1, <1>5, NoMore
<1>7. /\ pending'[w] = p
      /\ \A a \in Actors : a # w => pending'[a] = pending[a]
      /\ \A x \in Sids : Live(x)' =>
            \/ Live(x) /\ sessions'[x].current_token = sessions[x].current_token
            \/ sessions'[x].current_token = NULL
  BY <1>1, <1>2, <1>3 DEF Live
<1>8. FreshOK'
  BY <1>1, <1>4, <1>7 DEF FKInv, MapHalf, FreshOK
<1>9. OneCall'
  <2> SUFFICES ASSUME NEW v \in Workers, call'[v] # NULL PROVE pending'[v] = NULL
    BY DEF OneCall
  <2> QED BY <1>1, <1>7 DEF FKInv, MapHalf, OneCall, Actors
<1>10. ASSUME NEW a \in Actors, Creator(a)' PROVE PrivateTo(a)'
  <2>1. a # w /\ Creator(a) /\ PrivateTo(a) /\ pending'[a] = pending[a]
    BY <1>4, <1>7, <1>10 DEF Creator, FKInv, MapHalf, CreatorsOK
  <2>2. pending[a].token # NULL
    BY <2>1 DEF Creator, FKInv, DeadInv, StoreTyped, MapTyped, PendingOK
  <2>3. \A v \in Workers : call'[v] # NULL => call'[v].tok # pending[a].token
    BY <1>1, <2>1 DEF PrivateTo
  <2>4. \A b \in Actors : b # a /\ pending'[b] # NULL =>
          /\ pending'[b].token # pending[a].token
          /\ pending'[b].created => pending'[b].sid # pending[a].sid
    BY <1>4, <1>7, <2>1, <2>2 DEF PrivateTo
  <2>5. \A x \in Sids : Live(x)' /\ sessions'[x].current_token = pending[a].token =>
           x = pending[a].sid
    BY <1>7, <2>1, <2>2 DEF PrivateTo
  <2> QED BY <1>1, <1>6, <2>1, <2>3, <2>4, <2>5 DEF PrivateTo
<1>11. \A a \in Actors : Creator(a) => Creator(a)' /\ pending'[a] = pending[a]
  BY <1>1, <1>7 DEF Creator
<1>12. IndexOK'
  BY <1>1, <1>6, <1>11 DEF FKInv, MapHalf, IndexOK
<1>13. ApplyOK'
  BY <1>4, <1>6, <1>7 DEF FKInv, MapHalf, ApplyOK
<1> QED BY <1>6, <1>8, <1>9, <1>10, <1>12, <1>13 DEF MapHalf, CreatorsOK

\* A login's session: its custody is stored, and its sid and its token are
\* known to nobody yet.
LEMMA CreateFK ==
  ASSUME FKInv, StoreTyped', NEW w \in Workers, FinishLogin(w)
  PROVE  StoreHalf' /\ MapHalf'
<1> DEFINE s == login[w].sid
           tok == minted + 1
           e == NewEntry(tok, now)
           p == [NothingPending(s, now) EXCEPT
                    !.created = TRUE, !.added = NewGeneration(1, tok, now, 1),
                    !.token = tok]
<1>1. /\ sessions' = [sessions EXCEPT ![s] = e]
      /\ index' = [index EXCEPT ![tok] = s]
      /\ pending' = [pending EXCEPT ![w] = p]
      /\ minted' = tok
      /\ used' = used \cup {s}
      /\ s \notin used
      /\ login' = [login EXCEPT ![w] = NULL]
      /\ login[w] # NULL /\ login[w].ack = "ok"
      /\ pending[w] = NULL /\ call[w] = NULL
      /\ UNCHANGED <<queue, call, held, db, failed>>
  BY DEF FinishLogin, Create, Idle
<1>2. /\ sessions \in [Sids -> Option(SessionEntry)]
      /\ index \in [Tokens -> Option(Sids)]
      /\ call \in [Workers -> Option([tok : Tokens, at : Nat])]
      /\ pending \in [Actors -> Option(Pending)] /\ w \in Actors
      /\ login \in [Workers -> Option([sid : Sids, ack : {"waiting", "ok", "err"}])]
      /\ minted \in Nat /\ held \in SUBSET Tokens
      /\ tok \in Nat
  <2>1. minted \in Nat /\ tok \in Nat
    BY MapAssumption DEF FKInv, DeadInv, StoreTyped, MapTyped
  <2> HIDE DEF tok
  <2> QED BY <2>1 DEF FKInv, DeadInv, StoreTyped, MapTyped, RowsTyped, Actors
<1>3. s \in Sids /\ s \in db.custody
  BY <1>1, <1>2 DEF Option, FKInv, StoreHalf, CustodyFirst
<1>4. /\ p.created /\ p.token = tok /\ p.sid = s /\ ~ p.tombstone /\ p # NULL
      /\ e.current_token = tok
  <2>1. /\ p.created /\ p.token = tok /\ p.sid = s /\ ~ p.tombstone
        /\ e.current_token = tok
    BY DEF NothingPending, NewEntry
  <2>2. NewGeneration(1, tok, now, 1) \in Generation /\ now \in Nat
    BY <1>2, NewEntryOK DEF FKInv, DeadInv, StoreTyped, MapTyped
  <2>3. tok \in Tokens
    BY <1>1, <1>2, MapAssumption DEF StoreTyped, MapTyped, Tokens
  <2>4. p \in Pending
    BY <1>3, <2>2, <2>3 DEF NothingPending, Pending, Option
  <2> HIDE DEF p, e
  <2> QED BY <2>1, <2>4, PendingAssumption
<1> HIDE DEF e, p, s, tok
<1>5. CustodyFirst'
  BY <1>1, <1>2, <1>3 DEF FKInv, StoreHalf, CustodyFirst
<1>6. StoreHalf' /\ \A x : Stored(x)' <=> Stored(x)
  BY <1>1, <1>5, NoMore
<1>7. ~ Stored(s)
  BY <1>1, <1>3 DEF Stored, FKInv, DeadInv, TracesOK
<1>8. /\ pending'[w] = p
      /\ \A a \in Actors : a # w => pending'[a] = pending[a]
      /\ \A x \in Sids : x # s => sessions'[x] = sessions[x]
      /\ sessions'[s] = e
  BY <1>1, <1>2, <1>3
<1>9. tok = minted + 1 /\ tok # NULL
  BY <1>2, NullAssumption DEF tok
\* Every token there is was minted before.
<1>10. \A t \in held : t # tok
  BY <1>2, <1>9 DEF FKInv, MapHalf, FreshOK, Tokens
<1>11. ASSUME NEW v \in Workers, call[v] # NULL
       PROVE  call[v].tok \in Nat /\ call[v].tok <= minted
  BY <1>2, <1>11 DEF FKInv, MapHalf, FreshOK, Tokens, Option
<1>12. ASSUME NEW a \in Actors, pending[a] # NULL, pending[a].token # NULL
       PROVE  pending[a].token \in Nat /\ pending[a].token <= minted
  BY <1>2, <1>12 DEF FKInv, MapHalf, FreshOK, Pending, Tokens, Option
<1>13. ASSUME NEW x \in Sids, Live(x), sessions[x].current_token # NULL
       PROVE  sessions[x].current_token \in Nat /\ sessions[x].current_token <= minted
  BY <1>2, <1>13 DEF FKInv, MapHalf, FreshOK, SessionEntry, Option, Live
<1>14. FreshOK'
  <2>1. \A t \in held' : t <= minted'
    BY <1>1, <1>2, <1>9 DEF FKInv, MapHalf, FreshOK, Tokens
  <2>2. \A v \in Workers : call'[v] # NULL => call'[v].tok <= minted'
    BY <1>1, <1>2, <1>9, <1>11
  <2>3. ASSUME NEW a \in Actors, pending'[a] # NULL, pending'[a].token # NULL
        PROVE  pending'[a].token <= minted'
    <3>1. CASE a = w
      BY <1>1, <1>2, <1>4, <1>8, <3>1
    <3>2. CASE a # w
      BY <1>1, <1>2, <1>8, <1>9, <1>12, <2>3, <3>2
    <3> QED BY <3>1, <3>2
  <2>4. ASSUME NEW x \in Sids, Live(x)', sessions'[x].current_token # NULL
        PROVE  sessions'[x].current_token <= minted'
    <3>1. CASE x = s
      BY <1>1, <1>2, <1>4, <1>8, <3>1
    <3>2. CASE x # s
      BY <1>1, <1>2, <1>8, <1>9, <1>13, <2>4, <3>2 DEF Live
    <3> QED BY <3>1, <3>2
  <2> QED BY <2>1, <2>2, <2>3, <2>4 DEF FreshOK
<1>15. OneCall'
  <2> SUFFICES ASSUME NEW v \in Workers, call'[v] # NULL PROVE pending'[v] = NULL
    BY DEF OneCall
  <2> QED BY <1>1, <1>8 DEF FKInv, MapHalf, OneCall, Actors
<1>16. PrivateTo(w)'
  <2>1. \A v \in Workers : call'[v] # NULL => call'[v].tok # tok
    BY <1>1, <1>2, <1>9, <1>11
  <2>2. ASSUME NEW b \in Actors, b # w, pending'[b] # NULL
        PROVE  pending'[b].token # tok /\ pending'[b].sid # s
    <3>1. pending'[b] = pending[b]
      BY <1>8, <2>2
    <3>2. pending[b].sid \in used
      BY <2>2, <3>1 DEF FKInv, DeadInv, TracesOK
    <3> QED BY <1>1, <1>2, <1>9, <1>12, <2>2, <3>1, <3>2
  <2>3. \A x \in Sids : Live(x)' /\ sessions'[x].current_token = tok => x = s
    BY <1>2, <1>8, <1>9, <1>13 DEF Live
  <2> QED BY <1>1, <1>4, <1>6, <1>7, <1>8, <1>10, <2>1, <2>2, <2>3 DEF PrivateTo
<1>17. ASSUME NEW a \in Actors, a # w, Creator(a)' PROVE PrivateTo(a)'
  <2>1. Creator(a) /\ PrivateTo(a) /\ pending'[a] = pending[a] /\ pending[a] # NULL
    BY <1>8, <1>17 DEF Creator, FKInv, MapHalf, CreatorsOK
  <2>2. pending[a].token # NULL
    BY <2>1 DEF Creator, FKInv, DeadInv, StoreTyped, MapTyped, PendingOK
  <2>3. pending[a].token # tok /\ pending[a].sid # s
    <3>1. pending[a].sid \in used
      BY <2>1 DEF FKInv, DeadInv, TracesOK
    <3> QED BY <1>1, <1>2, <1>9, <1>12, <2>1, <2>2, <3>1
  <2>4. \A v \in Workers : call'[v] # NULL => call'[v].tok # pending[a].token
    BY <1>1, <2>1 DEF PrivateTo
  <2>5. \A b \in Actors : b # a /\ pending'[b] # NULL =>
          /\ pending'[b].token # pending[a].token
          /\ pending'[b].created => pending'[b].sid # pending[a].sid
    BY <1>4, <1>8, <2>1, <2>3 DEF PrivateTo
  <2>6. \A x \in Sids : Live(x)' /\ sessions'[x].current_token = pending[a].token =>
           x = pending[a].sid
    BY <1>4, <1>8, <2>1, <2>3 DEF PrivateTo, Live
  <2> QED BY <1>1, <1>6, <2>1, <2>4, <2>5, <2>6 DEF PrivateTo
<1>18. \A a \in Actors : Creator(a) => Creator(a)' /\ pending'[a] = pending[a]
  BY <1>1, <1>8 DEF Creator
<1>19. IndexOK'
  <2> SUFFICES ASSUME NEW t \in Tokens, NEW i, i = index'[t], i # NULL
               PROVE  \/ Stored(i)'
                      \/ \E b \in Actors : /\ Creator(b)'
                                           /\ pending'[b].sid = i
                                           /\ pending'[b].token = t
    BY DEF IndexOK
  <2>1. CASE t = tok
    BY <1>1, <1>2, <1>4, <1>8, <2>1 DEF Creator
  <2>2. CASE t # tok
    <3>1. index[t] = i
      BY <1>1, <1>2, <2>2
    <3> QED BY <1>6, <1>18, <3>1 DEF FKInv, MapHalf, IndexOK
  <2> QED BY <2>1, <2>2
<1>20. ApplyOK'
  BY <1>4, <1>6, <1>8 DEF FKInv, MapHalf, ApplyOK
<1> QED BY <1>6, <1>14, <1>15, <1>16, <1>17, <1>19, <1>20 DEF MapHalf, CreatorsOK

\* A crash or a stop empties the memory.
LEMMA StopFK ==
  ASSUME FKInv, NEW clean, Stop(clean)
  PROVE  StoreHalf' /\ MapHalf'
<1>1. /\ \A s \in Sids : sessions'[s] = NULL
      /\ \A t \in Tokens : index'[t] = NULL
      /\ \A w \in Workers : call'[w] = NULL /\ login'[w] = NULL
      /\ \A a \in Actors : pending'[a] = NULL
      /\ queue' = <<>>
      /\ UNCHANGED <<minted, used, held, db, failed>>
  BY DEF Stop, MemoryLost
<1>2. Channel' = {} /\ Len(queue') = 0
  BY <1>1 DEF Channel
<1>3. StoreHalf'
  BY <1>1, <1>2 DEF FKInv, StoreHalf, NoReap, CustodyFirst, RowsFirst, Integrity
<1>4. MapHalf'
  BY <1>1 DEF FKInv, MapHalf, FreshOK, CreatorsOK, Creator, IndexOK, ApplyOK, OneCall,
              Live
<1> QED BY <1>3, <1>4

\* What a restart loads has its rows.
LEMMA BootFK ==
  ASSUME FKInv, Boot
  PROVE  StoreHalf' /\ MapHalf'
<1>1. /\ ~ up
      /\ \A s \in Sids : Live(s)' => sessions'[s].current_token = NULL
      /\ UNCHANGED <<queue, call, pending, minted, used, held, db, failed, login>>
  BY DEF Boot, Live, Rehydrated
<1>2. \A a \in Actors : pending'[a] = NULL
  BY <1>1 DEF FKInv, DeadInv, DownOK
<1>3. CustodyFirst'
  BY <1>1 DEF FKInv, StoreHalf, CustodyFirst
<1>4. StoreHalf' /\ \A s : Stored(s)' <=> Stored(s)
  BY <1>1, <1>3, NoMore
<1>5. ASSUME NEW t \in Tokens, NEW i, i = index'[t], i # NULL
      PROVE  Stored(i)
  <2>1. /\ \E g \in db.generation : g.tok = t /\ g.sid \in Rehydratable
        /\ i = (CHOOSE g \in db.generation : g.tok = t).sid
    BY <1>5 DEF Boot
  <2>2. PICK g \in db.generation : i = g.sid
    BY <2>1
  <2> QED BY <2>2 DEF FKInv, StoreHalf, Integrity, Stored
<1>6. IndexOK'
  <2> SUFFICES ASSUME NEW t \in Tokens, NEW i, i = index'[t], i # NULL
               PROVE  Stored(i)'
    BY DEF IndexOK
  <2> QED BY <1>4, <1>5
<1>7. FreshOK' /\ CreatorsOK' /\ ApplyOK' /\ OneCall'
  BY <1>1, <1>2 DEF FKInv, MapHalf, FreshOK, CreatorsOK, Creator, ApplyOK, OneCall,
                    Actors
<1> QED BY <1>4, <1>6, <1>7 DEF MapHalf

LEMMA InitFK == StoreInit => FKInv
<1> SUFFICES ASSUME StoreInit PROVE FKInv
  OBVIOUS
<1>1. Channel = {} /\ Len(queue) = 0
  BY DEF StoreInit, Init, Channel
<1>2. StoreHalf
  BY <1>1 DEF StoreInit, Init, EmptyDb, StoreHalf, NoReap, CustodyFirst, RowsFirst,
              Integrity
<1>3. MapHalf
  BY DEF StoreInit, Init, MapHalf, FreshOK, CreatorsOK, Creator, IndexOK, ApplyOK,
         OneCall, Live, Actors
<1> QED BY <1>2, <1>3, InitDead DEF FKInv

LEMMA NextFK ==
  ASSUME Durable, ~ StoreFaults, ReapAfter = 0, FKInv, [StoreNext]_allVars
  PROVE  FKInv'
<1>1. DeadInv' /\ StoreTyped'
  BY NextDead DEF FKInv, DeadInv
<1> SUFFICES StoreHalf' /\ MapHalf'
  BY <1>1 DEF FKInv
<1>2. ASSUME UNCHANGED <<queue, db, failed, used, login>>
      PROVE  StoreHalf' /\ \A s : Stored(s)' <=> Stored(s)
  <2>1. CustodyFirst'
    BY <1>2 DEF FKInv, StoreHalf, CustodyFirst
  <2> QED BY <1>2, <2>1, NoMore
<1>3. CASE StoreTick
  <2>1. UNCHANGED <<sessions, index, call, pending, minted, held, queue, db, failed,
                    used, login>>
    BY <1>3 DEF StoreTick, Tick, storeVars
  <2> QED BY <1>2, <2>1, MapHalfStays DEF FKInv
<1>4. ASSUME NEW w \in Workers, Serve(w) PROVE StoreHalf' /\ MapHalf'
  <2>1. HandlerNext(w) /\ UNCHANGED storeVars /\ w \in Actors
        /\ UNCHANGED <<db, failed, login>>
    BY <1>4 DEF Serve, storeVars, Actors
  <2>2. ASSUME NEW tok \in Tokens, BeginRefresh(w, tok) PROVE StoreHalf' /\ MapHalf'
    <3>1. /\ tok \in held /\ pending[w] = NULL
          /\ call' = [call EXCEPT ![w] = [tok |-> tok, at |-> now]]
          /\ UNCHANGED <<sessions, index, pending, minted, held, queue, used>>
      BY <2>2 DEF BeginRefresh, Idle
    <3>2. StoreHalf' /\ \A s : Stored(s)' <=> Stored(s)
      BY <1>2, <2>1, <3>1
    <3>3. \A v \in Workers : call'[v] # NULL =>
             call'[v].tok \in held \/ (call[v] # NULL /\ call'[v] = call[v])
      BY <3>1 DEF FKInv, DeadInv, StoreTyped, MapTyped
    <3>4. FreshOK'
      BY <3>1, <3>3 DEF FKInv, MapHalf, FreshOK, Live
    <3>5. CreatorsOK'
      BY <3>1, <3>2, <3>3 DEF FKInv, MapHalf, CreatorsOK, PrivateTo, Creator, Live
    <3>6. OneCall'
      BY <3>1 DEF FKInv, MapHalf, OneCall, DeadInv, StoreTyped, MapTyped
    <3>7. IndexOK' /\ ApplyOK'
      BY <3>1, <3>2 DEF FKInv, MapHalf, IndexOK, ApplyOK, Creator
    <3> QED BY <3>2, <3>4, <3>5, <3>6, <3>7 DEF MapHalf
  <2>3. ASSUME RefreshDenied(w) PROVE StoreHalf' /\ MapHalf'
    <3>1. /\ call' = [call EXCEPT ![w] = NULL]
          /\ UNCHANGED <<sessions, index, pending, minted, held, queue, used>>
      BY <2>3 DEF RefreshDenied
    <3>2. StoreHalf' /\ \A s : Stored(s)' <=> Stored(s)
      BY <1>2, <2>1, <3>1
    <3>3. \A v \in Workers : call'[v] # NULL => call[v] # NULL /\ call'[v] = call[v]
      BY <3>1 DEF FKInv, DeadInv, StoreTyped, MapTyped
    <3>4. FreshOK' /\ OneCall'
      BY <3>1, <3>3 DEF FKInv, MapHalf, FreshOK, OneCall, Live
    <3>5. CreatorsOK'
      BY <3>1, <3>2, <3>3 DEF FKInv, MapHalf, CreatorsOK, PrivateTo, Creator, Live
    <3>6. IndexOK' /\ ApplyOK'
      BY <3>1, <3>2 DEF FKInv, MapHalf, IndexOK, ApplyOK, Creator
    <3> QED BY <3>2, <3>4, <3>5, <3>6 DEF MapHalf
  <2> QED BY <1>1, <2>1, <2>2, <2>3, RefreshFK, FinishFK, PurgeFK DEF HandlerNext
<1>5. ASSUME NEW w \in Workers, NEW tok \in Tokens, Logout(w, tok)
      PROVE  StoreHalf' /\ MapHalf'
  <2>1. index[tok] \in Sids
    BY <1>5 DEF Logout, FKInv, DeadInv, StoreTyped, MapTyped, Option
  <2> QED BY <1>5, <2>1, TombstoneFK DEF Logout
<1>6. ASSUME NEW w \in Workers, NEW s \in Sids, RevokeSession(w, s)
      PROVE  StoreHalf' /\ MapHalf'
  BY <1>6, TombstoneFK DEF RevokeSession
<1>7. ASSUME NEW s \in Sids, RevokeStored(s) PROVE StoreHalf' /\ MapHalf'
  <2> DEFINE c == [cmd |-> "tombstone_session", sid |-> s, at |-> now]
  <2>1. queue' = Append(queue, c)
        /\ UNCHANGED <<sessions, index, call, pending, minted, held, db, failed,
                       used, login>>
    BY <1>7 DEF RevokeStored, storeVars
  <2>2. c.cmd = "tombstone_session" /\ CustodyFirst'
    BY <2>1 DEF FKInv, StoreHalf, CustodyFirst
  <2> HIDE DEF c
  <2>3. StoreHalf' /\ \A x : Stored(x)' <=> Stored(x)
    BY <2>1, <2>2, OneMore
  <2> QED BY <2>1, <2>3, MapHalfStays DEF FKInv
<1>8. ASSUME NEW w \in Workers, NEW s \in Sids, TakeCustody(w, s)
      PROVE  StoreHalf' /\ MapHalf'
  <2> DEFINE c == [cmd |-> "insert_custody", sid |-> s]
  <2>1. /\ queue' = Append(queue, c)
        /\ login' = [login EXCEPT ![w] = [sid |-> s, ack |-> "waiting"]]
        /\ UNCHANGED <<sessions, index, call, pending, minted, held, db, failed, used>>
    BY <1>8 DEF TakeCustody
  <2>2. CustodyFirst'
    BY <2>1 DEF FKInv, StoreHalf, CustodyFirst, DeadInv, StoreTyped, RowsTyped
  <2>3. c.cmd = "insert_custody"
    OBVIOUS
  <2> HIDE DEF c
  <2>4. StoreHalf' /\ \A x : Stored(x)' <=> Stored(x)
    BY <2>1, <2>2, <2>3, OneMore
  <2> QED BY <2>1, <2>4, MapHalfStays DEF FKInv
<1>9. ASSUME NEW w \in Workers, RefuseLogin(w) PROVE StoreHalf' /\ MapHalf'
  <2>1. /\ login' = [login EXCEPT ![w] = NULL]
        /\ UNCHANGED <<sessions, index, call, pending, minted, held, queue, db, failed,
                       used>>
    BY <1>9 DEF RefuseLogin, vars
  <2>2. CustodyFirst'
    BY <2>1 DEF FKInv, StoreHalf, CustodyFirst, DeadInv, StoreTyped, RowsTyped
  <2>3. StoreHalf' /\ \A s : Stored(s)' <=> Stored(s)
    BY <2>1, <2>2, NoMore
  <2> QED BY <2>1, <2>3, MapHalfStays DEF FKInv
<1>10. CASE UNCHANGED allVars
  <2>1. UNCHANGED <<sessions, index, call, pending, minted, held, queue, db, failed,
                    used, login>>
    BY <1>10 DEF allVars, vars, storeVars
  <2> QED BY <1>2, <2>1, MapHalfStays DEF FKInv
<1>11. ~ Reaper /\ ~ EnqueueReap
  BY DEF Reaper, EnqueueReap
<1> QED BY <1>1, <1>3, <1>4, <1>5, <1>6, <1>7, <1>8, <1>9, <1>10, <1>11, CreateFK,
           WriteBatchFK, StopFK, BootFK DEF StoreNext, Crash, Shutdown

\* The foreign keys of the rows hold in the order the commands reach the writer,
\* whatever workers run between the lock sections and the enqueues and wherever
\* the batches are cut: with a sound disk and no reaper, no batch rolls back.
THEOREM NoBatchEverFails ==
  ASSUME Durable, ~ StoreFaults, ReapAfter = 0
  PROVE  StoreSpec => []NoBatchFails
<1>1. StoreInit => FKInv
  BY InitFK
<1>2. FKInv /\ [StoreNext]_allVars => FKInv'
  BY NextFK
<1>3. FKInv => NoBatchFails
  BY DEF FKInv, StoreHalf, NoBatchFails
<1> QED BY <1>1, <1>2, <1>3, PTL DEF StoreSpec
=============================================================================
