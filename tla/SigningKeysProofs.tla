-------------------------- MODULE SigningKeysProofs --------------------------
(***************************************************************************)
(* Proofs about the token issuer's signing keys.  A rotation's dates were  *)
(* computed from a clock read up to Lag ago, and the cache that signs or   *)
(* publishes is a copy of rows read up to MaxStale + Lag ago.  The         *)
(* inductive invariant says what dates a row can have (every retirement    *)
(* date is due to a later row) and how far any copy of the rows may be     *)
(* behind them.                                                            *)
(***************************************************************************)
EXTENDS SigningKeys, FiniteSetTheorems, WellFoundedInduction, TLAPS

AllLeads == {0, PublishLead} \cup Leads

\* Until when a token signed now may be accepted.
Allowance == MaxTtl + RetireMargin

\* Date d is no later than e; NULL is never.
NoLater(d, e) == e = NULL \/ (d # NULL /\ d <= e)

Min2(a, b) == IF a <= b THEN a ELSE b

-----------------------------------------------------------------------------
(***************************************************************************)
(* The rows.                                                               *)
(***************************************************************************)
Total == Cardinality(Kids)

Numbered == Total \in 0..MaxKeys /\ Kids = 1..Total

\* A row was dated by a rotation, and is removed only past its date.
Sane(row, t) ==
    /\ row \in SigningKeyRow
    /\ row.created_at <= t
    /\ \E lead \in AllLeads : row.activate_at = row.created_at + lead
    /\ row.removed_at # NULL => row.retire_at # NULL /\ row.retire_at <= t

\* A key that ends was dated by a later one, which has taken over by then or was
\* to do so before the key itself.
EndedBy(i, k, date, keys) ==
    /\ i > k
    /\ keys[i].activate_at <= date \/ keys[i].activate_at < keys[k].activate_at

Followed == \A k \in Kids : rows[k].retire_at # NULL =>
                \E i \in Kids : EndedBy(i, k, rows[k].retire_at, rows)

\* Unless a rotation disturbed it, a key that got to sign outlives the take over of
\* a newer key, which itself outlives it, by the life of a token.
Outlives(j, k, date, keys) ==
    /\ Newer(keys, j, k)
    /\ keys[j].activate_at + Allowance <= date
    /\ NoLater(date, keys[j].retire_at)

Superseded ==
    \A k \in Kids \ Disturbed : rows[k].retire_at # NULL =>
        \/ rows[k].retire_at < rows[k].activate_at
        \/ \E j \in Kids : Outlives(j, k, rows[k].retire_at, rows)

\* The keys an immediate rotation ended have ended.
EndedIsDated ==
    \A k \in ended.keys : rows[k].retire_at # NULL /\ rows[k].retire_at <= ended.at

RowsOK ==
    /\ Numbered
    /\ \A k \in Kids : Sane(rows[k], clock)
    /\ Followed /\ EndedIsDated
    /\ ended.keys \subseteq Kids /\ ended.at \in 0..clock

-----------------------------------------------------------------------------
(***************************************************************************)
(* A copy K of the rows, read at some moment no earlier than since, and    *)
(* used up to the horizon.                                                 *)
(***************************************************************************)
\* What is known of the date of key k when K was read.
DateIn(K, k) == IF k \in DOMAIN K THEN K[k].retire_at ELSE rows[k].retire_at

\* A row changes only by an earlier date, or by its removal.
Copied(K) ==
    /\ K = [k \in DOMAIN K |-> K[k]]
    /\ \A k \in DOMAIN K :
         /\ k \in Kids /\ K[k] \in SigningKeyRow
         /\ K[k].created_at = rows[k].created_at
         /\ K[k].activate_at = rows[k].activate_at
         /\ K[k].opens = rows[k].opens
         /\ K[k].removed_at = NULL
         /\ NoLater(rows[k].retire_at, K[k].retire_at)

\* The copy is of the first m rows, without those that were removed.
Whole(K) ==
    \E m \in 0..Total :
        /\ DOMAIN K \subseteq 1..m
        /\ \A k \in 1..m : k \notin DOMAIN K => rows[k].removed_at # NULL
        /\ \A k \in 1..m : DateIn(K, k) # NULL =>
             \E i \in 1..m : EndedBy(i, k, DateIn(K, k), rows)

SupersededIn(K) ==
    \A k \in DOMAIN K \ Disturbed : K[k].retire_at # NULL =>
        \/ K[k].retire_at <= clock
        \/ K[k].retire_at < K[k].activate_at
        \/ \E j \in DOMAIN K : Outlives(j, k, K[k].retire_at, K)

\* Dates the copy does not have yet lie past the horizon.
LaterOnly(K, horizon) ==
    \A k \in DOMAIN K \ Disturbed :
        \/ rows[k].retire_at = K[k].retire_at
        \/ rows[k].activate_at > horizon
        \/ rows[k].retire_at # NULL /\ rows[k].retire_at > horizon + Allowance

\* Keys written before the copy was read are in it.
Covers(K, since) ==
    \A k \in Kids : rows[k].created_at + Lag < since =>
        k \in DOMAIN K \/ rows[k].removed_at # NULL

\* A copy read after an immediate rotation knows of it.
KnowsEnded(K, since) ==
    since > ended.at => \A k \in ended.keys \cap DOMAIN K :
        K[k].retire_at # NULL /\ K[k].retire_at <= ended.at

CopyOK(K, since) ==
    Copied(K) /\ Whole(K) /\ Covers(K, since) /\ KnowsEnded(K, since)

\* What a copy that signs must add.
CopySigns(K, horizon) == SupersededIn(K) /\ LaterOnly(K, horizon)

CacheOK ==
    /\ cache = NULL <=> boot = "down"
    /\ cache # NULL =>
         /\ cache = [keys |-> cache.keys, loaded_at |-> cache.loaded_at]
         /\ cache.loaded_at \in 0..clock
         /\ CopyOK(cache.keys, cache.loaded_at - Lag)

-----------------------------------------------------------------------------
(***************************************************************************)
(* What the threads and the process are in the middle of.                  *)
(***************************************************************************)
Timely(at) == at \in 0..clock /\ clock <= at + Lag

JobOK(p) ==
    /\ job[p].stage \in {"idle", "reload", "rotate", "prune", "load"}
    /\ p = Cli => job[p].stage \in {"idle", "rotate"}
    /\ p # Cli /\ boot # "up" => job[p].stage = "idle"
    /\ job[p].stage = "idle" => job[p] = Idle
    /\ job[p].stage = "reload" => job[p] = [stage |-> "reload"]
    /\ job[p].stage = "rotate" =>
         /\ job[p] = [stage |-> "rotate", at |-> job[p].at, lead |-> job[p].lead]
         /\ Timely(job[p].at) /\ job[p].lead \in AllLeads
    /\ job[p].stage = "prune" =>
         /\ job[p] = [stage |-> "prune", at |-> job[p].at, left |-> job[p].left,
                      removed |-> job[p].removed]
         /\ Timely(job[p].at) /\ job[p].left \subseteq Kids /\ job[p].removed \in BOOLEAN
    /\ job[p].stage = "load" =>
         /\ job[p] = [stage |-> "load", at |-> job[p].at, keys |-> job[p].keys]
         /\ Timely(job[p].at)
         /\ CopyOK(job[p].keys, job[p].at)

JobsOK ==
    /\ DOMAIN job = Processes
    /\ \A p \in Processes : JobOK(p)

-----------------------------------------------------------------------------
\* What a verifier is shown: a key whose token may be presented has started, and it
\* is kept until the token ends unless a rotation disturbed it.
Presented ==
    \A k \in 1..MaxKeys : tokens[k] > clock =>
        /\ k \in Kids
        /\ rows[k].activate_at <= clock
        /\ tokens[k] <= clock + Allowance
        /\ k \in Disturbed \/ (rows[k].removed_at = NULL /\ NoLater(tokens[k], rows[k].retire_at))

\* A verifier that refreshes in time knows every key created long enough before.
Informed ==
    boot = "up" =>
        /\ clock <= verifier.at + RefreshPeriod
        /\ \A k \in Kids : rows[k].created_at + 2 * Lag + MaxStale < verifier.at =>
             \/ k \in verifier.keys
             \/ rows[k].retire_at # NULL /\ rows[k].retire_at <= verifier.at

KeysTypeOK ==
    /\ clock \in 0..MaxClock /\ reboots \in 0..MaxReboots
    /\ boot \in {"down", "empty", "up"}
    /\ verifier.keys \subseteq Kids /\ verifier.at \in 0..clock
    /\ tokens \in [1..MaxKeys -> Nat]

\* Nothing depends on what a fallback key signed.
StraysTypeOK == strays \in [1..MaxKeys -> Nat]

\* What holds whatever the leads.
KeysInv == KeysTypeOK /\ RowsOK /\ CacheOK /\ JobsOK /\ Informed

\* What ordinary rotations leave time for.
CopiesSign ==
    /\ Superseded
    /\ cache # NULL => CopySigns(cache.keys, cache.loaded_at + MaxStale)
    /\ \A p \in Processes : job[p].stage = "load" =>
         CopySigns(job[p].keys, job[p].at + Lag + MaxStale)

LeadsInv == CopiesSign /\ Presented

-----------------------------------------------------------------------------
(***************************************************************************)
(* Numbers, dates and one row.                                             *)
(***************************************************************************)
\* A set of natural numbers has a least element.
LEMMA HasLeast ==
  ASSUME NEW S \in SUBSET Nat, S # {}
  PROVE  \E m \in S : \A k \in S : m <= k
  <1>1. IsWellFoundedOn(OpToRel(<, Nat), Nat)
    BY NatLessThanWellFounded
  <1>2. PICK m \in S : \A k \in S : <<k, m>> \notin OpToRel(<, Nat)
    BY <1>1, WFMin
  <1>3. ASSUME NEW k \in S PROVE m <= k
    <2>1. <<k, m>> \notin {ss \in Nat \X Nat : ss[1] < ss[2]}
      BY <1>2 DEF OpToRel
    <2>2. <<k, m>> \in Nat \X Nat /\ <<k, m>>[1] = k /\ <<k, m>>[2] = m
      OBVIOUS
    <2>3. ~(k < m)
      BY <2>1, <2>2, Zenon
    <2> QED
      BY <2>3
  <1> QED
    BY <1>3

\* A bounded set of natural numbers has a greatest one.
LEMMA HasGreatest ==
  ASSUME NEW n \in Nat, NEW S \in SUBSET (0..n), S # {}
  PROVE  \E m \in S : \A k \in S : k <= m
  <1> DEFINE T == {n - k : k \in S}
  <1>1. T \in SUBSET Nat /\ T # {}
    <2>1. \A k \in S : k \in Nat /\ k <= n
      OBVIOUS
    <2>2. \A k \in S : n - k \in Nat
      BY <2>1
    <2> QED
      BY <2>2, Zenon
  <1>2. PICK d \in T : \A e \in T : d <= e
    BY <1>1, HasLeast, Zenon
  <1>3. PICK m \in S : d = n - m
    BY <1>2
  <1>4. \A k \in S : n - m <= n - k
    BY <1>2, <1>3
  <1>5. \A k \in S : k <= m
    BY <1>4
  <1> QED
    BY <1>5

\* The sorts of the constants.
LEMMA Constants ==
  /\ PublishLead \in Nat /\ MaxTtl \in Nat /\ RetireMargin \in Nat
  /\ ReloadInterval \in Nat /\ RefreshPeriod \in Nat /\ Lag \in Nat /\ MaxStale \in Nat
  /\ MaxKeys \in Nat /\ MaxClock \in Nat /\ MaxReboots \in Nat
  /\ PublishLead > 0 /\ AllLeads \subseteq Nat /\ 0 \in AllLeads /\ Allowance \in Nat
  /\ NULL \notin Nat /\ Cli \notin Threads /\ ReloadInterval <= MaxStale + 1
  <1>1. /\ PublishLead \in Nat /\ MaxTtl \in Nat /\ RetireMargin \in Nat
        /\ ReloadInterval \in Nat /\ RefreshPeriod \in Nat /\ Lag \in Nat /\ MaxStale \in Nat
        /\ MaxKeys \in Nat /\ MaxClock \in Nat /\ MaxReboots \in Nat
    BY SigningKeysAssumption, Zenon
  <1>2. /\ NULL \notin Nat /\ Cli \notin Threads /\ ReloadInterval <= MaxStale + 1
        /\ PublishLead > 0 /\ Leads \subseteq Nat
    BY SigningKeysAssumption, Zenon
  <1>3. AllLeads \subseteq Nat /\ 0 \in AllLeads
    BY <1>1, <1>2 DEF AllLeads
  <1>4. Allowance \in Nat
    BY <1>1 DEF Allowance
  <1> QED
    BY <1>1, <1>2, <1>3, <1>4, Zenon

\* A row can be told from its fields.
LEMMA RowFields ==
  ASSUME NEW row \in SigningKeyRow
  PROVE  /\ row.created_at \in Nat /\ row.activate_at \in Nat
         /\ row.retire_at \in Nat \cup {NULL} /\ row.removed_at \in Nat \cup {NULL}
         /\ row.opens \in BOOLEAN
         /\ row = [created_at |-> row.created_at, activate_at |-> row.activate_at,
                   retire_at |-> row.retire_at, removed_at |-> row.removed_at,
                   opens |-> row.opens]
  BY DEF SigningKeyRow, Option

\* Dated gives a row that is not removed a date no later than t.
LEMMA DatedRow ==
  ASSUME NEW row \in SigningKeyRow, NEW t \in Nat
  PROVE  /\ Dated(row, t) \in SigningKeyRow
         /\ Dated(row, t).created_at = row.created_at
         /\ Dated(row, t).activate_at = row.activate_at
         /\ Dated(row, t).removed_at = row.removed_at
         /\ Dated(row, t).opens = row.opens
         /\ row.removed_at # NULL => Dated(row, t) = row
         /\ row.removed_at = NULL =>
              /\ Dated(row, t).retire_at \in Nat /\ Dated(row, t).retire_at <= t
              /\ Dated(row, t).retire_at = row.retire_at \/ Dated(row, t).retire_at = t
         /\ NoLater(Dated(row, t).retire_at, row.retire_at)
         /\ row.retire_at # NULL => Dated(row, t).retire_at # NULL
  BY Constants DEF Dated, SigningKeyRow, Option, NoLater

\* What one rotation does to a row: the key made takes over at a, and the row is
\* given a date no later than r, and if it is still to take over itself then c.
MayDate(row, new, r, c, a) ==
    /\ new \in SigningKeyRow
    /\ new.created_at = row.created_at
    /\ new.activate_at = row.activate_at
    /\ new.removed_at = row.removed_at
    /\ new.opens = row.opens
    /\ row.removed_at # NULL => new = row
    /\ row.removed_at = NULL =>
         /\ new.retire_at \in Nat /\ new.retire_at <= r
         /\ row.activate_at > a => new.retire_at <= c
         /\ \/ new.retire_at = row.retire_at
            \/ new.retire_at = r
            \/ row.activate_at > a /\ new.retire_at = c
    /\ NoLater(new.retire_at, row.retire_at)

LEMMA RotatedRow ==
  ASSUME NEW row \in SigningKeyRow, NEW r \in Nat, NEW c \in Nat, NEW a \in Nat
  PROVE  MayDate(row, EndPending(Dated(row, r), c, a), r, c, a)
  <1> DEFINE mid == Dated(row, r)
             new == EndPending(mid, c, a)
  <1>1. mid \in SigningKeyRow
    BY DatedRow
  <1>2. /\ mid.created_at = row.created_at /\ mid.activate_at = row.activate_at
        /\ mid.removed_at = row.removed_at /\ mid.opens = row.opens
        /\ row.removed_at # NULL => mid = row
        /\ row.removed_at = NULL =>
             /\ mid.retire_at \in Nat /\ mid.retire_at <= r
             /\ mid.retire_at = row.retire_at \/ mid.retire_at = r
        /\ NoLater(mid.retire_at, row.retire_at)
    BY DatedRow
  <1>3. new = IF mid.activate_at > a THEN Dated(mid, c) ELSE mid
    BY DEF EndPending
  <1>4. row.retire_at \in Nat \cup {NULL} /\ mid.retire_at \in Nat \cup {NULL} /\ NULL \notin Nat
    BY <1>1, RowFields, Constants
  <1> HIDE DEF mid, new
  <1>5. ASSUME mid.activate_at > a PROVE MayDate(row, new, r, c, a)
    <2> DEFINE last == Dated(mid, c)
    <2>1. /\ last \in SigningKeyRow
          /\ last.created_at = mid.created_at /\ last.activate_at = mid.activate_at
          /\ last.removed_at = mid.removed_at /\ last.opens = mid.opens
          /\ mid.removed_at # NULL => last = mid
          /\ mid.removed_at = NULL =>
               /\ last.retire_at \in Nat /\ last.retire_at <= c
               /\ last.retire_at = mid.retire_at \/ last.retire_at = c
          /\ NoLater(last.retire_at, mid.retire_at)
      BY <1>1, DatedRow
    <2>2. new = last
      BY <1>3, <1>5
    <2> HIDE DEF last
    <2> QED
      BY <1>2, <1>4, <1>5, <2>1, <2>2 DEF NoLater, MayDate
  <1>6. ASSUME ~(mid.activate_at > a) PROVE MayDate(row, new, r, c, a)
    <2>1. new = mid
      BY <1>3, <1>6
    <2> QED
      BY <1>1, <1>2, <1>4, <1>6, <2>1 DEF MayDate
  <1>7. MayDate(row, new, r, c, a)
    BY <1>5, <1>6
  <1> QED
    BY <1>7 DEF new, mid
-----------------------------------------------------------------------------
(***************************************************************************)
(* What a step does to the rows, and what that does to a copy of them.     *)
(***************************************************************************)
\* A rotation, a removal or the first key: dates move down and rows are removed.
RowsMove ==
    /\ Kids \subseteq Kids' /\ Total' \in Nat /\ Total <= Total' /\ clock' = clock
    /\ \A k \in Kids :
         /\ rows'[k] \in SigningKeyRow
         /\ rows'[k].created_at = rows[k].created_at
         /\ rows'[k].activate_at = rows[k].activate_at
         /\ rows'[k].opens = rows[k].opens
         /\ rows[k].removed_at # NULL =>
              rows'[k].removed_at # NULL /\ rows'[k].retire_at = rows[k].retire_at
         /\ NoLater(rows'[k].retire_at, rows[k].retire_at)
    /\ \A k \in Kids' \ Kids :
         rows'[k] \in SigningKeyRow /\ rows'[k].created_at + Lag >= clock
    /\ \/ ended' = ended
       \/ ended' = [keys |-> Kids, at |-> clock]

\* An ordinary rotation dates nothing before what any copy in use may still see.
DatesMove ==
    \A k \in Kids \ Disturbed' :
        \/ rows'[k].retire_at = rows[k].retire_at
        \/ rows[k].activate_at > clock + Lag + MaxStale
        \/ /\ rows'[k].retire_at # NULL
           /\ rows'[k].retire_at > clock + Lag + MaxStale + Allowance

\* What was disturbed stays so.
LEMMA DisturbedStays ==
  ASSUME rows' = rows, ended' = ended
  PROVE  Disturbed' = Disturbed
  BY DEF Disturbed, Disturbs, Kids

LEMMA DisturbedGrows ==
  ASSUME Kids \subseteq Kids', ended.keys \subseteq ended'.keys,
         \A k \in Kids : /\ rows'[k].created_at = rows[k].created_at
                        /\ rows'[k].activate_at = rows[k].activate_at
  PROVE  Disturbed \subseteq Disturbed'
  <1>1. \A j, k \in Kids : Disturbs(j, k) => Disturbs(j, k)'
    BY DEF Disturbs
  <1> QED
    BY <1>1 DEF Disturbed

LEMMA DisturbedMoves ==
  ASSUME RowsOK, RowsMove
  PROVE  Disturbed \subseteq Disturbed'
  <1>1. ended.keys \subseteq ended'.keys
    BY DEF RowsMove, RowsOK
  <1> QED
    BY <1>1, DisturbedGrows DEF RowsMove

\* A copy stays a good one while nothing moves.
LEMMA CopyStays ==
  ASSUME NEW K, NEW since, CopyOK(K, since), rows' = rows, ended' = ended
  PROVE  CopyOK(K, since)'
  BY DEF CopyOK, Copied, Whole, Covers, KnowsEnded, DateIn, EndedBy, NoLater, Kids, Total

LEMMA LaterStays ==
  ASSUME NEW K, NEW horizon, LaterOnly(K, horizon), rows' = rows, ended' = ended
  PROVE  LaterOnly(K, horizon)'
  BY DisturbedStays DEF LaterOnly

\* What is good for longer is good for less.
LEMMA CopyWeakens ==
  ASSUME NEW K, NEW since \in Int, NEW s \in Int, CopyOK(K, since), s <= since, RowsOK
  PROVE  CopyOK(K, s)
  <1>1. \A k \in Kids : rows[k].created_at \in Nat
    BY RowFields DEF RowsOK, Sane
  <1>2. Covers(K, s)
    BY <1>1, Constants DEF CopyOK, Covers
  <1>3. KnowsEnded(K, s)
    BY DEF CopyOK, KnowsEnded, RowsOK
  <1> QED
    BY <1>2, <1>3 DEF CopyOK

LEMMA LaterWeakens ==
  ASSUME NEW K, NEW horizon \in Int, NEW h \in Int, LaterOnly(K, horizon), h <= horizon,
         Copied(K), RowsOK
  PROVE  LaterOnly(K, h)
  <1>1. \A k \in DOMAIN K : /\ k \in Kids /\ rows[k].activate_at \in Nat
                            /\ rows[k].retire_at \in Nat \cup {NULL}
    BY RowFields DEF RowsOK, Sane, Copied
  <1> QED
    BY <1>1, Constants DEF LaterOnly

\* What is read is a good copy.
LEMMA CopyMade ==
  RowsOK /\ clock \in Nat => CopyOK(Loaded, clock)
  <1> SUFFICES ASSUME RowsOK, clock \in Nat PROVE CopyOK(Loaded, clock)
    OBVIOUS
  <1> DEFINE K == Loaded
  <1>1. /\ DOMAIN K = {k \in Kids : rows[k].removed_at = NULL}
        /\ K = [k \in DOMAIN K |-> rows[k]]
        /\ \A k \in DOMAIN K : k \in Kids /\ K[k] = rows[k] /\ rows[k].removed_at = NULL
    BY DEF Loaded
  <1> HIDE DEF K
  <1>2. \A k \in Kids : rows[k] \in SigningKeyRow /\ rows[k].retire_at \in Nat \cup {NULL}
                        /\ rows[k].created_at \in Nat
    BY RowFields DEF RowsOK, Sane
  <1>3. Copied(K)
    <2>1. K = [k \in DOMAIN K |-> K[k]]
      BY <1>1
    <2> QED
      BY <1>1, <1>2, <2>1 DEF Copied, NoLater
  <1>4. Whole(K)
    <2>1. Total \in 0..Total /\ Kids = 1..Total
      BY Constants DEF RowsOK, Numbered
    <2>2. DOMAIN K \subseteq 1..Total
      BY <1>1, <2>1
    <2>3. \A k \in 1..Total : k \notin DOMAIN K => rows[k].removed_at # NULL
      BY <1>1, <2>1
    <2>4. \A k \in 1..Total : DateIn(K, k) = rows[k].retire_at
      BY <1>1, <2>1 DEF DateIn
    <2>5. \A k \in 1..Total : rows[k].retire_at # NULL =>
            \E i \in 1..Total : EndedBy(i, k, rows[k].retire_at, rows)
      BY <2>1 DEF RowsOK, Followed
    <2>6. \A k \in 1..Total : DateIn(K, k) # NULL =>
            \E i \in 1..Total : EndedBy(i, k, DateIn(K, k), rows)
      BY <2>4, <2>5, Zenon
    <2> HIDE DEF Total
    <2> QED
      BY <2>1, <2>2, <2>3, <2>6, Zenon DEF Whole
  <1>5. Covers(K, clock)
    BY <1>1, Zenon DEF Covers
  <1>6. KnowsEnded(K, clock)
    BY <1>1, Zenon DEF KnowsEnded, RowsOK, EndedIsDated
  <1>7. CopyOK(K, clock)
    BY <1>3, <1>4, <1>5, <1>6, Zenon DEF CopyOK
  <1> QED
    BY <1>7 DEF K

\* A copy stays a good one when the rows move.
LEMMA CopyMoves ==
  ASSUME NEW K, NEW since \in Int, CopyOK(K, since),
         RowsOK, RowsMove, clock \in Nat, since <= clock
  PROVE  CopyOK(K, since)'
  <1>1. \A k \in Kids : /\ rows[k].created_at \in Nat /\ rows[k].activate_at \in Nat
                        /\ rows[k].retire_at \in Nat \cup {NULL}
                        /\ rows'[k].retire_at \in Nat \cup {NULL}
                        /\ rows'[k].created_at = rows[k].created_at
                        /\ rows'[k].activate_at = rows[k].activate_at
    BY RowFields DEF RowsOK, Sane, RowsMove
  <1>2. \A k \in DOMAIN K : /\ k \in Kids /\ k \in Kids'
                            /\ K[k] \in SigningKeyRow /\ K[k].retire_at \in Nat \cup {NULL}
    BY RowFields DEF CopyOK, Copied, RowsMove
  <1>3. Copied(K)'
    <2>1. ASSUME NEW k \in DOMAIN K
          PROVE  NoLater(rows'[k].retire_at, K[k].retire_at)
      <3>1. NoLater(rows[k].retire_at, K[k].retire_at)
        BY DEF CopyOK, Copied
      <3>2. NoLater(rows'[k].retire_at, rows[k].retire_at)
        BY <1>2 DEF RowsMove
      <3> QED
        BY <1>1, <1>2, <3>1, <3>2 DEF NoLater
    <2> QED
      BY <1>2, <2>1 DEF CopyOK, Copied, RowsMove
  <1>4. Whole(K)'
    <2>1. PICK m \in 0..Total :
            /\ DOMAIN K \subseteq 1..m
            /\ \A k \in 1..m : k \notin DOMAIN K => rows[k].removed_at # NULL
            /\ \A k \in 1..m : DateIn(K, k) # NULL =>
                 \E i \in 1..m : EndedBy(i, k, DateIn(K, k), rows)
      BY DEF CopyOK, Whole
    <2>2. Total \in Nat /\ Kids = 1..Total /\ m \in Nat /\ m <= Total
      BY <2>1, Constants DEF RowsOK, Numbered
    <2> HIDE DEF Total
    <2>3. \A k \in 1..m : k \in Kids
      BY <2>2
    <2>4. \A k \in 1..m : k \notin DOMAIN K => rows'[k].removed_at # NULL
      BY <2>1, <2>3 DEF RowsMove
    <2>5. \A k \in 1..m : DateIn(K, k)' = DateIn(K, k)
      BY <2>1, <2>3 DEF DateIn, RowsMove
    <2>6. \A k, i \in 1..m : EndedBy(i, k, DateIn(K, k), rows)
                              => EndedBy(i, k, DateIn(K, k), rows')
      BY <1>1, <2>3 DEF EndedBy
    <2>7. \A k \in 1..m : DateIn(K, k)' # NULL =>
            \E i \in 1..m : EndedBy(i, k, DateIn(K, k), rows)'
      BY <2>1, <2>5, <2>6 DEF EndedBy
    <2>8. m \in 0..Total'
      <3>1. Total' \in Nat /\ Total <= Total'
        BY DEF RowsMove
      <3> QED
        BY <2>2, <3>1
    <2> QED
      BY <2>1, <2>4, <2>7, <2>8 DEF Whole
  <1>5. Covers(K, since)'
    <2> SUFFICES ASSUME NEW k \in Kids', rows'[k].created_at + Lag < since
        PROVE  k \in DOMAIN K \/ rows'[k].removed_at # NULL
      BY DEF Covers
    <2>1. CASE k \in Kids
      BY <1>1, <2>1 DEF CopyOK, Covers, RowsMove
    <2>2. CASE k \notin Kids
      <3>1. rows'[k].created_at + Lag >= clock /\ rows'[k].created_at \in Nat
        BY <2>2, RowFields DEF RowsMove
      <3> QED
        BY <3>1, Constants
    <2> QED
      BY <2>1, <2>2
  <1>6. KnowsEnded(K, since)'
    BY DEF CopyOK, KnowsEnded, RowsMove
  <1> QED
    BY <1>3, <1>4, <1>5, <1>6 DEF CopyOK

\* Nor does it get behind before its horizon.
LEMMA LaterMoves ==
  ASSUME NEW K, NEW horizon \in Int, LaterOnly(K, horizon), Copied(K),
         RowsOK, RowsMove, DatesMove, clock \in Nat, horizon <= clock + Lag + MaxStale
  PROVE  LaterOnly(K, horizon)'
  <1>1. \A k \in DOMAIN K : /\ k \in Kids /\ rows[k].activate_at \in Nat
                            /\ rows[k].retire_at \in Nat \cup {NULL}
                            /\ rows'[k].retire_at \in Nat \cup {NULL}
                            /\ rows'[k].activate_at = rows[k].activate_at
    BY RowFields DEF RowsOK, Sane, RowsMove, Copied
  <1>2. Disturbed \subseteq Disturbed'
    BY DisturbedMoves
  <1> SUFFICES ASSUME NEW k \in DOMAIN K, k \notin Disturbed'
      PROVE  \/ rows'[k].retire_at = K[k].retire_at
             \/ rows'[k].activate_at > horizon
             \/ rows'[k].retire_at # NULL /\ rows'[k].retire_at > horizon + Allowance
    BY DEF LaterOnly
  <1>3. \/ rows[k].retire_at = K[k].retire_at
        \/ rows[k].activate_at > horizon
        \/ rows[k].retire_at # NULL /\ rows[k].retire_at > horizon + Allowance
    BY <1>2 DEF LaterOnly
  <1>4. \/ rows'[k].retire_at = rows[k].retire_at
        \/ rows[k].activate_at > clock + Lag + MaxStale
        \/ /\ rows'[k].retire_at # NULL
           /\ rows'[k].retire_at > clock + Lag + MaxStale + Allowance
    BY <1>1 DEF DatesMove
  <1> QED
    BY <1>1, <1>3, <1>4, Constants

-----------------------------------------------------------------------------
(***************************************************************************)
(* The writes.                                                             *)
(***************************************************************************)
\* A removal, and the loss of a seed: no date changes, and what is removed ended.
RowsKept ==
    /\ Kids' = Kids /\ clock' = clock /\ ended' = ended
    /\ \A k \in Kids :
         /\ rows'[k] \in SigningKeyRow
         /\ rows'[k].created_at = rows[k].created_at
         /\ rows'[k].activate_at = rows[k].activate_at
         /\ rows'[k].retire_at = rows[k].retire_at
         /\ rows[k].removed_at # NULL => rows'[k].removed_at # NULL
         /\ rows[k].removed_at = NULL /\ rows'[k].removed_at # NULL =>
              rows[k].retire_at # NULL /\ rows[k].retire_at <= clock

LEMMA RowsKeptOK ==
  ASSUME RowsOK, RowsKept, clock \in Nat, tokens \in [1..MaxKeys -> Nat]
  PROVE  /\ RowsOK'
         /\ Superseded => Superseded'
         /\ Presented /\ tokens' = tokens => Presented'
  <1>1. Total' = Total
    BY DEF Total, RowsKept
  <1>2. Numbered'
    BY <1>1 DEF RowsOK, Numbered, RowsKept
  <1>3. \A k \in Kids' : Sane(rows'[k], clock')
    BY DEF RowsOK, Sane, RowsKept
  <1>4. \A k, i \in Kids : \A d : EndedBy(i, k, d, rows)' <=> EndedBy(i, k, d, rows)
    BY DEF EndedBy, RowsKept
  <1>5. Followed'
    <2> SUFFICES ASSUME NEW k \in Kids, rows'[k].retire_at # NULL
        PROVE  \E i \in Kids : EndedBy(i, k, rows'[k].retire_at, rows')
      BY DEF Followed, RowsKept
    <2>1. rows'[k].retire_at = rows[k].retire_at
      BY DEF RowsKept
    <2>2. PICK i \in Kids : EndedBy(i, k, rows[k].retire_at, rows)
      BY <2>1 DEF Followed, RowsOK
    <2>3. EndedBy(i, k, rows[k].retire_at, rows')
      BY <2>2 DEF EndedBy, RowsKept
    <2> QED
      BY <2>1, <2>3
  <1>6. EndedIsDated' /\ ended'.keys \subseteq Kids' /\ ended'.at \in 0..clock'
    BY DEF EndedIsDated, RowsOK, RowsKept
  <1>7. RowsOK'
    BY <1>2, <1>3, <1>5, <1>6 DEF RowsOK
  <1>7a. Disturbed \subseteq Disturbed'
    BY DisturbedGrows DEF RowsKept
  <1>8. ASSUME Superseded PROVE Superseded'
    <2> SUFFICES ASSUME NEW k \in Kids \ Disturbed, rows'[k].retire_at # NULL
        PROVE  \/ rows'[k].retire_at < rows'[k].activate_at
               \/ \E j \in Kids : Outlives(j, k, rows'[k].retire_at, rows')
      BY <1>7a DEF Superseded, RowsKept
    <2>1. rows'[k].retire_at = rows[k].retire_at /\ rows'[k].activate_at = rows[k].activate_at
      BY DEF RowsKept
    <2>2. CASE rows[k].retire_at < rows[k].activate_at
      BY <2>1, <2>2
    <2>3. CASE \E j \in Kids : Outlives(j, k, rows[k].retire_at, rows)
      <3>1. PICK j \in Kids : Outlives(j, k, rows[k].retire_at, rows)
        BY <2>3
      <3>2. Outlives(j, k, rows[k].retire_at, rows')
        BY <3>1 DEF Outlives, Newer, RowsKept
      <3> QED
        BY <2>1, <3>2
    <2> QED
      BY <1>8, <2>1, <2>2, <2>3 DEF Superseded
  <1>9. ASSUME Presented, tokens' = tokens PROVE Presented'
    <2>1. \A k \in Kids : rows[k].retire_at \in Nat \cup {NULL}
      BY RowFields DEF RowsOK, Sane
    <2>2. \A k \in Kids : rows[k].removed_at = NULL /\ NoLater(tokens[k], rows[k].retire_at)
                          /\ tokens[k] > clock /\ tokens[k] <= clock + Allowance
                          => rows'[k].removed_at = NULL
      <3>0. \A k \in Kids : tokens[k] \in Nat
        BY Constants DEF RowsOK, Numbered
      <3> SUFFICES ASSUME NEW k \in Kids, NEW t \in Nat, t = tokens[k],
                          rows[k].removed_at = NULL, NoLater(t, rows[k].retire_at),
                          t > clock, rows'[k].removed_at # NULL
          PROVE  FALSE
        BY <3>0
      <3>1. rows[k].retire_at # NULL /\ rows[k].retire_at <= clock
        BY DEF RowsKept
      <3>2. t <= rows[k].retire_at
        BY <3>1 DEF NoLater
      <3> QED
        BY <2>1, <3>1, <3>2
    <2> QED
      BY <1>7a, <1>9, <2>2 DEF Presented, RowsKept
  <1> QED
    BY <1>7, <1>8, <1>9
\* BootInsert: the first key of a store is one more row.
FirstKey ==
    /\ rows' = WithKey(rows, clock, clock)
    /\ clock' = clock /\ ended' = ended

LEMMA FirstKeyOK ==
  ASSUME RowsOK, FirstKey, clock \in Nat, NewKid <= MaxKeys
  PROVE  /\ RowsOK' /\ RowsMove /\ DatesMove
         /\ Superseded => Superseded'
         /\ Presented /\ tokens' = tokens => Presented'
  <1> DEFINE new == NewKid
  <1>1. new = Total + 1 /\ Total \in Nat /\ Kids = 1..Total
    BY Constants DEF NewKid, RowsOK, Numbered, Total
  <1>2. /\ Kids' = Kids \cup {new}
        /\ \A k \in Kids : rows'[k] = rows[k]
        /\ rows'[new] = [created_at |-> clock, activate_at |-> clock, retire_at |-> NULL,
                         removed_at |-> NULL, opens |-> TRUE]
    <2>1. \A k \in Kids : k # new
      BY <1>1
    <2> QED
      BY <2>1 DEF FirstKey, WithKey, Kids
  <1> HIDE DEF new
  <1>3. Kids' = 1..(Total + 1)
    BY <1>1, <1>2
  <1>4. Total' = Total + 1
    BY <1>1, <1>3, FS_Interval DEF Total
  <1>5. new \notin Kids /\ new \in Kids'
    BY <1>1, <1>2
  <1>6. Total + 1 <= MaxKeys
    BY <1>1 DEF new
  <1>7. Numbered'
    BY <1>1, <1>3, <1>4, <1>6, Constants DEF Numbered
  <1>8. Sane(rows'[new], clock)
    BY <1>2, Constants DEF Sane, SigningKeyRow, Option
  <1>9. \A k \in Kids' : Sane(rows'[k], clock')
    BY <1>2, <1>8 DEF RowsOK, FirstKey
  <1>10. rows'[new].retire_at = NULL
    BY <1>2
  <1>11. Followed'
    <2> SUFFICES ASSUME NEW k \in Kids, rows[k].retire_at # NULL
        PROVE  \E i \in Kids : EndedBy(i, k, rows[k].retire_at, rows')
      BY <1>2, <1>10 DEF Followed
    <2>1. PICK i \in Kids : EndedBy(i, k, rows[k].retire_at, rows)
      BY DEF RowsOK, Followed
    <2>2. EndedBy(i, k, rows[k].retire_at, rows')
      BY <1>2, <2>1 DEF EndedBy
    <2> QED
      BY <2>2
  <1>12. RowsOK'
    BY <1>2, <1>7, <1>9, <1>11 DEF RowsOK, EndedIsDated, FirstKey
  <1>13. RowsMove
    <2>1. \A k \in Kids : rows[k] \in SigningKeyRow /\ NoLater(rows[k].retire_at, rows[k].retire_at)
      BY RowFields DEF RowsOK, Sane, NoLater
    <2>2. rows'[new] \in SigningKeyRow /\ rows'[new].created_at + Lag >= clock
      BY <1>2, <1>8, Constants DEF Sane
    <2> QED
      BY <1>1, <1>2, <1>4, <2>1, <2>2 DEF RowsMove, FirstKey
  <1>14. DatesMove
    BY <1>2 DEF DatesMove, FirstKey
  <1>14a. Disturbed \subseteq Disturbed'
    BY <1>13, DisturbedMoves
  <1>15. ASSUME Superseded PROVE Superseded'
    <2> SUFFICES ASSUME NEW k \in Kids \ Disturbed, rows[k].retire_at # NULL
        PROVE  \/ rows[k].retire_at < rows[k].activate_at
               \/ \E j \in Kids : Outlives(j, k, rows[k].retire_at, rows')
      BY <1>2, <1>10, <1>14a DEF Superseded, FirstKey
    <2>1. CASE \E j \in Kids : Outlives(j, k, rows[k].retire_at, rows)
      <3>1. PICK j \in Kids : Outlives(j, k, rows[k].retire_at, rows)
        BY <2>1
      <3>2. Outlives(j, k, rows[k].retire_at, rows')
        BY <1>2, <3>1 DEF Outlives, Newer
      <3> QED
        BY <3>2
    <2> QED
      BY <1>15, <2>1 DEF Superseded
  <1>16. ASSUME Presented, tokens' = tokens PROVE Presented'
    BY <1>2, <1>14a, <1>16 DEF Presented, FirstKey
  <1> QED
    BY <1>12, <1>13, <1>14, <1>15, <1>16

\* A rotation, by the dates it computed.
LEMMA RotationRows ==
  ASSUME RowsOK, clock \in Nat, NEW c \in Nat, NEW lead \in AllLeads, NEW a, NEW r, NEW new,
         a = ActivateAt(c, lead), r = RetireAt(c, lead), new = NewKid,
         NewKid <= MaxKeys, rows' = Rotated(c, lead)
  PROVE  /\ new = Total + 1 /\ Total' = Total + 1 /\ Total \in Nat
         /\ Kids = 1..Total /\ Kids' = 1..(Total + 1) /\ Kids' = Kids \cup {new}
         /\ Numbered' /\ new \notin Kids
         /\ a = c + lead /\ a \in Nat /\ r \in Nat /\ lead \in Nat
         /\ lead = 0 => r = c
         /\ lead # 0 => r = a + Allowance
         /\ rows'[new] = [created_at |-> c, activate_at |-> a, retire_at |-> NULL,
                          removed_at |-> NULL, opens |-> TRUE]
         /\ \A k \in Kids : MayDate(rows[k], rows'[k], r, c, a)
  <1>1. new = Total + 1 /\ Total \in Nat /\ Kids = 1..Total
    BY Constants DEF NewKid, RowsOK, Numbered, Total
  <1>2. lead \in Nat
    BY Constants
  <1>3. a = c + lead /\ a \in Nat
    BY <1>2 DEF ActivateAt
  <1>4. /\ r \in Nat
        /\ lead = 0 => r = c
        /\ lead # 0 => r = a + Allowance
    BY <1>2, <1>3, Constants DEF RetireAt, ActivateAt, Allowance
  <1>5. new \notin Kids
    BY <1>1
  <1>6. /\ Kids' = Kids \cup {new}
        /\ \A k \in Kids : rows'[k] = EndPending(Dated(rows[k], r), c, a)
        /\ rows'[new] = [created_at |-> c, activate_at |-> a, retire_at |-> NULL,
                         removed_at |-> NULL, opens |-> TRUE]
    <2> DEFINE old == [k \in Kids |-> EndPending(Dated(rows[k], r), c, a)]
    <2>1. rows' = WithKey(old, c, a)
      BY DEF Rotated
    <2>2. DOMAIN old = Kids /\ \A k \in Kids : old[k] = EndPending(Dated(rows[k], r), c, a)
      OBVIOUS
    <2> HIDE DEF old
    <2> QED
      BY <1>5, <2>1, <2>2 DEF WithKey, Kids
  <1>7. Kids' = 1..(Total + 1)
    BY <1>1, <1>6
  <1>8. Total' = Total + 1
    BY <1>1, <1>7, FS_Interval DEF Total
  <1>9. Numbered'
    BY <1>1, <1>7, <1>8, Constants DEF Numbered
  <1>10. \A k \in Kids : rows[k] \in SigningKeyRow
    BY DEF RowsOK, Sane
  <1>11. \A k \in Kids : MayDate(rows[k], rows'[k], r, c, a)
    BY <1>3, <1>4, <1>6, <1>10, RotatedRow
  <1> QED
    BY <1>1, <1>2, <1>3, <1>4, <1>5, <1>6, <1>7, <1>8, <1>9, <1>11
LEMMA RotationOK ==
  ASSUME RowsOK, clock \in Nat, NEW c \in Nat, NEW lead \in AllLeads, Timely(c),
         NewKid <= MaxKeys, rows' = Rotated(c, lead), clock' = clock,
         ended' = IF lead = 0 THEN [keys |-> Kids, at |-> clock] ELSE ended
  PROVE  /\ RowsOK' /\ RowsMove
         /\ DatesMove
         /\ Superseded => Superseded'
         /\ Presented /\ tokens' = tokens /\ tokens \in [1..MaxKeys -> Nat] => Presented'
  <1>1. PICK a, r, new : a = ActivateAt(c, lead) /\ r = RetireAt(c, lead) /\ new = NewKid
    OBVIOUS
  <1>2. /\ new = Total + 1 /\ Total' = Total + 1 /\ Total \in Nat
        /\ Kids = 1..Total /\ Kids' = 1..(Total + 1) /\ Kids' = Kids \cup {new}
        /\ Numbered' /\ new \notin Kids
        /\ a = c + lead /\ a \in Nat /\ r \in Nat /\ lead \in Nat
        /\ lead = 0 => r = c
        /\ lead # 0 => r = a + Allowance
        /\ rows'[new] = [created_at |-> c, activate_at |-> a, retire_at |-> NULL,
                         removed_at |-> NULL, opens |-> TRUE]
        /\ \A k \in Kids : MayDate(rows[k], rows'[k], r, c, a)
    BY <1>1, RotationRows
  <1>3. c <= clock /\ clock <= c + Lag /\ c \in Nat /\ c <= a /\ c <= r /\ a <= r
    BY <1>2, Constants DEF Timely
  <1>4. \A k \in Kids : /\ rows[k] \in SigningKeyRow /\ rows'[k] \in SigningKeyRow
                        /\ rows[k].created_at \in Nat /\ rows[k].activate_at \in Nat
                        /\ rows[k].retire_at \in Nat \cup {NULL}
                        /\ rows'[k].retire_at \in Nat \cup {NULL}
                        /\ rows[k].created_at <= clock
                        /\ rows'[k].created_at = rows[k].created_at
                        /\ rows'[k].activate_at = rows[k].activate_at
                        /\ rows'[k].removed_at = rows[k].removed_at
                        /\ rows[k].removed_at # NULL =>
                             /\ rows'[k] = rows[k]
                             /\ rows[k].retire_at # NULL /\ rows[k].retire_at <= clock
                        /\ NoLater(rows'[k].retire_at, rows[k].retire_at)
    <2> TAKE k \in Kids
    <2>1. Sane(rows[k], clock) /\ MayDate(rows[k], rows'[k], r, c, a)
      BY <1>2 DEF RowsOK
    <2>2. rows[k] \in SigningKeyRow /\ rows'[k] \in SigningKeyRow
      BY <2>1 DEF Sane, MayDate
    <2> QED
      BY <2>1, <2>2, RowFields DEF Sane, MayDate
  <1>5. \A k \in Kids : rows[k].removed_at = NULL =>
          /\ rows'[k].retire_at \in Nat /\ rows'[k].retire_at <= r
          /\ rows[k].activate_at > a => rows'[k].retire_at <= c
          /\ \/ rows'[k].retire_at = rows[k].retire_at
             \/ rows'[k].retire_at = r
             \/ rows[k].activate_at > a /\ rows'[k].retire_at = c
    BY <1>2 DEF MayDate
  <1>6. /\ rows'[new].created_at = c /\ rows'[new].activate_at = a
        /\ rows'[new].retire_at = NULL /\ rows'[new].removed_at = NULL
        /\ rows'[new] \in SigningKeyRow
    BY <1>2 DEF SigningKeyRow, Option
  <1>7. \A k \in Kids : k \in Nat /\ k < new
    BY <1>2
  <1>8. RowsOK'
    <2>1. Sane(rows'[new], clock)
      BY <1>2, <1>3, <1>6 DEF Sane
    <2>2. \A k \in Kids : Sane(rows'[k], clock)
      BY <1>4 DEF RowsOK, Sane
    <2>3. Followed'
      <3> SUFFICES ASSUME NEW k \in Kids, rows'[k].retire_at # NULL
          PROVE  \E i \in Kids' : EndedBy(i, k, rows'[k].retire_at, rows')
        BY <1>2, <1>6 DEF Followed
      <3>1. CASE rows'[k].retire_at = rows[k].retire_at
        <4>1. PICK i \in Kids : EndedBy(i, k, rows[k].retire_at, rows)
          BY <3>1 DEF RowsOK, Followed
        <4>2. EndedBy(i, k, rows'[k].retire_at, rows')
          BY <1>4, <3>1, <4>1 DEF EndedBy
        <4> QED
          BY <1>2, <4>2
      <3>2. CASE rows'[k].retire_at # rows[k].retire_at
        <4>1. EndedBy(new, k, rows'[k].retire_at, rows')
          BY <1>2, <1>3, <1>4, <1>5, <1>6, <1>7, <3>2 DEF EndedBy
        <4> QED
          BY <1>2, <4>1
      <3> QED
        BY <3>1, <3>2
    <2>4. EndedIsDated' /\ ended'.keys \subseteq Kids' /\ ended'.at \in 0..clock'
      <3>1. CASE lead = 0
        <4>1. ended'.keys = Kids /\ ended'.at = clock
          BY <3>1
        <4>2. \A k \in Kids : rows'[k].retire_at # NULL /\ rows'[k].retire_at <= clock
          <5> TAKE k \in Kids
          <5>1. CASE rows[k].removed_at = NULL
            <6>1. rows'[k].retire_at \in Nat /\ rows'[k].retire_at <= c
              BY <1>2, <1>5, <3>1, <5>1
            <6> QED
              BY <1>3, <6>1, Constants
          <5>2. CASE rows[k].removed_at # NULL
            BY <1>4, <5>2
          <5> QED
            BY <5>1, <5>2
        <4> QED
          BY <1>2, <4>1, <4>2 DEF EndedIsDated
      <3>2. CASE lead # 0
        <4>1. ended' = ended /\ ended.keys \subseteq Kids /\ ended.at \in 0..clock
          BY <3>2 DEF RowsOK
        <4>2. \A k \in ended.keys : rows'[k].retire_at # NULL /\ rows'[k].retire_at <= ended.at
          <5> TAKE k \in ended.keys
          <5>1. k \in Kids /\ rows[k].retire_at # NULL /\ rows[k].retire_at <= ended.at
            BY <4>1 DEF RowsOK, EndedIsDated
          <5>2. rows'[k].retire_at # NULL /\ rows'[k].retire_at <= rows[k].retire_at
            BY <1>4, <5>1 DEF NoLater
          <5> QED
            BY <1>4, <4>1, <5>1, <5>2, Constants
        <4> QED
          BY <1>2, <4>1, <4>2 DEF EndedIsDated
      <3> QED
        BY <3>1, <3>2
    <2> QED
      BY <1>2, <2>1, <2>2, <2>3, <2>4 DEF RowsOK
  <1>9. RowsMove
    <2>1. rows'[new].created_at + Lag >= clock
      BY <1>3, <1>6, Constants
    <2>2. \A k \in Kids : rows'[k].opens = rows[k].opens
      BY <1>2 DEF MayDate
    <2>3. Kids \subseteq Kids' /\ Total' \in Nat /\ Total <= Total' /\ clock' = clock
      BY <1>2
    <2>4. \A k \in Kids' \ Kids : k = new
      BY <1>2
    <2>5. ended' = ended \/ ended' = [keys |-> Kids, at |-> clock]
      BY Zenon
    <2> QED
      BY <1>4, <1>6, <2>1, <2>2, <2>3, <2>4, <2>5 DEF RowsMove
  <1>9a. Disturbed \subseteq Disturbed'
    BY <1>9, DisturbedMoves
  \* An ordinary rotation is one whose lead outlasts stale caches and slow writes.
  <1>9b. CASE lead <= MaxStale + 2 * Lag
    <2>1. ASSUME NEW k \in Kids PROVE k \in Disturbed'
      <3>1. CASE lead = 0
        <4>1. ended'.keys = Kids
          BY <3>1
        <4> QED
          BY <4>1 DEF Disturbed
      <3>2. CASE lead # 0
        <4>1. rows'[new].activate_at > rows'[new].created_at
          BY <1>2, <1>6, <3>2
        <4>2. rows'[new].activate_at <= rows'[new].created_at + MaxStale + 2 * Lag
          BY <1>2, <1>6, <1>9b, Constants
        <4>3. Disturbs(new, k)'
          BY <1>7, <4>1, <4>2 DEF Disturbs
        <4> QED
          BY <1>2, <4>3 DEF Disturbed
      <3> QED
        BY <3>1, <3>2
    <2>2. DatesMove
      BY <2>1 DEF DatesMove
    <2>3. Superseded'
      BY <1>2, <1>6, <2>1 DEF Superseded
    <2>4. ASSUME Presented, tokens' = tokens PROVE Presented'
      <3> SUFFICES ASSUME NEW k \in 1..MaxKeys, tokens[k] > clock
          PROVE  /\ k \in Kids'
                 /\ rows'[k].activate_at <= clock
                 /\ tokens[k] <= clock + Allowance
                 /\ k \in Disturbed'
        BY <2>4 DEF Presented
      <3>1. k \in Kids /\ rows[k].activate_at <= clock /\ tokens[k] <= clock + Allowance
        BY <2>4 DEF Presented
      <3> QED
        BY <1>2, <1>4, <2>1, <3>1
    <2> QED
      BY <1>8, <1>9, <2>2, <2>3, <2>4
  <1> SUFFICES ASSUME ~(lead <= MaxStale + 2 * Lag)
      PROVE  /\ RowsOK' /\ RowsMove /\ DatesMove
             /\ Superseded => Superseded'
             /\ Presented /\ tokens' = tokens /\ tokens \in [1..MaxKeys -> Nat] => Presented'
    BY <1>9b
  <1>10. lead # 0 /\ a > clock + Lag + MaxStale
    <2>1. MaxStale + 2 * Lag < lead
      BY <1>2, Constants
    <2> QED
      BY <1>2, <1>3, <2>1, Constants
  <1>11. DatesMove
    <2>1. r = a + Allowance
      BY <1>2, <1>10
    <2>2. ASSUME NEW k \in Kids
          PROVE  \/ rows'[k].retire_at = rows[k].retire_at
                 \/ rows[k].activate_at > a
                 \/ rows'[k].retire_at # NULL /\ rows'[k].retire_at = r
      <3>1. CASE rows[k].removed_at = NULL
        BY <1>5, <3>1, Constants
      <3>2. CASE rows[k].removed_at # NULL
        BY <1>4, <3>2
      <3> QED
        BY <3>1, <3>2
    <2>3. PICK t \in Nat : t = clock + Lag + MaxStale
      BY Constants
    <2>4. a > t /\ r > t + Allowance
      <3>1. Allowance \in Nat /\ a \in Nat
        BY <1>2, Constants
      <3> QED
        BY ONLY <1>10, <2>1, <2>3, <3>1
    <2>5. \A k \in Kids : rows[k].activate_at > a => rows[k].activate_at > t
      BY <1>2, <1>4, <2>3, <2>4
    <2> QED
      BY <2>2, <2>3, <2>4, <2>5 DEF DatesMove
  <1>12. ASSUME Superseded PROVE Superseded'
    <2> SUFFICES ASSUME NEW k \in Kids, k \notin Disturbed, k \notin Disturbed',
                        rows'[k].retire_at # NULL
        PROVE  \/ rows'[k].retire_at < rows'[k].activate_at
               \/ \E j \in Kids' : Outlives(j, k, rows'[k].retire_at, rows')
      BY <1>2, <1>6, <1>9a DEF Superseded
    <2>1. a > clock + Lag + MaxStale /\ r = a + Allowance
      BY <1>2, <1>10
    <2>2. rows'[k].retire_at \in Nat /\ rows'[k].retire_at <= r
      <3>1. CASE rows[k].removed_at = NULL
        BY <1>5, <3>1
      <3>2. CASE rows[k].removed_at # NULL
        <4>1. rows'[k].retire_at \in Nat /\ rows'[k].retire_at <= clock
          BY <1>4, <3>2
        <4>2. clock <= r
          <5>1. a \in Nat /\ Allowance \in Nat /\ Lag \in Nat /\ MaxStale \in Nat
            BY <1>2, Constants, Zenon
          <5> QED
            BY <2>1, <5>1
        <4>3. r \in Nat
          BY <1>2, Zenon
        <4> QED
          BY <4>1, <4>2, <4>3
      <3> QED
        BY <3>1, <3>2
    <2>3. CASE rows'[k].retire_at = rows[k].retire_at
      <3>1. CASE rows[k].retire_at < rows[k].activate_at
        BY <1>4, <2>3, <3>1
      <3>2. CASE \E j \in Kids : Outlives(j, k, rows[k].retire_at, rows)
        <4>1. PICK j \in Kids : Outlives(j, k, rows[k].retire_at, rows)
          BY <3>2
        <4>2. PICK d \in Nat : d = rows'[k].retire_at /\ d = rows[k].retire_at /\ d <= r
          BY <2>2, <2>3
        <4>3. Newer(rows', j, k)
          BY <1>4, <4>1 DEF Outlives, Newer
        <4>4. rows[j].activate_at + Allowance <= d /\ NoLater(d, rows[j].retire_at)
          BY <4>1, <4>2 DEF Outlives
        <4>5. rows[j].activate_at <= a
          <5>1. rows[j].activate_at \in Nat /\ a \in Nat /\ Allowance \in Nat
            BY <1>2, <1>4, Constants
          <5>2. rows[j].activate_at + Allowance <= d /\ d <= a + Allowance
            BY <2>1, <4>2, <4>4
          <5> QED
            BY <5>1, <5>2
        <4>6. NoLater(d, rows'[j].retire_at)
          <5>1. CASE rows[j].removed_at # NULL
            BY <1>4, <4>4, <5>1
          <5>2. CASE rows[j].removed_at = NULL
            <6>1. ~(rows[j].activate_at > a)
              BY <1>2, <1>4, <4>5
            <6>2. rows'[j].retire_at = rows[j].retire_at \/ rows'[j].retire_at = r
              BY <1>5, <5>2, <6>1
            <6> QED
              BY <1>2, <4>2, <4>4, <6>2, Constants DEF NoLater
          <5> QED
            BY <5>1, <5>2
        <4>7. Outlives(j, k, d, rows')
          BY <1>4, <4>3, <4>4, <4>6 DEF Outlives
        <4> QED
          BY <1>2, <4>2, <4>7
      <3> QED
        BY <1>12, <2>3, <3>1, <3>2 DEF Superseded
    <2>4. CASE rows'[k].retire_at # rows[k].retire_at /\ rows[k].activate_at > a
      <3>1. rows'[k].retire_at <= c
        BY <1>4, <1>5, <2>4
      <3> QED
        BY <1>2, <1>3, <1>4, <2>2, <2>4, <3>1
    <2>5. CASE rows'[k].retire_at # rows[k].retire_at /\ rows[k].activate_at <= a
      <3>1. rows'[k].retire_at = r
        <4>1. k \in Kids
          OBVIOUS
        <4>2. rows[k].removed_at = NULL
          BY <1>4, <2>5, <4>1
        <4>3. PICK act \in Nat : act = rows[k].activate_at /\ act <= a
          BY <1>4, <2>5, <4>1
        <4>4. ~(rows[k].activate_at > a)
          BY <1>2, <4>3
        <4> QED
          BY <1>5, <2>5, <4>1, <4>2, <4>4
      <3>2. Newer(rows', new, k)
        <4>1. CASE rows[k].activate_at < a
          BY <1>2, <1>4, <1>6, <4>1 DEF Newer
        <4>2. CASE rows[k].activate_at = a
          <5>1. ~Disturbs(new, k)'
            BY <1>2 DEF Disturbed
          <5>2. ~(c < rows[k].created_at)
            BY <1>4, <1>6, <1>7, <4>2, <5>1 DEF Disturbs
          <5>4. rows[k].created_at <= c
            BY <1>2, <1>4, <5>2
          <5> QED
            BY <1>4, <1>6, <1>7, <4>2, <5>4 DEF Newer
        <4> QED
          BY <1>2, <1>4, <2>5, <4>1, <4>2
      <3>3. Outlives(new, k, r, rows')
        BY <1>6, <2>1, <3>2, <1>2, Constants DEF Outlives, NoLater
      <3> QED
        BY <1>2, <3>1, <3>3
    <2> QED
      BY <1>2, <1>4, <2>3, <2>4, <2>5
  <1>13. ASSUME Presented, tokens' = tokens, tokens \in [1..MaxKeys -> Nat] PROVE Presented'
    <2> SUFFICES ASSUME NEW k \in 1..MaxKeys, tokens[k] > clock
        PROVE  /\ k \in Kids'
               /\ rows'[k].activate_at <= clock
               /\ tokens[k] <= clock + Allowance
               /\ \/ k \in Disturbed'
                  \/ rows'[k].removed_at = NULL /\ NoLater(tokens[k], rows'[k].retire_at)
      BY <1>13 DEF Presented
    <2>1. /\ k \in Kids /\ rows[k].activate_at <= clock /\ tokens[k] <= clock + Allowance
          /\ \/ k \in Disturbed
             \/ rows[k].removed_at = NULL /\ NoLater(tokens[k], rows[k].retire_at)
      BY <1>13 DEF Presented
    <2>2. k \in Kids' /\ rows'[k].activate_at <= clock
      BY <1>2, <1>4, <2>1
    <2>3. CASE k \in Disturbed
      BY <1>9a, <2>1, <2>2, <2>3
    <2>4. CASE rows[k].removed_at = NULL /\ NoLater(tokens[k], rows[k].retire_at)
      <3>1. a > clock + Lag + MaxStale /\ r = a + Allowance
        BY <1>2, <1>10
      <3>2. tokens[k] \in Nat
        BY <1>13
      <3>3. ~(rows[k].activate_at > a) /\ tokens[k] <= r
        <4>1. /\ a \in Nat /\ clock \in Nat /\ Lag \in Nat /\ MaxStale \in Nat
              /\ Allowance \in Nat
          BY <1>2, Constants, Zenon
        <4>2. rows[k].activate_at \in Nat
          BY <1>4, <2>1, Zenon
        <4>3. rows[k].activate_at <= clock /\ tokens[k] <= clock + Allowance
          BY <2>1, Zenon
        <4> QED
          BY ONLY <3>1, <3>2, <4>1, <4>2, <4>3
      <3>4. rows'[k].retire_at = rows[k].retire_at \/ rows'[k].retire_at = r
        BY <1>5, <2>1, <2>4, <3>3
      <3>5. NoLater(tokens[k], rows'[k].retire_at)
        BY <2>4, <3>2, <3>3, <3>4, <1>2, Constants DEF NoLater
      <3> QED
        BY <1>4, <2>1, <2>2, <2>4, <3>5
    <2> QED
      BY <2>1, <2>3, <2>4
  <1> QED
    BY <1>8, <1>9, <1>11, <1>12, <1>13
-----------------------------------------------------------------------------
(***************************************************************************)
(* The steps.                                                              *)
(***************************************************************************)
\* The rows stay, or move.
Onwards ==
    \/ rows' = rows /\ ended' = ended /\ clock' = clock
    \/ RowsMove

LEMMA CopyOnwards ==
  ASSUME RowsOK, Onwards, clock \in Nat, NEW K, NEW since \in Int, since <= clock,
         CopyOK(K, since)
  PROVE  CopyOK(K, since)'
  <1>1. CASE rows' = rows /\ ended' = ended
    BY <1>1, CopyStays
  <1>2. CASE RowsMove
    BY <1>2, CopyMoves
  <1> QED
    BY <1>1, <1>2 DEF Onwards

LEMMA JobOnwards ==
  ASSUME KeysInv, Onwards, NEW q \in Processes, job'[q] = job[q],
         boot' = boot \/ boot # "up"
  PROVE  JobOK(q)'
  <1>1. RowsOK /\ clock \in Nat /\ JobOK(q)
    BY Constants DEF KeysInv, KeysTypeOK, JobsOK
  <1>2. Kids \subseteq Kids' /\ clock' = clock
    BY DEF Onwards, RowsMove, Kids
  <1>3. ASSUME job[q].stage = "load" PROVE CopyOK(job[q].keys, job[q].at)'
    <2>1. PICK K, s : K = job[q].keys /\ s = job[q].at
      OBVIOUS
    <2>2. CopyOK(K, s) /\ s \in Int /\ s <= clock
      BY <1>1, <1>3, <2>1 DEF JobOK, Timely
    <2>3. CopyOK(K, s)'
      BY <1>1, <2>2, CopyOnwards
    <2>4. job'[q].keys = K /\ job'[q].at = s
      BY <2>1
    <2> QED
      BY <2>3, <2>4
  <1>4. job[q].stage = "prune" => job[q].left \subseteq Kids'
    BY <1>1, <1>2 DEF JobOK
  <1> QED
    BY <1>1, <1>2, <1>3, <1>4 DEF JobOK, Timely

LEMMA CacheOnwards ==
  ASSUME KeysInv, Onwards, cache' = cache, boot' = boot
  PROVE  CacheOK'
  <1>1. RowsOK /\ clock \in Nat /\ CacheOK /\ clock' = clock
    BY Constants DEF KeysInv, KeysTypeOK, Onwards, RowsMove
  <1>2. ASSUME cache # NULL PROVE CopyOK(cache.keys, cache.loaded_at - Lag)'
    <2>1. PICK K, s : K = cache.keys /\ s = cache.loaded_at - Lag
      OBVIOUS
    <2>2. CopyOK(K, s) /\ cache.loaded_at \in 0..clock
      BY <1>1, <1>2, <2>1 DEF CacheOK
    <2>3. s \in Int /\ s <= clock
      BY <1>1, <2>1, <2>2, Constants
    <2>4. CopyOK(K, s)'
      BY <1>1, <2>2, <2>3, CopyOnwards
    <2>5. cache'.keys = K /\ cache'.loaded_at - Lag = s
      BY <2>1
    <2> QED
      BY <2>4, <2>5
  <1> QED
    BY <1>1, <1>2 DEF CacheOK

LEMMA InformedOnwards ==
  ASSUME KeysInv, Onwards, verifier' = verifier, boot' = boot
  PROVE  Informed'
  <1>1. /\ RowsOK /\ clock \in Nat /\ Informed /\ clock' = clock /\ verifier.at \in Nat
        /\ verifier.at <= clock
    BY Constants DEF KeysInv, KeysTypeOK, Onwards, RowsMove
  <1>2. CASE rows' = rows
    BY <1>1, <1>2 DEF Informed, Kids
  <1>3. CASE RowsMove
    <2> SUFFICES ASSUME boot = "up", NEW k \in Kids',
                        rows'[k].created_at + 2 * Lag + MaxStale < verifier.at,
                        k \notin verifier.keys
        PROVE  rows'[k].retire_at # NULL /\ rows'[k].retire_at <= verifier.at
      BY <1>1 DEF Informed
    <2>1. CASE k \in Kids
      <3>1. /\ rows'[k].created_at = rows[k].created_at
            /\ NoLater(rows'[k].retire_at, rows[k].retire_at)
            /\ rows'[k] \in SigningKeyRow
        BY <1>3, <2>1 DEF RowsMove
      <3>2. rows[k].retire_at # NULL /\ rows[k].retire_at <= verifier.at
        BY <1>1, <2>1, <3>1 DEF Informed
      <3>3. rows'[k].retire_at # NULL /\ rows'[k].retire_at <= rows[k].retire_at
        BY <3>1, <3>2 DEF NoLater
      <3>4. rows[k].retire_at \in Nat /\ rows'[k].retire_at \in Nat
        BY <1>1, <2>1, <3>1, <3>2, <3>3, RowFields DEF RowsOK, Sane
      <3> QED
        BY <1>1, <3>2, <3>3, <3>4
    <2>2. CASE k \notin Kids
      <3>1. rows'[k].created_at \in Nat /\ rows'[k].created_at + Lag >= clock
        BY <1>3, <2>2, RowFields DEF RowsMove
      <3> QED
        BY <1>1, <3>1, Constants
    <2> QED
      BY <2>1, <2>2
  <1> QED
    BY <1>2, <1>3 DEF Onwards

\* A set published right after it is read leaves no key out.
LEMMA InformedMade ==
  RowsOK /\ clock \in Nat /\ verifier = [keys |-> PublishedAt(Loaded, clock), at |-> clock]
    => Informed /\ verifier.keys \subseteq Kids /\ verifier.at = clock
  <1> SUFFICES ASSUME RowsOK, clock \in Nat,
                      verifier = [keys |-> PublishedAt(Loaded, clock), at |-> clock]
      PROVE  Informed /\ verifier.keys \subseteq Kids /\ verifier.at = clock
    OBVIOUS
  <1>1. verifier.at = clock /\ verifier.keys = PublishedAt(Loaded, clock)
    OBVIOUS
  <1>2. /\ DOMAIN Loaded = {k \in Kids : rows[k].removed_at = NULL}
        /\ \A k \in DOMAIN Loaded : Loaded[k] = rows[k]
    BY DEF Loaded
  <1>3. \A k \in Kids : k \notin verifier.keys =>
          rows[k].retire_at # NULL /\ rows[k].retire_at <= clock
    <2> SUFFICES ASSUME NEW k \in Kids, k \notin verifier.keys
        PROVE  rows[k].retire_at # NULL /\ rows[k].retire_at <= clock
      OBVIOUS
    <2>1. Sane(rows[k], clock) /\ rows[k].retire_at \in Nat \cup {NULL}
      BY RowFields DEF RowsOK, Sane
    <2>2. CASE rows[k].removed_at # NULL
      BY <2>1, <2>2 DEF Sane
    <2>3. CASE rows[k].removed_at = NULL
      <3>1. ~IsPublished(rows[k], clock)
        BY <1>1, <1>2, <2>3 DEF PublishedAt
      <3> QED
        BY <2>1, <2>3, <3>1 DEF IsPublished
    <2> QED
      BY <2>2, <2>3
  <1>4. verifier.keys \subseteq Kids
    BY <1>1, <1>2 DEF PublishedAt
  <1>5. clock <= verifier.at + RefreshPeriod
    BY <1>1, Constants
  <1> QED
    BY <1>1, <1>3, <1>4, <1>5 DEF Informed

\* A copy put in the cache is not the absence of one.
LEMMA CacheIsThere ==
  ASSUME NEW K, NEW t \in Nat, Copied(K), RowsOK
  PROVE  [keys |-> K, loaded_at |-> t] # NULL
  <1>1. DOMAIN K \in SUBSET (1..MaxKeys)
    <2>1. \A k \in DOMAIN K : k \in Kids
      BY DEF Copied
    <2>2. \A k \in Kids : k \in 1..MaxKeys
      BY Constants DEF RowsOK, Numbered
    <2> QED
      BY <2>1, <2>2
  <1>2. K = [k \in DOMAIN K |-> K[k]] /\ \A k \in DOMAIN K : K[k] \in SigningKeyRow
    BY DEF Copied
  <1>3. K \in [DOMAIN K -> SigningKeyRow]
    BY <1>2, Zenon
  <1>4. K \in KeySet
    BY <1>1, <1>3 DEF KeySet
  <1> QED
    BY <1>4, CacheAssumption DEF KeyCache

\* A cache just filled with what was read at some moment is a good one.
LEMMA CacheFilled ==
  ASSUME NEW K, NEW since \in Int, NEW t \in Nat, t <= since + Lag, CopyOK(K, since)', RowsOK',
         cache' = [keys |-> K, loaded_at |-> t], boot' # "down", t <= clock', clock' \in Nat
  PROVE  CacheOK'
  <1>1. cache' # NULL
    <2>1. (Copied(K) /\ RowsOK => [keys |-> K, loaded_at |-> t] # NULL)'
      BY CacheIsThere, PTL
    <2> QED
      BY <2>1 DEF CopyOK
  <1>2. CopyOK(K, t - Lag)'
    <2>1. t - Lag \in Int /\ t - Lag <= since
      BY Constants
    <2>2. PICK s \in Int : s = t - Lag
      BY <2>1
    <2>3. \A k \in Kids' : rows'[k].created_at \in Nat
      BY RowFields DEF RowsOK, Sane
    <2>4. Covers(K, s)'
      BY <2>1, <2>2, <2>3, Constants DEF CopyOK, Covers
    <2>5. KnowsEnded(K, s)'
      BY <2>1, <2>2 DEF CopyOK, KnowsEnded, RowsOK
    <2>6. CopyOK(K, s)'
      BY <2>4, <2>5 DEF CopyOK
    <2> QED
      BY <2>2, <2>6
  <1>3. cache'.keys = K /\ cache'.loaded_at = t
    OBVIOUS
  <1> QED
    BY <1>1, <1>2, <1>3 DEF CacheOK
\* Facts every step uses.
LEMMA Sorts ==
  ASSUME KeysInv
  PROVE  /\ clock \in Nat /\ verifier.at \in Nat /\ verifier.at <= clock
         /\ RowsOK /\ CacheOK /\ JobsOK /\ Informed
         /\ tokens \in [1..MaxKeys -> Nat]
         /\ \A p \in Processes : JobOK(p)
  BY Constants DEF KeysInv, KeysTypeOK, JobsOK

\* What is sane stays so.
LEMMA SaneLater ==
  ASSUME NEW row, NEW t \in Nat, Sane(row, t)
  PROVE  Sane(row, t + 1)
  BY RowFields, Constants DEF Sane

\* An operation in progress remembers when it read the clock.
LEMMA JobsHaveTimes ==
  ASSUME NEW j, \/ j = [stage |-> "rotate", at |-> j.at, lead |-> j.lead]
                \/ j = [stage |-> "prune", at |-> j.at, left |-> j.left,
                         removed |-> j.removed]
                \/ j = [stage |-> "load", at |-> j.at, keys |-> j.keys]
  PROVE  "at" \in DOMAIN j
  <1>1. CASE j = [stage |-> "rotate", at |-> j.at, lead |-> j.lead]
    BY <1>1
  <1>2. CASE j = [stage |-> "prune", at |-> j.at, left |-> j.left, removed |-> j.removed]
    BY <1>2
  <1>3. CASE j = [stage |-> "load", at |-> j.at, keys |-> j.keys]
    BY <1>3
  <1> QED
    BY <1>1, <1>2, <1>3

LEMMA TickKeeps ==
  ASSUME KeysInv, ClockTick
  PROVE  KeysInv'
  <1> USE Sorts
  <1>1. /\ clock' = clock + 1 /\ clock' <= MaxClock /\ rows' = rows /\ cache' = cache
        /\ job' = job /\ boot' = boot /\ verifier' = verifier /\ ended' = ended
        /\ reboots' = reboots /\ Kids' = Kids /\ Total' = Total
    BY Constants DEF ClockTick, Kids, Total
  <1>2. KeysTypeOK'
    <2>1. tokens' \in [1..MaxKeys -> Nat]
      BY DEF ClockTick, Unexpired
    <2> QED
      BY <1>1, <2>1, Constants DEF KeysInv, KeysTypeOK
  <1>3. RowsOK'
    <2>1. \A k \in Kids : Sane(rows[k], clock')
      BY <1>1, SaneLater DEF RowsOK
    <2> QED
      BY <1>1, <2>1 DEF RowsOK, Numbered, Followed, EndedBy, EndedIsDated
  <1>4. CacheOK'
    <2>1. ASSUME cache # NULL PROVE CopyOK(cache.keys, cache.loaded_at - Lag)'
      <3>1. PICK K, s : K = cache.keys /\ s = cache.loaded_at - Lag
        OBVIOUS
      <3>2. CopyOK(K, s)'
        BY <1>1, <2>1, <3>1, CopyStays DEF CacheOK
      <3> QED
        BY <1>1, <3>1, <3>2
    <2> QED
      BY <1>1, <2>1 DEF CacheOK
  <1>5. ASSUME NEW p \in Processes, job[p].stage \in {"rotate", "prune", "load"}
        PROVE  clock - job[p].at < Lag
    <2>1. "at" \in DOMAIN job[p]
      <3>1. PICK j : j = job[p]
        OBVIOUS
      <3> QED
        BY <1>5, <3>1, JobsHaveTimes DEF JobOK
    <2> QED
      BY <2>1 DEF ClockTick
  <1>6. ASSUME NEW p \in Processes PROVE JobOK(p)'
    <2>1. \A t : Timely(t) /\ clock - t < Lag => Timely(t)'
      BY <1>1, Constants DEF Timely
    <2>2. ASSUME job[p].stage = "load" PROVE CopyOK(job[p].keys, job[p].at)'
      <3>1. PICK K, s : K = job[p].keys /\ s = job[p].at
        OBVIOUS
      <3>2. CopyOK(K, s)'
        BY <1>1, <2>2, <3>1, CopyStays DEF JobOK
      <3> QED
        BY <1>1, <3>1, <3>2
    <2>3. JobOK(p)
      OBVIOUS
    <2> QED
      BY <1>1, <1>5, <2>1, <2>2, <2>3 DEF JobOK
  <1>7. Informed'
    <2>1. boot = "up" => clock - verifier.at < RefreshPeriod
      BY DEF ClockTick
    <2> QED
      BY <1>1, <2>1, Constants DEF Informed
  <1> QED
    BY <1>1, <1>2, <1>3, <1>4, <1>6, <1>7 DEF KeysInv, JobsOK

LEMMA BootOpenKeeps ==
  ASSUME KeysInv, BootOpen
  PROVE  KeysInv'
  <1> USE Sorts
  <1>1. /\ clock' = clock /\ rows' = rows /\ job' = job /\ tokens' = tokens
        /\ ended' = ended /\ reboots' = reboots /\ Kids' = Kids /\ Total' = Total
        /\ boot' \in {"empty", "up"} /\ cache' = [keys |-> Loaded, loaded_at |-> clock]
        /\ verifier' = [keys |-> PublishedAt(Loaded, clock), at |-> clock]
    BY DEF BootOpen, Kids, Total
  <1>2. Onwards
    BY <1>1 DEF Onwards
  <1>3. RowsOK'
    BY <1>1 DEF RowsOK, Numbered, Followed, EndedBy, EndedIsDated
  <1>4. CacheOK'
    <2>1. PICK K : K = Loaded
      OBVIOUS
    <2>2. CopyOK(K, clock)
      BY <2>1, CopyMade
    <2>3. PICK t \in Nat : t = clock
      OBVIOUS
    <2>4. CopyOK(K, t)'
      BY <1>1, <2>2, <2>3, CopyStays
    <2> QED
      BY <1>1, <1>3, <2>1, <2>3, <2>4, CacheFilled, Constants
  <1>5. Informed' /\ verifier'.keys \subseteq Kids' /\ verifier'.at = clock'
    <2>1. Loaded' = Loaded
      BY <1>1 DEF Loaded, Kids
    <2>2. (RowsOK /\ clock \in Nat
             /\ verifier = [keys |-> PublishedAt(Loaded, clock), at |-> clock]
           => Informed /\ verifier.keys \subseteq Kids /\ verifier.at = clock)'
      BY InformedMade, PTL
    <2>3. (PublishedAt(Loaded, clock))' = PublishedAt(Loaded, clock)
      BY <1>1, <2>1 DEF PublishedAt, IsPublished
    <2> QED
      BY <1>1, <1>3, <2>2, <2>3
  <1>6. JobsOK'
    BY <1>1, <1>2, JobOnwards DEF JobsOK, BootOpen
  <1>7. KeysTypeOK'
    BY <1>1, <1>5 DEF KeysInv, KeysTypeOK
  <1> QED
    BY <1>3, <1>4, <1>5, <1>6, <1>7 DEF KeysInv

LEMMA BootInsertKeeps ==
  ASSUME KeysInv, BootInsert
  PROVE  KeysInv'
  <1> USE Sorts
  <1>1. /\ clock' = clock /\ job' = job /\ tokens' = tokens /\ ended' = ended
        /\ reboots' = reboots /\ boot' = "up" /\ NewKid <= MaxKeys
        /\ cache' = [keys |-> Loaded', loaded_at |-> clock]
        /\ verifier' = [keys |-> PublishedAt(Loaded', clock), at |-> clock]
        /\ FirstKey
    BY DEF BootInsert, FirstKey
  <1>2. RowsOK' /\ RowsMove
    BY <1>1, FirstKeyOK
  <1>3. Onwards
    BY <1>2 DEF Onwards
  <1>4. CacheOK'
    <2>1. (RowsOK /\ clock \in Nat => CopyOK(Loaded, clock))'
      BY CopyMade, PTL
    <2>2. CopyOK(Loaded, clock)'
      BY <1>1, <1>2, <2>1
    <2>3. PICK t \in Nat : t = clock
      OBVIOUS
    <2>4. PICK K : K = Loaded'
      OBVIOUS
    <2>5. CopyOK(K, t)'
      BY <1>1, <2>2, <2>3, <2>4
    <2> QED
      BY <1>1, <1>2, <2>3, <2>4, <2>5, CacheFilled, Constants
  <1>5. Informed' /\ verifier'.keys \subseteq Kids' /\ verifier'.at = clock'
    <2>2. (RowsOK /\ clock \in Nat
             /\ verifier = [keys |-> PublishedAt(Loaded, clock), at |-> clock]
           => Informed /\ verifier.keys \subseteq Kids /\ verifier.at = clock)'
      BY InformedMade, PTL
    <2>3. (PublishedAt(Loaded, clock))' = PublishedAt(Loaded', clock)
      BY <1>1 DEF PublishedAt, IsPublished
    <2> QED
      BY <1>1, <1>2, <2>2, <2>3
  <1>6. JobsOK'
    BY <1>1, <1>3, JobOnwards DEF JobsOK, BootInsert
  <1>7. KeysTypeOK'
    BY <1>1, <1>5 DEF KeysInv, KeysTypeOK
  <1> QED
    BY <1>2, <1>4, <1>5, <1>6, <1>7 DEF KeysInv
\* What is left of JobsOK when one job changes.
LEMMA OneJob ==
  ASSUME KeysInv, Onwards, NEW p \in Processes, NEW j, job' = [job EXCEPT ![p] = j],
         JobOK(p)', boot' = boot
  PROVE  JobsOK'
  <1>1. DOMAIN job = Processes
    BY DEF KeysInv, JobsOK
  <1>2. \A q \in Processes : q # p => job'[q] = job[q]
    BY <1>1
  <1>3. \A q \in Processes : JobOK(q)'
    BY <1>2, JobOnwards
  <1> QED
    BY <1>1, <1>3 DEF JobsOK

LEMMA IdleOK ==
  ASSUME NEW p, job'[p] = Idle
  PROVE  JobOK(p)'
  BY DEF JobOK, Idle

LEMMA ReloadOK ==
  ASSUME NEW p, job'[p] = [stage |-> "reload"], p # Cli, boot' = "up"
  PROVE  JobOK(p)'
  BY DEF JobOK

LEMMA KillKeeps ==
  ASSUME KeysInv, Kill
  PROVE  KeysInv'
  <1> USE Sorts
  <1>1. PICK lost :
          rows' = [k \in Kids |-> [rows[k] EXCEPT !.opens = @ /\ k \notin lost]]
    BY DEF Kill
  <1>2. /\ clock' = clock /\ tokens' = tokens /\ ended' = ended
        /\ reboots' = reboots + 1 /\ reboots' <= MaxReboots /\ boot' = "down"
        /\ cache' = NULL
        /\ job' = [p \in Processes |-> IF p = Cli THEN job[p] ELSE Idle]
        /\ verifier' = [keys |-> {}, at |-> clock]
    BY Constants DEF Kill, KeysInv, KeysTypeOK
  <1>3. Kids' = Kids /\ Total' = Total
    BY <1>1 DEF Kids, Total
  <1>4. RowsKept
    <2>1. ASSUME NEW k \in Kids
          PROVE  /\ rows'[k] \in SigningKeyRow
                 /\ rows'[k].created_at = rows[k].created_at
                 /\ rows'[k].activate_at = rows[k].activate_at
                 /\ rows'[k].retire_at = rows[k].retire_at
                 /\ rows'[k].removed_at = rows[k].removed_at
      <3>1. rows[k] \in SigningKeyRow
        BY DEF RowsOK, Sane
      <3>2. rows'[k] = [rows[k] EXCEPT !.opens = rows[k].opens /\ k \notin lost]
        BY <1>1
      <3> QED
        BY <3>1, <3>2 DEF SigningKeyRow
    <2> QED
      BY <1>2, <1>3, <2>1 DEF RowsKept
  <1>5. RowsOK'
    BY <1>4, RowsKeptOK
  <1>6. CacheOK'
    BY <1>2 DEF CacheOK
  <1>7. ASSUME NEW p \in Processes PROVE JobOK(p)'
    <2>1. CASE p = Cli
      <3>1. job'[p] = job[p] /\ job[p].stage \in {"idle", "rotate"}
        BY <1>2, <2>1 DEF JobOK
      <3>2. JobOK(p)
        OBVIOUS
      <3> QED
        BY <1>2, <2>1, <3>1, <3>2 DEF JobOK, Timely
    <2>2. CASE p # Cli
      BY <1>2, <2>2, IdleOK
    <2> QED
      BY <2>1, <2>2
  <1>8. JobsOK'
    BY <1>2, <1>7 DEF JobsOK
  <1>9. Informed'
    BY <1>2 DEF Informed
  <1>10. KeysTypeOK'
    BY <1>2, <1>3, Constants DEF KeysInv, KeysTypeOK
  <1> QED
    BY <1>5, <1>6, <1>8, <1>9, <1>10 DEF KeysInv

\* Steps of a thread that leave the rows alone.
LEMMA QuietStep ==
  ASSUME KeysInv, NEW p \in Processes, NEW j, job' = [job EXCEPT ![p] = j], JobOK(p)',
         UNCHANGED <<clock, rows, cache, boot, tokens, verifier, ended, reboots>>
  PROVE  KeysInv'
  <1>1. Onwards
    BY DEF Onwards
  <1>2. JobsOK'
    BY <1>1, OneJob
  <1>3. RowsOK'
    BY DEF KeysInv, RowsOK, Numbered, Followed, EndedBy, EndedIsDated, Kids, Total
  <1>4. CacheOK' /\ Informed'
    BY <1>1, CacheOnwards, InformedOnwards
  <1>5. KeysTypeOK'
    BY DEF KeysInv, KeysTypeOK, Kids
  <1> QED
    BY <1>2, <1>3, <1>4, <1>5 DEF KeysInv

LEMMA ReloadReadKeeps ==
  ASSUME KeysInv, NEW p \in Processes, ReloadRead(p)
  PROVE  KeysInv'
  <1> USE Sorts
  <1>1. p # Cli
    <2>1. p \in Threads \/ job[p].stage = "reload"
      BY DEF ReloadRead, ReloadDue
    <2> QED
      BY <2>1, Constants DEF JobOK
  <1>0. boot = "up"
    BY <1>1 DEF ReloadRead, ReloadDue, JobOK
  <1>2. PICK K : K = Loaded
    OBVIOUS
  <1>3. PICK t \in Nat : t = clock
    OBVIOUS
  <1>4. PICK j : j = [stage |-> "load", at |-> t, keys |-> K]
    OBVIOUS
  <1>5. /\ job' = [job EXCEPT ![p] = j]
        /\ UNCHANGED <<clock, rows, cache, boot, tokens, verifier, ended, reboots>>
    BY <1>2, <1>3, <1>4 DEF ReloadRead
  <1>6. job'[p] = j
    BY <1>5 DEF JobsOK
  <1>7. CopyOK(K, t)'
    BY <1>2, <1>3, <1>5, CopyMade, CopyStays
  <1>8. JobOK(p)'
    BY <1>0, <1>1, <1>3, <1>4, <1>5, <1>6, <1>7, Constants DEF JobOK, Timely
  <1> QED
    BY <1>5, <1>8, QuietStep

LEMMA ReloadInstallKeeps ==
  ASSUME KeysInv, NEW p \in Processes, ReloadInstall(p)
  PROVE  KeysInv'
  <1> USE Sorts
  <1>1. /\ job[p].stage = "load" /\ cache' = [keys |-> job[p].keys, loaded_at |-> clock]
        /\ job' = [job EXCEPT ![p] = Idle]
        /\ UNCHANGED <<clock, rows, boot, tokens, verifier, ended, reboots>>
    BY DEF ReloadInstall, Loading
  <1>2. Onwards
    BY <1>1 DEF Onwards
  <1>3. job'[p] = Idle
    BY <1>1 DEF JobsOK
  <1>4. JobsOK'
    BY <1>1, <1>2, <1>3, OneJob, IdleOK
  <1>5. RowsOK'
    BY <1>1 DEF RowsOK, Numbered, Followed, EndedBy, EndedIsDated, Kids, Total
  <1>6. Informed'
    BY <1>1, <1>2, InformedOnwards
  <1>7. KeysTypeOK'
    BY <1>1 DEF KeysInv, KeysTypeOK, Kids
  <1>8. CacheOK'
    <2>1. JobOK(p)
      OBVIOUS
    <2>2. boot = "up" /\ Timely(job[p].at) /\ CopyOK(job[p].keys, job[p].at)
      BY <1>1, <2>1 DEF JobOK
    <2>3. PICK s \in Nat : s = job[p].at
      BY <2>2 DEF Timely
    <2>4. PICK K : K = job[p].keys
      OBVIOUS
    <2>5. PICK t \in Nat : t = clock
      OBVIOUS
    <2>6. CopyOK(K, s)'
      BY <1>1, <2>2, <2>3, <2>4, CopyStays
    <2> QED
      BY <1>1, <1>5, <2>2, <2>3, <2>4, <2>5, <2>6, CacheFilled, Constants DEF Timely
  <1> QED
    BY <1>4, <1>5, <1>6, <1>7, <1>8 DEF KeysInv
LEMMA FailKeeps ==
  ASSUME KeysInv, NEW p \in Processes, ReloadFails(p) \/ RotateFails(p)
  PROVE  KeysInv'
  <1>1. /\ job' = [job EXCEPT ![p] = Idle]
        /\ UNCHANGED <<clock, rows, cache, boot, tokens, verifier, ended, reboots>>
    BY DEF ReloadFails, RotateFails
  <1>2. job'[p] = Idle
    BY <1>1, Sorts DEF JobsOK
  <1> QED
    BY <1>1, <1>2, IdleOK, QuietStep

LEMMA RotateStartKeeps ==
  ASSUME KeysInv, NEW p \in Processes, NEW lead, RotateStart(p, lead)
  PROVE  KeysInv'
  <1> USE Sorts
  <1>1. lead \in AllLeads /\ (p # Cli => boot = "up")
    BY DEF RotateStart, CliMayAsk, AdminMayAsk, AllLeads
  <1>2. PICK t \in Nat : t = clock
    OBVIOUS
  <1>3. PICK j : j = [stage |-> "rotate", at |-> t, lead |-> lead]
    OBVIOUS
  <1>4. /\ job' = [job EXCEPT ![p] = j]
        /\ UNCHANGED <<clock, rows, cache, boot, tokens, verifier, ended, reboots>>
    BY <1>2, <1>3 DEF RotateStart
  <1>5. job'[p] = j
    BY <1>4 DEF JobsOK
  <1>6. JobOK(p)'
    BY <1>1, <1>2, <1>3, <1>4, <1>5, Constants DEF JobOK, Timely
  <1> QED
    BY <1>4, <1>6, QuietStep

LEMMA PruneStartKeeps ==
  ASSUME KeysInv, NEW p \in Processes, PruneStart(p)
  PROVE  KeysInv'
  <1> USE Sorts
  <1>1. p # Cli /\ boot = "up"
    BY Constants DEF PruneStart
  <1>2. PICK t \in Nat : t = clock
    OBVIOUS
  <1>3. PICK due : due = Due(clock)
    OBVIOUS
  <1>4. PICK j : j = [stage |-> "prune", at |-> t, left |-> due, removed |-> FALSE]
    OBVIOUS
  <1>5. /\ job' = [job EXCEPT ![p] = j]
        /\ UNCHANGED <<clock, rows, cache, boot, tokens, verifier, ended, reboots>>
    BY <1>2, <1>3, <1>4 DEF PruneStart
  <1>6. job'[p] = j
    BY <1>5 DEF JobsOK
  <1>7. due \subseteq Kids'
    BY <1>3, <1>5 DEF Due, Kids
  <1>8. JobOK(p)'
    <2>1. PICK no \in BOOLEAN : no = FALSE
      OBVIOUS
    <2>2. /\ j.stage = "prune" /\ j.at = t /\ j.left = due /\ j.removed = no
          /\ j = [stage |-> "prune", at |-> j.at, left |-> j.left, removed |-> j.removed]
      BY <1>4, <2>1
    <2>3. Timely(t)'
      BY <1>2, <1>5, Constants DEF Timely
    <2> QED
      BY <1>1, <1>5, <1>6, <1>7, <2>1, <2>2, <2>3 DEF JobOK
  <1> QED
    BY <1>5, <1>8, QuietStep

\* A step of one thread that moves the rows.
LEMMA WriteStep ==
  ASSUME KeysInv, NEW p \in Processes, NEW j, job' = [job EXCEPT ![p] = j], JobOK(p)',
         RowsMove, RowsOK', UNCHANGED <<clock, cache, boot, tokens, verifier, reboots>>
  PROVE  KeysInv'
  <1>1. Onwards
    BY DEF Onwards
  <1>2. JobsOK'
    BY <1>1, OneJob
  <1>3. CacheOK' /\ Informed'
    BY <1>1, CacheOnwards, InformedOnwards
  <1>4. KeysTypeOK'
    BY DEF KeysInv, KeysTypeOK, RowsMove
  <1> QED
    BY <1>2, <1>3, <1>4 DEF KeysInv

\* What a rotation that commits computed.
LEMMA RotateCommits ==
  ASSUME KeysInv, NEW p \in Processes, RotateCommit(p)
  PROVE  \E c \in Nat, lead \in AllLeads :
           /\ Timely(c) /\ NewKid <= MaxKeys
           /\ rows' = Rotated(c, lead) /\ clock' = clock
           /\ ended' = IF lead = 0 THEN [keys |-> Kids, at |-> clock] ELSE ended
  <1>1. JobOK(p) /\ job[p].stage = "rotate"
    BY Sorts DEF RotateCommit
  <1>2. job[p].at \in Nat /\ job[p].lead \in AllLeads /\ Timely(job[p].at)
    BY <1>1 DEF JobOK, Timely
  <1> QED
    BY <1>2 DEF RotateCommit

LEMMA RotateCommitKeeps ==
  ASSUME KeysInv, NEW p \in Processes, RotateCommit(p)
  PROVE  KeysInv'
  <1> USE Sorts
  <1>1. RowsMove /\ RowsOK'
    BY RotateCommits, RotationOK
  <1>2. PICK j : j = IF p = Cli THEN Idle ELSE [stage |-> "reload"]
    OBVIOUS
  <1>3. /\ job' = [job EXCEPT ![p] = j] /\ job[p].stage = "rotate"
        /\ UNCHANGED <<clock, cache, boot, tokens, verifier, reboots>>
    BY <1>2 DEF RotateCommit
  <1>4. job'[p] = j
    BY <1>3 DEF JobsOK
  <1>5. JobOK(p)'
    <2>1. CASE p = Cli
      BY <1>2, <1>4, <2>1, IdleOK
    <2>2. CASE p # Cli
      <3>1. boot' = "up"
        BY <1>3, <2>2 DEF JobOK
      <3> QED
        BY <1>2, <1>4, <2>2, <3>1, ReloadOK
    <2> QED
      BY <2>1, <2>2
  <1> QED
    BY <1>1, <1>3, <1>5, WriteStep

\* A removal, or its failure.
LEMMA PruneRemoves ==
  ASSUME KeysInv, NEW p \in Processes, NEW k, PruneRemove(p, k)
  PROVE  RowsKept /\ RowsMove /\ DatesMove
  <1> USE Sorts
  <1>1. JobOK(p) /\ job[p].stage = "prune" /\ k \in job[p].left
    BY DEF PruneRemove
  <1>2. PICK at \in Nat : at = job[p].at /\ at <= clock
    BY <1>1 DEF JobOK, Timely
  <1>3. k \in Kids
    BY <1>1 DEF JobOK
  <1>4. PICK removed \in BOOLEAN :
          /\ removed => k \in Due(at)
          /\ rows' = [rows EXCEPT ![k].removed_at = IF removed THEN at ELSE @]
    <2>1. \E removed \in {k \in Due(job[p].at)} \cup {b \in {FALSE} : "store" \in KeyFaults} :
            rows' = [rows EXCEPT ![k].removed_at = IF removed THEN job[p].at ELSE @]
      BY Zenon DEF PruneRemove
    <2>2. \A removed \in {k \in Due(job[p].at)} \cup {b \in {FALSE} : "store" \in KeyFaults} :
            removed \in BOOLEAN /\ (removed => k \in Due(job[p].at))
      BY Zenon
    <2> QED
      BY <1>2, <2>1, <2>2
  <1>5. Kids' = Kids /\ Total' = Total /\ clock' = clock /\ ended' = ended
    BY <1>4 DEF Kids, Total, PruneRemove
  <1>6. ASSUME NEW q \in Kids
        PROVE  /\ rows'[q] \in SigningKeyRow
               /\ rows'[q].created_at = rows[q].created_at
               /\ rows'[q].activate_at = rows[q].activate_at
               /\ rows'[q].opens = rows[q].opens
               /\ rows'[q].retire_at = rows[q].retire_at
               /\ rows'[q].removed_at = IF q = k /\ removed THEN at ELSE rows[q].removed_at
    <2>1. rows[q] \in SigningKeyRow
      BY DEF RowsOK, Sane
    <2>2. CASE q # k
      <3>1. rows'[q] = rows[q]
        BY <1>4, <2>2 DEF Kids
      <3> QED
        BY <2>1, <2>2, <3>1
    <2>3. CASE q = k
      <3>1. rows'[q] = [rows[q] EXCEPT !.removed_at = IF removed THEN at ELSE rows[q].removed_at]
        BY <1>4, <2>3 DEF Kids
      <3> QED
        BY <2>1, <2>3, <3>1 DEF SigningKeyRow, Option
    <2> QED
      BY <2>2, <2>3
  <1>7. removed => /\ rows[k].removed_at = NULL /\ rows[k].retire_at # NULL
                   /\ rows[k].retire_at <= at /\ rows[k].retire_at \in Nat
    <2>1. rows[k].retire_at \in Nat \cup {NULL}
      BY <1>3, RowFields DEF RowsOK, Sane
    <2> QED
      BY <1>4, <2>1 DEF Due
  <1>8. removed => rows[k].retire_at <= clock
    BY <1>2, <1>7
  <1>9. at # NULL
    BY <1>2, Constants
  <1>10. RowsKept
    BY <1>5, <1>6, <1>7, <1>8, <1>9 DEF RowsKept
  <1>11. \A q \in Kids : NoLater(rows'[q].retire_at, rows[q].retire_at)
    <2> TAKE q \in Kids
    <2>1. rows[q].retire_at \in Nat \cup {NULL}
      BY RowFields DEF RowsOK, Sane
    <2> QED
      BY <1>6, <2>1 DEF NoLater
  <1>12. Total \in Nat
    BY Constants DEF RowsOK, Numbered
  <1>13. RowsMove
    BY <1>5, <1>6, <1>9, <1>11, <1>12 DEF RowsMove
  <1>14. DatesMove
    BY <1>5, <1>6 DEF DatesMove
  <1> QED
    BY <1>10, <1>13, <1>14

LEMMA PruneJob ==
  ASSUME NEW j, NEW A, NEW L, NEW B,
         j = [stage |-> "prune", at |-> j.at, left |-> j.left, removed |-> j.removed],
         j.at \in A, j.left \in L, j.removed \in B
  PROVE  j \in [stage : {"prune"}, at : A, left : L, removed : B]
  OBVIOUS

LEMMA PruneJobUpdate ==
  ASSUME NEW A, NEW L, NEW B, NEW j \in [stage : {"prune"}, at : A, left : L, removed : B],
         NEW l \in L, NEW b \in B, NEW next, next = [j EXCEPT !.left = l, !.removed = b]
  PROVE  /\ next.stage = "prune" /\ next.at = j.at /\ next.left = l /\ next.removed = b
         /\ next = [stage |-> "prune", at |-> next.at, left |-> next.left,
                    removed |-> next.removed]
  <1>1. /\ next \in [stage : {"prune"}, at : A, left : L, removed : B]
        /\ next.at = j.at /\ next.left = l /\ next.removed = b
    OBVIOUS
  <1>2. next = [stage |-> "prune", at |-> next.at, left |-> next.left,
                removed |-> next.removed]
    BY <1>1
  <1> QED
    BY <1>1, <1>2

LEMMA PruneRemoveKeeps ==
  ASSUME KeysInv, NEW p \in Processes, NEW k, PruneRemove(p, k)
  PROVE  KeysInv'
  <1> USE Sorts
  <1>1. RowsKept /\ RowsMove
    BY PruneRemoves
  <1>2. RowsOK'
    BY <1>1, RowsKeptOK
  <1>3. JobOK(p) /\ job[p].stage = "prune" /\ p # Cli /\ boot = "up"
    BY DEF PruneRemove, JobOK
  <1>4a. PICK was : was = job[p]
    OBVIOUS
  <1>4. PICK now \in BOOLEAN :
          LET rest == [was EXCEPT !.left = @ \ {k}, !.removed = @ \/ now]
          IN  job' = [job EXCEPT ![p] = IF rest.left # {} THEN rest
                                        ELSE IF rest.removed THEN [stage |-> "reload"]
                                        ELSE Idle]
    <2>1. \E now \in {k \in Due(job[p].at)} \cup {b \in {FALSE} : "store" \in KeyFaults} :
             LET rest == [job[p] EXCEPT !.left = @ \ {k}, !.removed = @ \/ now]
             IN  job' = [job EXCEPT ![p] = IF rest.left # {} THEN rest
                                           ELSE IF rest.removed THEN [stage |-> "reload"]
                                           ELSE Idle]
      BY Zenon DEF PruneRemove
    <2>2. {k \in Due(job[p].at)} \cup {b \in {FALSE} : "store" \in KeyFaults} \subseteq BOOLEAN
      BY Zenon
    <2> QED
      BY <1>4a, <2>1, <2>2, Zenon
  <1>5. PICK rest : rest = [was EXCEPT !.left = @ \ {k}, !.removed = @ \/ now]
    OBVIOUS
  <1>6. /\ was = [stage |-> "prune", at |-> was.at, left |-> was.left, removed |-> was.removed]
        /\ Timely(was.at) /\ was.left \subseteq Kids /\ was.removed \in BOOLEAN
    BY <1>3, <1>4a DEF JobOK
  <1>7. PICK more \in BOOLEAN : more = (was.removed \/ now)
    BY Zenon
  <1>8. /\ rest.stage = "prune" /\ rest.at = was.at /\ rest.left = was.left \ {k}
        /\ rest.removed = more
        /\ rest = [stage |-> "prune", at |-> rest.at, left |-> rest.left,
                   removed |-> rest.removed]
    <2>1. PICK l : l = was.left \ {k}
      OBVIOUS
    <2>2. rest = [was EXCEPT !.left = l, !.removed = more]
      BY <1>5, <1>7, <2>1, Zenon
    <2>3. PICK L : L = {was.left, l}
      OBVIOUS
    <2>4. was \in [stage : {"prune"}, at : {was.at}, left : L, removed : BOOLEAN]
      BY <1>6, <2>3, PruneJob, Zenon
    <2>5. l \in L
      BY <2>3
    <2> QED
      BY <1>7, <2>1, <2>2, <2>4, <2>5, PruneJobUpdate
  <1>9. PICK j : j = IF rest.left # {} THEN rest
                     ELSE IF rest.removed THEN [stage |-> "reload"]
                     ELSE Idle
    OBVIOUS
  <1>10. job' = [job EXCEPT ![p] = j]
    BY <1>4, <1>5, <1>9
  <1>11. job'[p] = j
    BY <1>10 DEF JobsOK
  <1>12. UNCHANGED <<clock, cache, boot, tokens, verifier, reboots>> /\ Kids' = Kids
    BY <1>1 DEF PruneRemove, RowsKept
  <1>13. JobOK(p)'
    <2>1. CASE j = rest
      <3>1. /\ j.stage = "prune" /\ j.at = was.at /\ j.left = was.left \ {k}
            /\ j.removed = more
            /\ j = [stage |-> "prune", at |-> j.at, left |-> j.left, removed |-> j.removed]
        BY <1>8, <2>1, Zenon
      <3>2. Timely(was.at)'
        BY <1>6, <1>12 DEF Timely
      <3> QED
        BY <1>3, <1>6, <1>7, <1>11, <1>12, <3>1, <3>2 DEF JobOK
    <2>2. CASE j = [stage |-> "reload"]
      BY <1>3, <1>11, <1>12, <2>2, ReloadOK
    <2>3. CASE j = Idle
      BY <1>11, <2>3, IdleOK
    <2> QED
      BY <1>9, <2>1, <2>2, <2>3, Zenon
  <1> QED
    BY <1>1, <1>2, <1>10, <1>12, <1>13, WriteStep

\* A broker uses its cache, whatever the reloads do, for MaxStale at most.
LEMMA UsableCache ==
  ASSUME KeysInv, Usable
  PROVE  /\ boot = "up" /\ cache # NULL /\ cache.loaded_at \in Nat
         /\ cache.loaded_at <= clock /\ clock <= cache.loaded_at + MaxStale
         /\ CopyOK(cache.keys, cache.loaded_at - Lag)
  <1>1. boot = "up" /\ (CacheAge < ReloadInterval \/ CacheAge <= MaxStale)
    BY DEF Usable
  <1>2. /\ cache # NULL /\ cache.loaded_at \in 0..clock
        /\ CopyOK(cache.keys, cache.loaded_at - Lag)
    BY <1>1, Sorts DEF CacheOK
  <1> QED
    BY <1>1, <1>2, Sorts, Constants DEF CacheAge

LEMMA SignKeeps ==
  ASSUME KeysInv, NEW ttl \in 1..MaxTtl, Sign(ttl)
  PROVE  KeysInv'
  <1> USE Sorts
  <1>1. UNCHANGED <<clock, rows, cache, job, boot, verifier, ended, reboots>>
    BY DEF Sign
  <1>2. tokens' \in [1..MaxKeys -> Nat]
    <2>1. PICK until : until = clock + ttl + RetireMargin
      OBVIOUS
    <2>2. PICK k \in DOMAIN cache.keys :
            tokens' = tokens \/ tokens' = Signed(tokens, k, until)
      BY <2>1 DEF Sign
    <2>3. until \in Nat
      BY <2>1, Constants
    <2> QED
      BY <2>2, <2>3 DEF Signed
  <1>3. Onwards
    BY <1>1 DEF Onwards
  <1>4. RowsOK'
    BY <1>1 DEF RowsOK, Numbered, Followed, EndedBy, EndedIsDated, Kids, Total
  <1>5. CacheOK' /\ Informed' /\ JobsOK'
    BY <1>1, <1>3, CacheOnwards, InformedOnwards, JobOnwards DEF JobsOK
  <1>6. KeysTypeOK'
    BY <1>1, <1>2 DEF KeysInv, KeysTypeOK, Kids
  <1> QED
    BY <1>4, <1>5, <1>6 DEF KeysInv

LEMMA FetchKeeps ==
  ASSUME KeysInv, Fetch
  PROVE  KeysInv'
  <1> USE Sorts
  <1>1. /\ UNCHANGED <<clock, rows, cache, job, boot, tokens, ended, reboots>>
        /\ Usable /\ verifier' = [keys |-> Jwks, at |-> clock]
    BY DEF Fetch
  <1>2. Onwards
    BY <1>1 DEF Onwards
  <1>3. RowsOK'
    BY <1>1 DEF RowsOK, Numbered, Followed, EndedBy, EndedIsDated, Kids, Total
  <1>4. CacheOK' /\ JobsOK'
    BY <1>1, <1>2, CacheOnwards, JobOnwards DEF JobsOK
  <1>5. /\ boot = "up" /\ cache # NULL /\ cache.loaded_at \in Nat
        /\ cache.loaded_at <= clock /\ clock <= cache.loaded_at + MaxStale
        /\ CopyOK(cache.keys, cache.loaded_at - Lag)
    BY <1>1, UsableCache
  <1>6. verifier'.keys = PublishedAt(cache.keys, clock) /\ verifier'.at = clock
    BY <1>1 DEF Jwks
  <1>7. Informed'
    <2> SUFFICES ASSUME NEW k \in Kids,
                        rows[k].created_at + 2 * Lag + MaxStale < clock,
                        k \notin PublishedAt(cache.keys, clock)
        PROVE  rows[k].retire_at # NULL /\ rows[k].retire_at <= clock
      BY <1>1, <1>6, Constants DEF Informed, Kids
    <2>1. Sane(rows[k], clock)
      BY DEF RowsOK
    <2>2. rows[k].created_at \in Nat /\ rows[k].retire_at \in Nat \cup {NULL}
      BY <2>1, RowFields DEF Sane
    <2>3. rows[k].created_at + Lag < cache.loaded_at - Lag
      <3>1. PICK made \in Nat, filled \in Nat :
              /\ made = rows[k].created_at /\ filled = cache.loaded_at
              /\ clock <= filled + MaxStale /\ made + 2 * Lag + MaxStale < clock
        BY <1>5, <2>2
      <3>2. made + Lag < filled - Lag
        <4>1. \A m, f, t, l, s \in Nat :
                t <= f + s /\ m + 2 * l + s < t => m + l < f - l
          OBVIOUS
        <4>2. clock \in Nat /\ Lag \in Nat /\ MaxStale \in Nat
          BY Constants
        <4> QED
          BY <3>1, <4>1, <4>2
      <3> QED
        BY <3>1, <3>2
    <2>4. k \in DOMAIN cache.keys \/ rows[k].removed_at # NULL
      BY <1>5, <2>3 DEF CopyOK, Covers
    <2>5. CASE rows[k].removed_at # NULL
      BY <2>1, <2>5 DEF Sane
    <2>6. CASE k \in DOMAIN cache.keys
      <3>1. /\ cache.keys[k].removed_at = NULL /\ cache.keys[k] \in SigningKeyRow
            /\ NoLater(rows[k].retire_at, cache.keys[k].retire_at)
        BY <1>5, <2>6 DEF CopyOK, Copied
      <3>2. cache.keys[k].retire_at \in Nat \cup {NULL}
        BY <3>1, RowFields
      <3>3. cache.keys[k].retire_at # NULL /\ cache.keys[k].retire_at <= clock
        BY <2>6, <3>1, <3>2 DEF PublishedAt, IsPublished
      <3> QED
        BY <2>2, <3>1, <3>2, <3>3 DEF NoLater
    <2> QED
      BY <2>4, <2>5, <2>6
  <1>8. verifier'.keys \subseteq Kids'
    BY <1>1, <1>5, <1>6 DEF PublishedAt, CopyOK, Copied, Kids
  <1>9. KeysTypeOK'
    BY <1>1, <1>6, <1>8 DEF KeysInv, KeysTypeOK, Kids
  <1> QED
    BY <1>3, <1>4, <1>7, <1>9 DEF KeysInv

LEMMA KeysInit ==
  SigningInit => KeysInv
  <1> SUFFICES ASSUME SigningInit PROVE KeysInv
    OBVIOUS
  <1>1. /\ clock = 0 /\ cache = NULL /\ boot = "down" /\ reboots = 0
        /\ job = [p \in Processes |-> Idle]
        /\ tokens = [k \in 1..MaxKeys |-> 0]
        /\ verifier = [keys |-> {}, at |-> 0] /\ ended = [keys |-> {}, at |-> 0]
    BY DEF SigningInit
  <1>2. Kids = {} /\ Total = 0
    <2>1. Kids = {}
      BY DEF SigningInit, Kids
    <2> QED
      BY <2>1, FS_EmptySet DEF Total
  <1>3. RowsOK
    BY <1>1, <1>2, Constants DEF RowsOK, Numbered, Followed, EndedIsDated
  <1>4. JobsOK
    <2>1. \A p \in Processes : JobOK(p)
      BY <1>1 DEF JobOK, Idle
    <2> QED
      BY <1>1, <2>1 DEF JobsOK
  <1>5. CacheOK /\ Informed
    BY <1>1 DEF CacheOK, Informed
  <1>6. KeysTypeOK
    BY <1>1, <1>2, Constants DEF KeysTypeOK
  <1> QED
    BY <1>3, <1>4, <1>5, <1>6 DEF KeysInv

LEMMA KeysStep ==
  KeysInv /\ [SigningNext]_signingVars => KeysInv'
  <1> SUFFICES ASSUME KeysInv, [SigningNext]_signingVars PROVE KeysInv'
    OBVIOUS
  <1>1. CASE ClockTick
    BY <1>1, TickKeeps
  <1>2. CASE BootOpen
    BY <1>2, BootOpenKeeps
  <1>3. CASE BootInsert
    BY <1>3, BootInsertKeeps
  <1>4. CASE Kill
    BY <1>4, KillKeeps
  <1>5. CASE Fetch
    BY <1>5, FetchKeeps
  <1>6. ASSUME NEW ttl \in 1..MaxTtl, Sign(ttl) PROVE KeysInv'
    BY <1>6, SignKeeps
  <1>7. ASSUME NEW p \in Processes, ReloadRead(p) PROVE KeysInv'
    BY <1>7, ReloadReadKeeps
  <1>8. ASSUME NEW p \in Processes, ReloadInstall(p) PROVE KeysInv'
    BY <1>8, ReloadInstallKeeps
  <1>9. ASSUME NEW p \in Processes, ReloadFails(p) \/ RotateFails(p) PROVE KeysInv'
    BY <1>9, FailKeeps
  <1>10. ASSUME NEW p \in Processes, NEW lead, RotateStart(p, lead) PROVE KeysInv'
    BY <1>10, RotateStartKeeps
  <1>11. ASSUME NEW p \in Processes, RotateCommit(p) PROVE KeysInv'
    BY <1>11, RotateCommitKeeps
  <1>12. ASSUME NEW p \in Processes, PruneStart(p) PROVE KeysInv'
    BY <1>12, PruneStartKeeps
  <1>13. ASSUME NEW p \in Processes, NEW k, PruneRemove(p, k) PROVE KeysInv'
    BY <1>13, PruneRemoveKeeps
  <1>14. CASE UNCHANGED signingVars
    <2>1. UNCHANGED <<clock, rows, cache, job, boot, tokens, verifier, ended, reboots>>
      BY <1>14 DEF signingVars
    <2>2. Onwards
      BY <2>1 DEF Onwards
    <2>3. RowsOK'
      BY <2>1 DEF KeysInv, RowsOK, Numbered, Followed, EndedBy, EndedIsDated, Kids, Total
    <2>4. CacheOK' /\ Informed' /\ JobsOK'
      BY <2>1, <2>2, CacheOnwards, InformedOnwards, JobOnwards DEF KeysInv, JobsOK
    <2>5. KeysTypeOK'
      BY <2>1 DEF KeysInv, KeysTypeOK, Kids
    <2> QED
      BY <2>3, <2>4, <2>5 DEF KeysInv
  <1> QED
    BY <1>1, <1>2, <1>3, <1>4, <1>5, <1>6, <1>7, <1>8, <1>9, <1>10, <1>11, <1>12, <1>13, <1>14
       DEF SigningNext

-----------------------------------------------------------------------------
\* What is known of the rows, of every copy of them and of the verifier holds in every
\* reachable state, whatever leads the administrators ask for.
THEOREM KeysAreKept == SigningSpec => []KeysInv
  <1>1. SigningInit => KeysInv
    BY KeysInit
  <1>2. KeysInv /\ [SigningNext]_signingVars => KeysInv'
    BY KeysStep
  <1> QED
    BY <1>1, <1>2, PTL DEF SigningSpec

LEMMA StraysInit ==
  SigningInit => StraysTypeOK
  BY Constants DEF SigningInit, StraysTypeOK

LEMMA StraysStep ==
  ASSUME KeysInv, StraysTypeOK, [SigningNext]_signingVars
  PROVE  StraysTypeOK'
  <1>1. CASE strays' = strays
    BY <1>1 DEF StraysTypeOK
  <1>2. CASE ClockTick
    BY <1>2, Sorts DEF ClockTick, Unexpired, StraysTypeOK
  <1>3. ASSUME NEW ttl \in 1..MaxTtl, Sign(ttl) PROVE StraysTypeOK'
    <2>1. PICK until : until = clock + ttl + RetireMargin
      OBVIOUS
    <2>2. PICK k \in DOMAIN cache.keys :
            strays' = strays \/ strays' = Signed(strays, k, until)
      BY <1>3, <2>1 DEF Sign
    <2>3. until \in Nat
      BY <2>1, Sorts, Constants
    <2> QED
      BY <2>2, <2>3 DEF Signed, StraysTypeOK
  <1>4. ASSUME NEW p \in Processes,
               \/ ReloadRead(p) \/ ReloadInstall(p) \/ ReloadFails(p)
               \/ \E lead \in Leads \cup {0, PublishLead} : RotateStart(p, lead)
               \/ RotateCommit(p) \/ RotateFails(p) \/ PruneStart(p)
               \/ \E k \in 1..MaxKeys : PruneRemove(p, k)
        PROVE  strays' = strays
    BY <1>4 DEF ReloadRead, ReloadInstall, ReloadFails, RotateStart, RotateCommit, RotateFails,
                PruneStart, PruneRemove
  <1> QED
    BY <1>1, <1>2, <1>3, <1>4
       DEF SigningNext, BootOpen, BootInsert, Kill, Fetch, signingVars

THEOREM StraysAreKept == SigningSpec => []StraysTypeOK
  <1>1. SigningInit => StraysTypeOK
    BY StraysInit
  <1>2. KeysInv /\ StraysTypeOK /\ [SigningNext]_signingVars => StraysTypeOK'
    BY StraysStep
  <1> QED
    BY <1>1, <1>2, KeysAreKept, PTL DEF SigningSpec

LEMMA EmergencyHolds ==
  KeysInv => EmergencyTakesEffect
  <1> SUFFICES ASSUME KeysInv, Usable, clock > ended.at + MaxStale + Lag,
                      NEW k \in ended.keys, k \in Jwks
      PROVE  FALSE
    BY DEF EmergencyTakesEffect
  <1>1. /\ cache.loaded_at \in Nat
        /\ cache.loaded_at <= clock /\ clock <= cache.loaded_at + MaxStale
        /\ CopyOK(cache.keys, cache.loaded_at - Lag)
    BY UsableCache
  <1>2. clock \in Nat /\ ended.at \in Nat /\ ended.at <= clock
    BY Sorts DEF RowsOK
  <1>3. cache.loaded_at - Lag > ended.at
    BY <1>1, <1>2, Constants
  <1>4. k \in DOMAIN cache.keys /\ IsPublished(cache.keys[k], clock)
    BY DEF Jwks, PublishedAt
  <1>5. cache.keys[k].retire_at # NULL /\ cache.keys[k].retire_at <= ended.at
    BY <1>1, <1>3, <1>4 DEF CopyOK, KnowsEnded
  <1>6. cache.keys[k].retire_at \in Nat
    BY <1>1, <1>4, <1>5, RowFields DEF CopyOK, Copied
  <1> QED
    BY <1>2, <1>4, <1>5, <1>6 DEF IsPublished

\* An immediate rotation takes effect: past the longest time a cache may be used after
\* it was read, a broker publishes none of the keys the rotation ended, be it made by
\* another process or overtaken by a reload that had read the rows before it.
THEOREM EmergencyRotationTakesEffect == SigningSpec => []EmergencyTakesEffect
  BY KeysAreKept, EmergencyHolds, PTL
-----------------------------------------------------------------------------
(***************************************************************************)
(* The keys that sign.                                                     *)
(***************************************************************************)
\* Of some keys that have started one is the newest.
LEMMA NewestExists ==
  ASSUME NEW keys, NEW n \in Nat, NEW t \in Nat, NEW S \in SUBSET (0..n), S # {},
         \A k \in S : keys[k].activate_at \in 0..t /\ keys[k].created_at \in 0..t
  PROVE  \E k \in S : \A j \in S : ~Newer(keys, j, k)
  <1> DEFINE A == {keys[k].activate_at : k \in S}
  <1>1. A \in SUBSET (0..t) /\ A # {}
    OBVIOUS
  <1>2. PICK a \in A : \A b \in A : b <= a
    <2> HIDE DEF A
    <2> QED
      BY <1>1, HasGreatest
  <1> DEFINE T == {k \in S : keys[k].activate_at = a}
             C == {keys[k].created_at : k \in T}
  <1>3. C \in SUBSET (0..t) /\ C # {}
    OBVIOUS
  <1>4. PICK c \in C : \A b \in C : b <= c
    <2> HIDE DEF C
    <2> QED
      BY <1>3, HasGreatest
  <1> DEFINE U == {k \in T : keys[k].created_at = c}
  <1>5. U \in SUBSET (0..n) /\ U # {}
    OBVIOUS
  <1>6. PICK k \in U : \A j \in U : j <= k
    <2> HIDE DEF U
    <2> QED
      BY <1>5, HasGreatest
  <1>7. k \in S /\ keys[k].activate_at = a /\ keys[k].created_at = c /\ k \in 0..n
    BY <1>6
  <1>8. ASSUME NEW j \in S, Newer(keys, j, k) PROVE FALSE
    <2>1. keys[j].activate_at \in Nat /\ keys[j].created_at \in Nat /\ j \in Nat
      OBVIOUS
    <2>2. keys[j].activate_at <= a /\ a \in Nat /\ c \in Nat
      <3>1. keys[j].activate_at \in A /\ a \in 0..t /\ c \in 0..t
        BY <1>1, <1>2, <1>3, <1>4
      <3> QED
        BY <1>2, <3>1
    <2>3. keys[j].activate_at = a
      BY <1>7, <1>8, <2>1, <2>2 DEF Newer
    <2>4. keys[j].created_at <= c
      BY <1>4, <2>3
    <2>5. keys[j].created_at = c /\ j > k
      BY <1>7, <1>8, <2>1, <2>2, <2>3, <2>4 DEF Newer
    <2>6. j <= k
      BY <1>6, <2>3, <2>5
    <2> QED
      BY <1>7, <2>1, <2>5, <2>6
  <1> QED
    BY <1>7, <1>8

\* If one key of a copy has started, one that may sign has.
LEMMA OneIsPublished ==
  ASSUME NEW K, Copied(K), Whole(K), RowsOK, clock \in Nat,
         NEW first \in DOMAIN K, ~(K[first].activate_at > clock)
  PROVE  Activated(K, clock) # {}
  <1>1. PICK m \in 0..Total :
          /\ DOMAIN K \subseteq 1..m
          /\ \A k \in 1..m : k \notin DOMAIN K => rows[k].removed_at # NULL
          /\ \A k \in 1..m : DateIn(K, k) # NULL =>
               \E i \in 1..m : EndedBy(i, k, DateIn(K, k), rows)
    BY DEF Whole
  <1>2. Total \in Nat /\ Kids = 1..Total /\ m \in Nat /\ m <= Total
    BY <1>1, Constants DEF RowsOK, Numbered
  <1> HIDE DEF Total
  <1>3. \A k \in 1..m : /\ k \in Kids /\ Sane(rows[k], clock)
                        /\ rows[k].activate_at \in Nat
                        /\ rows[k].retire_at \in Nat \cup {NULL}
    <2>1. \A k \in 1..m : k \in Kids
      BY <1>2
    <2> QED
      BY <2>1, RowFields DEF RowsOK, Sane
  <1>4. \A k \in DOMAIN K : /\ K[k].activate_at = rows[k].activate_at
                            /\ K[k].retire_at \in Nat \cup {NULL}
                            /\ K[k].removed_at = NULL
    BY RowFields DEF Copied
  <1> DEFINE S == {k \in 1..m : rows[k].activate_at <= clock}
  <1>5. S \in SUBSET (0..m) /\ S # {}
    <2>1. first \in S
      BY <1>1, <1>3, <1>4
    <2> QED
      BY <1>2, <2>1
  <1>6. PICK last \in S : \A k \in S : k <= last
    <2> HIDE DEF S
    <2> QED
      BY <1>2, <1>5, HasGreatest
  <1>7. ASSUME DateIn(K, last) # NULL, DateIn(K, last) <= clock PROVE FALSE
    <2>1. PICK i \in 1..m : EndedBy(i, last, DateIn(K, last), rows)
      BY <1>1, <1>6, <1>7
    <2>2. DateIn(K, last) \in Nat
      BY <1>3, <1>4, <1>6, <1>7 DEF DateIn
    <2>3. rows[i].activate_at <= clock
      BY <1>3, <1>6, <1>7, <2>1, <2>2 DEF EndedBy
    <2>4. i <= last
      BY <1>6, <2>3
    <2> QED
      BY <1>6, <2>1, <2>4 DEF EndedBy
  <1>8. last \in DOMAIN K
    <2> SUFFICES ASSUME last \notin DOMAIN K PROVE FALSE
      OBVIOUS
    <2>1. rows[last].removed_at # NULL /\ DateIn(K, last) = rows[last].retire_at
      BY <1>1, <1>6 DEF DateIn
    <2>2. rows[last].retire_at # NULL /\ rows[last].retire_at <= clock
      BY <1>3, <1>6, <2>1 DEF Sane
    <2> QED
      BY <1>7, <2>1, <2>2
  <1>9. IsPublished(K[last], clock)
    <2>1. DateIn(K, last) = K[last].retire_at
      BY <1>8 DEF DateIn
    <2>2. K[last].retire_at = NULL \/ K[last].retire_at > clock
      BY <1>4, <1>7, <1>8, <2>1
    <2> QED
      BY <1>4, <1>8, <2>2 DEF IsPublished
  <1>10. last \in Activated(K, clock)
    BY <1>4, <1>6, <1>8, <1>9 DEF Activated, PublishedAt
  <1> QED
    BY <1>10

LEMMA NoGap ==
  KeysInv => NoSigningGap
  <1> SUFFICES ASSUME KeysInv, boot = "up", \A k \in Kids : rows[k].opens,
                      NEW first \in DOMAIN cache.keys, ~(cache.keys[first].activate_at > clock)
      PROVE  \E k \in DOMAIN cache.keys : Signs(cache.keys, k, clock)
    BY Zenon DEF NoSigningGap
  <1> USE Sorts
  <1>1. PICK K : K = cache.keys
    OBVIOUS
  <1>2. Copied(K) /\ Whole(K)
    BY <1>1 DEF CacheOK, CopyOK
  <1>3. \A k \in DOMAIN K : /\ k \in Kids /\ K[k] \in SigningKeyRow
                            /\ K[k].opens = rows[k].opens
                            /\ K[k].activate_at = rows[k].activate_at
                            /\ K[k].created_at = rows[k].created_at
    BY <1>2 DEF Copied
  <1>4. \A k \in DOMAIN K : K[k].opens
    BY <1>3, Zenon
  <1>5. \A k \in DOMAIN K : /\ k \in 0..MaxKeys
                            /\ K[k].activate_at \in Nat /\ K[k].created_at \in Nat
                            /\ K[k].created_at <= clock
    <2>1. \A k \in Kids : k \in 0..MaxKeys /\ rows[k].created_at <= clock
      BY Constants DEF RowsOK, Numbered, Sane
    <2> QED
      BY <1>3, <2>1, RowFields
  <1> DEFINE S == Activated(K, clock)
  <1>6. S # {}
    BY <1>1, <1>2, OneIsPublished
  <1>7. S \subseteq DOMAIN K /\ \A k \in S : K[k].activate_at <= clock
    BY DEF Activated, PublishedAt
  <1>8. PICK k \in S : \A j \in S : ~Newer(K, j, k)
    <2>1. \A k \in S : K[k].activate_at \in 0..clock /\ K[k].created_at \in 0..clock
      BY <1>5, <1>7
    <2>2. S \in SUBSET (0..MaxKeys) /\ MaxKeys \in Nat
      BY <1>5, <1>7, Constants
    <2>3. PICK t \in Nat : t = clock
      OBVIOUS
    <2>4. PICK T : T = S
      OBVIOUS
    <2>5. \A k \in T : K[k].activate_at \in 0..t /\ K[k].created_at \in 0..t
      BY <2>1, <2>3, <2>4
    <2>6. \E k \in T : \A j \in T : ~Newer(K, j, k)
      BY <1>6, <2>2, <2>4, <2>5, NewestExists
    <2> QED
      BY <2>4, <2>6
  <1>9. Signs(K, k, clock)
    BY <1>4, <1>7, <1>8, Zenon DEF Signs
  <1> QED
    BY <1>1, <1>7, <1>9

\* The console and the signer agree by the shape of the rows alone.
LEMMA ShownSigns ==
  ShownKeySigns
  <1> SUFFICES ASSUME cache.keys = Loaded, \A k \in Kids : rows[k].opens, NEW k \in Kids
      PROVE  ShownState(k) = "signing" <=> k \in DOMAIN cache.keys /\ Signs(cache.keys, k, clock)
    BY Zenon DEF ShownKeySigns
  <1>1. /\ DOMAIN Loaded = {j \in Kids : rows[j].removed_at = NULL}
        /\ \A j \in DOMAIN Loaded : Loaded[j] = rows[j]
    BY DEF Loaded
  <1>2. PublishedAt(Loaded, clock) = PublishedAt(rows, clock)
    BY <1>1 DEF PublishedAt, IsPublished, Kids
  <1>3. /\ Activated(Loaded, clock) = Activated(rows, clock)
        /\ Activated(rows, clock) \subseteq PublishedAt(rows, clock)
        /\ PublishedAt(rows, clock) \subseteq DOMAIN Loaded
    BY <1>1, <1>2 DEF Activated, PublishedAt
  <1>4. \A j, i \in DOMAIN Loaded : Newer(Loaded, j, i) <=> Newer(rows, j, i)
    BY <1>1 DEF Newer
  <1>5. ShownState(k) = "signing" <=>
          k \in Activated(rows, clock) /\ \A j \in Activated(rows, clock) : ~Newer(rows, j, k)
    <2>1. k \in Activated(rows, clock) => rows[k].removed_at = NULL /\ k \in PublishedAt(rows, clock)
      BY <1>1, <1>3
    <2> QED
      BY <2>1 DEF ShownState
  <1>6. \A j \in DOMAIN Loaded : Loaded[j].opens
    BY <1>1, Zenon
  <1> QED
    BY <1>3, <1>4, <1>5, <1>6, Zenon DEF Signs
-----------------------------------------------------------------------------
(***************************************************************************)
(* Dates that follow from leads.                                           *)
(***************************************************************************)
\* The rows stay while time passes, or move as leads let them.
InTime ==
    \/ rows' = rows /\ ended' = ended /\ clock' \in Nat /\ clock <= clock'
    \/ RowsMove /\ DatesMove

LEMMA CopySignsInTime ==
  ASSUME RowsOK, InTime, clock \in Nat, NEW K, Copied(K), NEW horizon \in Int,
         horizon <= clock + Lag + MaxStale, CopySigns(K, horizon)
  PROVE  CopySigns(K, horizon)'
  <1>1. Disturbed \subseteq Disturbed'
    BY DisturbedStays, DisturbedMoves DEF InTime
  <1>2. clock' \in Nat /\ clock <= clock'
    BY DEF InTime, RowsMove
  <1>3. \A k \in DOMAIN K : K[k].retire_at \in Nat \cup {NULL}
    BY RowFields DEF Copied
  <1>4. SupersededIn(K)'
    <2> SUFFICES ASSUME NEW k \in DOMAIN K, k \notin Disturbed', K[k].retire_at # NULL
        PROVE  \/ K[k].retire_at <= clock'
               \/ K[k].retire_at < K[k].activate_at
               \/ \E j \in DOMAIN K : Outlives(j, k, K[k].retire_at, K)
      BY DEF SupersededIn
    <2>1. \/ K[k].retire_at <= clock
          \/ K[k].retire_at < K[k].activate_at
          \/ \E j \in DOMAIN K : Outlives(j, k, K[k].retire_at, K)
      BY <1>1 DEF CopySigns, SupersededIn
    <2> QED
      BY <1>2, <1>3, <2>1
  <1>5. LaterOnly(K, horizon)'
    <2>1. CASE rows' = rows /\ ended' = ended
      BY <2>1, LaterStays DEF CopySigns
    <2>2. CASE RowsMove /\ DatesMove
      BY <2>2, LaterMoves DEF CopySigns
    <2> QED
      BY <2>1, <2>2 DEF InTime
  <1> QED
    BY <1>4, <1>5 DEF CopySigns

LEMMA CopySignsMade ==
  RowsOK /\ Superseded /\ clock \in Nat => \A h : CopySigns(Loaded, h)
  <1> SUFFICES ASSUME RowsOK, Superseded, clock \in Nat, NEW h PROVE CopySigns(Loaded, h)
    OBVIOUS
  <1> DEFINE K == Loaded
  <1>1. /\ DOMAIN K = {k \in Kids : rows[k].removed_at = NULL}
        /\ \A k \in DOMAIN K : k \in Kids /\ K[k] = rows[k]
    BY DEF Loaded
  <1> HIDE DEF K
  <1>2. LaterOnly(K, h)
    BY <1>1, Zenon DEF LaterOnly
  <1>3. SupersededIn(K)
    <2> SUFFICES ASSUME NEW k \in DOMAIN K, k \notin Disturbed, K[k].retire_at # NULL
        PROVE  \/ K[k].retire_at <= clock
               \/ K[k].retire_at < K[k].activate_at
               \/ \E j \in DOMAIN K : Outlives(j, k, K[k].retire_at, K)
      BY DEF SupersededIn
    <2>1. k \in Kids /\ K[k] = rows[k]
      BY <1>1
    <2>2. CASE rows[k].retire_at < rows[k].activate_at
      BY <2>1, <2>2
    <2>3. CASE \E j \in Kids : Outlives(j, k, rows[k].retire_at, rows)
      <3>1. PICK j \in Kids : Outlives(j, k, rows[k].retire_at, rows)
        BY <2>3
      <3>2. CASE j \in DOMAIN K
        <4>1. Outlives(j, k, K[k].retire_at, K)
          BY <1>1, <2>1, <3>1, <3>2 DEF Outlives, Newer
        <4> QED
          BY <3>2, <4>1
      <3>3. CASE j \notin DOMAIN K
        <4>1. rows[j].removed_at # NULL /\ Sane(rows[j], clock)
          BY <1>1, <3>3 DEF RowsOK
        <4>2. rows[j].retire_at # NULL /\ rows[j].retire_at <= clock
          BY <4>1 DEF Sane
        <4>3. rows[k].retire_at <= rows[j].retire_at
          BY <3>1, <4>2 DEF Outlives, NoLater
        <4>4. rows[j].retire_at \in Nat /\ rows[k].retire_at \in Nat
          BY <2>1, <4>1, <4>2, RowFields DEF RowsOK, Sane
        <4> QED
          BY <2>1, <4>2, <4>3, <4>4
      <3> QED
        BY <3>2, <3>3
    <2> QED
      BY <2>1, <2>2, <2>3 DEF Superseded
  <1>4. CopySigns(K, h)
    BY <1>2, <1>3 DEF CopySigns
  <1> QED
    BY <1>4 DEF K

LEMMA CacheSignsInTime ==
  ASSUME KeysInv, CopiesSign, InTime, cache' = cache, cache # NULL
  PROVE  CopySigns(cache.keys, cache.loaded_at + MaxStale)'
  <1> USE Sorts
  <1>1. PICK K : K = cache.keys
    OBVIOUS
  <1>2. cache.loaded_at \in Nat /\ cache.loaded_at <= clock /\ Copied(K)
    BY <1>1 DEF CacheOK, CopyOK
  <1>3. PICK h \in Nat : h = cache.loaded_at + MaxStale
    <2>1. cache.loaded_at \in Nat /\ MaxStale \in Nat
      BY <1>2, Constants, Zenon
    <2> QED
      BY ONLY <2>1
  <1>4. h <= clock + Lag + MaxStale
    <2>1. clock \in Nat /\ Lag \in Nat /\ MaxStale \in Nat
      BY Constants, Zenon
    <2> QED
      BY ONLY <1>2, <1>3, <2>1
  <1>5. CopySigns(K, h)
    BY <1>1, <1>3 DEF CopiesSign
  <1>6. CopySigns(K, h)'
    BY <1>2, <1>4, <1>5, CopySignsInTime
  <1> QED
    BY <1>1, <1>3, <1>6

LEMMA JobSignsInTime ==
  ASSUME KeysInv, CopiesSign, InTime, NEW q \in Processes, job'[q] = job[q],
         job[q].stage = "load"
  PROVE  CopySigns(job[q].keys, job[q].at + Lag + MaxStale)'
  <1> USE Sorts
  <1>1. PICK K : K = job[q].keys
    OBVIOUS
  <1>2. JobOK(q)
    OBVIOUS
  <1>3. job[q].at \in Nat /\ job[q].at <= clock /\ Copied(K)
    BY <1>1, <1>2 DEF JobOK, CopyOK, Timely
  <1>4. PICK h \in Nat : h = job[q].at + Lag + MaxStale
    <2>1. job[q].at \in Nat /\ Lag \in Nat /\ MaxStale \in Nat
      BY <1>3, Constants, Zenon
    <2> QED
      BY ONLY <2>1
  <1>5. h <= clock + Lag + MaxStale
    <2>1. clock \in Nat /\ Lag \in Nat /\ MaxStale \in Nat
      BY Constants, Zenon
    <2> QED
      BY ONLY <1>3, <1>4, <2>1
  <1>6. CopySigns(K, h)
    BY <1>1, <1>4 DEF CopiesSign
  <1>7. CopySigns(K, h)'
    BY <1>3, <1>5, <1>6, CopySignsInTime
  <1> QED
    BY <1>1, <1>4, <1>7

\* A step that fills no cache and starts no reload.
LEMMA SignsOn ==
  ASSUME KeysInv, CopiesSign, InTime, Superseded', cache' = cache \/ cache' = NULL,
         \A q \in Processes : job'[q] = job[q] \/ job'[q].stage # "load"
  PROVE  CopiesSign'
  <1>1. ASSUME cache' # NULL PROVE CopySigns(cache.keys, cache.loaded_at + MaxStale)'
    BY <1>1, CacheSignsInTime
  <1>2. ASSUME NEW q \in Processes, job'[q].stage = "load"
        PROVE  CopySigns(job[q].keys, job[q].at + Lag + MaxStale)'
    <2>1. job'[q] = job[q]
      BY <1>2
    <2> QED
      BY <1>2, <2>1, JobSignsInTime
  <1> QED
    BY <1>1, <1>2 DEF CopiesSign

\* The key that signs keeps the time it needs.
LEMMA SignedKeyLasts ==
  ASSUME KeysInv, CopiesSign, Usable, NEW k \in DOMAIN cache.keys,
         k \in Activated(cache.keys, clock), k \notin Disturbed,
         \A j \in Activated(cache.keys, clock) : ~Newer(cache.keys, j, k)
  PROVE  /\ k \in Kids /\ rows[k].activate_at <= clock
         /\ NoLater(clock + Allowance, rows[k].retire_at)
  <1> USE Sorts
  <1>1. PICK K : K = cache.keys
    OBVIOUS
  <1>2. PICK filled \in Nat : filled = cache.loaded_at /\ clock <= filled + MaxStale
    BY UsableCache
  <1>3. Copied(K) /\ CopySigns(K, filled + MaxStale)
    BY <1>1, <1>2, UsableCache DEF CopyOK, CopiesSign
  <1>4. /\ k \in Kids /\ K[k].activate_at = rows[k].activate_at
        /\ K[k].retire_at \in Nat \cup {NULL} /\ rows[k].retire_at \in Nat \cup {NULL}
        /\ rows[k].activate_at \in Nat
    BY <1>1, <1>3, RowFields DEF Copied, RowsOK, Sane
  <1>5. /\ K[k].activate_at <= clock
        /\ K[k].retire_at = NULL \/ K[k].retire_at > clock
    BY <1>1 DEF Activated, PublishedAt, IsPublished
  <1>5a. clock + Allowance # NULL
    BY Constants
  <1>6. \/ rows[k].retire_at = K[k].retire_at
        \/ rows[k].activate_at > filled + MaxStale
        \/ rows[k].retire_at # NULL /\ rows[k].retire_at > filled + MaxStale + Allowance
    BY <1>1, <1>3 DEF CopySigns, LaterOnly
  <1>7. CASE rows[k].activate_at > filled + MaxStale
    BY <1>2, <1>4, <1>5, <1>7, Constants
  <1>8. CASE rows[k].retire_at # NULL /\ rows[k].retire_at > filled + MaxStale + Allowance
    <2>1. clock + Allowance <= rows[k].retire_at
      BY <1>2, <1>4, <1>8, Constants
    <2> QED
      BY <1>4, <1>5, <1>5a, <1>8, <2>1 DEF NoLater
  <1>9. CASE rows[k].retire_at = K[k].retire_at
    <2>1. CASE K[k].retire_at = NULL
      BY <1>4, <1>5, <1>9, <2>1 DEF NoLater
    <2>2. CASE K[k].retire_at # NULL
      <3>1. K[k].retire_at \in Nat /\ K[k].retire_at > clock
        BY <1>4, <1>5, <2>2
      <3>2. PICK j \in DOMAIN K : Outlives(j, k, K[k].retire_at, K)
        <4>1. ~(K[k].retire_at <= clock) /\ ~(K[k].retire_at < K[k].activate_at)
          BY <1>4, <1>5, <3>1
        <4> QED
          BY <1>1, <1>3, <2>2, <4>1 DEF CopySigns, SupersededIn
      <3>3. K[j].activate_at \in Nat /\ K[j].retire_at \in Nat \cup {NULL} /\ K[j].removed_at = NULL
        BY <1>3, RowFields DEF Copied
      <3>4. IsPublished(K[j], clock)
        BY <3>1, <3>2, <3>3 DEF Outlives, NoLater, IsPublished
      <3>5. K[j].activate_at > clock
        BY <1>1, <3>2, <3>3, <3>4 DEF Activated, PublishedAt, Outlives
      <3>6. K[j].activate_at + Allowance <= K[k].retire_at
        BY <3>2 DEF Outlives
      <3>7. clock + Allowance <= K[k].retire_at
        BY <3>1, <3>3, <3>5, <3>6, Constants
      <3> QED
        BY <1>4, <1>5, <1>5a, <1>9, <2>2, <3>7 DEF NoLater
    <2> QED
      BY <2>1, <2>2
  <1> QED
    BY <1>6, <1>7, <1>8, <1>9
\* Steps that write nothing and sign nothing.
LEMMA QuietSigns ==
  ASSUME KeysInv, LeadsInv, rows' = rows, ended' = ended, clock' = clock, tokens' = tokens
  PROVE  InTime /\ Superseded' /\ Presented'
  <1>1. InTime
    BY Sorts DEF InTime
  <1>2. Superseded' /\ Presented'
    BY DisturbedStays DEF LeadsInv, CopiesSign, Superseded, Presented, Kids
  <1> QED
    BY <1>1, <1>2

LEMMA TickSigns ==
  ASSUME KeysInv, LeadsInv, ClockTick
  PROVE  LeadsInv'
  <1> USE Sorts
  <1>1. /\ clock' = clock + 1 /\ rows' = rows /\ cache' = cache /\ job' = job /\ ended' = ended
        /\ tokens' = [k \in DOMAIN tokens |-> IF tokens[k] > clock' THEN tokens[k] ELSE 0]
    BY DEF ClockTick, Unexpired
  <1>2. InTime
    BY <1>1 DEF InTime
  <1>3. Superseded'
    BY <1>1, DisturbedStays DEF LeadsInv, CopiesSign, Superseded, Kids
  <1>4. CopiesSign'
    BY <1>1, <1>2, <1>3, SignsOn DEF LeadsInv
  <1>5. Presented'
    <2> SUFFICES ASSUME NEW k \in 1..MaxKeys, tokens'[k] > clock'
        PROVE  /\ k \in Kids
               /\ rows[k].activate_at <= clock'
               /\ tokens'[k] <= clock' + Allowance
               /\ \/ k \in Disturbed
                  \/ rows[k].removed_at = NULL /\ NoLater(tokens'[k], rows[k].retire_at)
      BY <1>1, DisturbedStays DEF Presented, Kids
    <2>1. tokens[k] \in Nat /\ tokens'[k] = tokens[k] /\ tokens[k] > clock
      BY <1>1
    <2>2. /\ k \in Kids
          /\ rows[k].activate_at <= clock
          /\ tokens[k] <= clock + Allowance
          /\ \/ k \in Disturbed
             \/ rows[k].removed_at = NULL /\ NoLater(tokens[k], rows[k].retire_at)
      BY <2>1 DEF LeadsInv, Presented
    <2>3. rows[k].activate_at \in Nat
      BY <2>2, RowFields DEF RowsOK, Sane
    <2> QED
      BY <1>1, <2>1, <2>2, <2>3, Constants
  <1> QED
    BY <1>4, <1>5 DEF LeadsInv

LEMMA BootOpenSigns ==
  ASSUME KeysInv, LeadsInv, BootOpen
  PROVE  LeadsInv'
  <1> USE Sorts
  <1>1. /\ clock' = clock /\ rows' = rows /\ ended' = ended /\ tokens' = tokens /\ job' = job
        /\ cache' = [keys |-> Loaded, loaded_at |-> clock]
    BY DEF BootOpen
  <1>2. InTime /\ Superseded' /\ Presented'
    BY <1>1, QuietSigns
  <1>3. ASSUME NEW q \in Processes, job'[q].stage = "load"
        PROVE  CopySigns(job[q].keys, job[q].at + Lag + MaxStale)'
    BY <1>1, <1>2, <1>3, JobSignsInTime DEF LeadsInv
  <1>4. CopySigns(cache.keys, cache.loaded_at + MaxStale)'
    <2>1. PICK K, h : K = Loaded /\ h = clock + MaxStale
      OBVIOUS
    <2>2. CopySigns(K, h)
      BY <2>1, CopySignsMade DEF LeadsInv, CopiesSign
    <2>3. CopySigns(K, h)'
      BY <1>1, <2>2, LaterStays, DisturbedStays DEF CopySigns, SupersededIn
    <2> QED
      BY <1>1, <2>1, <2>3
  <1> QED
    BY <1>2, <1>3, <1>4 DEF LeadsInv, CopiesSign

LEMMA BootInsertSigns ==
  ASSUME KeysInv, KeysInv', LeadsInv, BootInsert
  PROVE  LeadsInv'
  <1> USE Sorts
  <1>1. /\ clock' = clock /\ job' = job /\ tokens' = tokens /\ ended' = ended
        /\ NewKid <= MaxKeys /\ FirstKey
        /\ cache' = [keys |-> Loaded', loaded_at |-> clock]
    BY DEF BootInsert, FirstKey
  <1>2. InTime /\ Superseded' /\ Presented'
    BY <1>1, FirstKeyOK DEF InTime, LeadsInv, CopiesSign
  <1>3. ASSUME NEW q \in Processes, job'[q].stage = "load"
        PROVE  CopySigns(job[q].keys, job[q].at + Lag + MaxStale)'
    BY <1>1, <1>2, <1>3, JobSignsInTime DEF LeadsInv
  <1>4. CopySigns(cache.keys, cache.loaded_at + MaxStale)'
    <2>1. (RowsOK /\ Superseded /\ clock \in Nat => \A h : CopySigns(Loaded, h))'
      BY CopySignsMade, PTL
    <2>2. RowsOK' /\ clock' \in Nat
      BY <1>1 DEF KeysInv
    <2>3. PICK h : h = clock + MaxStale
      OBVIOUS
    <2>4. CopySigns(Loaded, h)'
      BY <1>2, <2>1, <2>2
    <2> QED
      BY <1>1, <2>3, <2>4
  <1> QED
    BY <1>2, <1>3, <1>4 DEF LeadsInv, CopiesSign

LEMMA KillSigns ==
  ASSUME KeysInv, LeadsInv, Kill
  PROVE  LeadsInv'
  <1> USE Sorts
  <1>1. PICK lost :
          rows' = [k \in Kids |-> [rows[k] EXCEPT !.opens = @ /\ k \notin lost]]
    BY DEF Kill
  <1>2. /\ clock' = clock /\ tokens' = tokens /\ ended' = ended /\ cache' = NULL
        /\ job' = [p \in Processes |-> IF p = Cli THEN job[p] ELSE Idle]
    BY DEF Kill
  <1>3. RowsKept
    <2>1. Kids' = Kids
      BY <1>1 DEF Kids
    <2>2. ASSUME NEW k \in Kids
          PROVE  /\ rows'[k] \in SigningKeyRow
                 /\ rows'[k].created_at = rows[k].created_at
                 /\ rows'[k].activate_at = rows[k].activate_at
                 /\ rows'[k].retire_at = rows[k].retire_at
                 /\ rows'[k].removed_at = rows[k].removed_at
      <3>1. rows[k] \in SigningKeyRow
        BY DEF RowsOK, Sane
      <3>2. rows'[k] = [rows[k] EXCEPT !.opens = rows[k].opens /\ k \notin lost]
        BY <1>1
      <3> QED
        BY <3>1, <3>2 DEF SigningKeyRow
    <2> QED
      BY <1>2, <2>1, <2>2 DEF RowsKept
  <1>4. Superseded' /\ Presented'
    BY <1>2, <1>3, RowsKeptOK DEF LeadsInv, CopiesSign
  <1>5. ASSUME NEW p \in Processes PROVE job'[p].stage # "load"
    <2>1. p = Cli => job[p].stage \in {"idle", "rotate"}
      BY DEF JobOK
    <2> QED
      BY <1>2, <2>1 DEF Idle
  <1> QED
    BY <1>2, <1>4, <1>5 DEF LeadsInv, CopiesSign

LEMMA ReloadReadSigns ==
  ASSUME KeysInv, LeadsInv, NEW p \in Processes, ReloadRead(p)
  PROVE  LeadsInv'
  <1> USE Sorts
  <1>1. PICK K : K = Loaded
    OBVIOUS
  <1>2. PICK j : j = [stage |-> "load", at |-> clock, keys |-> K]
    OBVIOUS
  <1>3. /\ job' = [job EXCEPT ![p] = j]
        /\ UNCHANGED <<clock, rows, cache, boot, tokens, verifier, ended, reboots>>
    BY <1>1, <1>2 DEF ReloadRead
  <1>4. InTime /\ Superseded' /\ Presented'
    BY <1>3, QuietSigns
  <1>5. ASSUME NEW q \in Processes, job'[q].stage = "load"
        PROVE  CopySigns(job[q].keys, job[q].at + Lag + MaxStale)'
    <2>1. CASE q # p
      <3>1. job'[q] = job[q]
        BY <1>3, <2>1 DEF JobsOK
      <3> QED
        BY <1>4, <1>5, <3>1, JobSignsInTime DEF LeadsInv
    <2>2. CASE q = p
      <3>1. job'[q].keys = K /\ job'[q].at = clock
        BY <1>2, <1>3, <2>2 DEF JobsOK
      <3>2. PICK h : h = clock + Lag + MaxStale
        OBVIOUS
      <3>3. CopySigns(K, h)
        BY <1>1, CopySignsMade DEF LeadsInv, CopiesSign
      <3>4. CopySigns(K, h)'
        BY <1>3, <3>3, LaterStays, DisturbedStays DEF CopySigns, SupersededIn
      <3> QED
        BY <3>1, <3>2, <3>4
    <2> QED
      BY <2>1, <2>2
  <1>6. ASSUME cache' # NULL PROVE CopySigns(cache.keys, cache.loaded_at + MaxStale)'
    BY <1>3, <1>4, <1>6, CacheSignsInTime DEF LeadsInv
  <1> QED
    BY <1>3, <1>4, <1>5, <1>6 DEF LeadsInv, CopiesSign

LEMMA ReloadInstallSigns ==
  ASSUME KeysInv, LeadsInv, NEW p \in Processes, ReloadInstall(p)
  PROVE  LeadsInv'
  <1> USE Sorts
  <1>1. PICK K : K = job[p].keys
    OBVIOUS
  <1>2. PICK t \in Nat : t = clock
    OBVIOUS
  <1>3. /\ job[p].stage = "load" /\ cache' = [keys |-> K, loaded_at |-> t]
        /\ job' = [job EXCEPT ![p] = Idle]
        /\ UNCHANGED <<clock, rows, boot, tokens, verifier, ended, reboots>>
    BY <1>1, <1>2 DEF ReloadInstall, Loading
  <1>4. InTime /\ Superseded' /\ Presented'
    BY <1>3, QuietSigns
  <1>5. ASSUME NEW q \in Processes, job'[q].stage = "load"
        PROVE  CopySigns(job[q].keys, job[q].at + Lag + MaxStale)'
    <2>1. q # p
      BY <1>3, <1>5 DEF JobsOK, Idle
    <2>2. job'[q] = job[q]
      BY <1>3, <2>1 DEF JobsOK
    <2> QED
      BY <1>4, <1>5, <2>2, JobSignsInTime DEF LeadsInv
  <1>6. CopySigns(cache.keys, cache.loaded_at + MaxStale)'
    <2>1. JobOK(p)
      OBVIOUS
    <2>2. PICK at \in Nat : at = job[p].at /\ t <= at + Lag /\ Copied(K)
      BY <1>1, <1>2, <1>3, <2>1 DEF JobOK, Timely, CopyOK
    <2>3. PICK h \in Nat : h = at + Lag + MaxStale
      BY Constants
    <2>4. CopySigns(K, h)
      BY <1>1, <1>3, <2>2, <2>3 DEF LeadsInv, CopiesSign
    <2>5. t + MaxStale <= h /\ t + MaxStale \in Int
      BY <2>2, <2>3, Constants, SMTT(30)
    <2>6. CopySigns(K, t + MaxStale)
      BY <2>2, <2>4, <2>5, LaterWeakens DEF CopySigns
    <2>7. CopySigns(K, t + MaxStale)'
      BY <1>3, <2>6, LaterStays, DisturbedStays DEF CopySigns, SupersededIn
    <2> QED
      BY <1>3, <2>7
  <1> QED
    BY <1>4, <1>5, <1>6 DEF LeadsInv, CopiesSign

\* Steps of one thread that leave the rows and the cache alone.
LEMMA JobSigns ==
  ASSUME KeysInv, LeadsInv, NEW p \in Processes, NEW j, j.stage # "load",
         job' = [job EXCEPT ![p] = j],
         UNCHANGED <<clock, rows, cache, tokens, ended>>
  PROVE  LeadsInv'
  <1>1. InTime /\ Superseded' /\ Presented'
    BY QuietSigns
  <1>2. \A q \in Processes : job'[q] = job[q] \/ job'[q].stage # "load"
    BY Sorts DEF JobsOK
  <1> QED
    BY <1>1, <1>2, SignsOn DEF LeadsInv

LEMMA FailSigns ==
  ASSUME KeysInv, LeadsInv, NEW p \in Processes, ReloadFails(p) \/ RotateFails(p)
  PROVE  LeadsInv'
  <1>1. PICK j : j = Idle
    OBVIOUS
  <1>2. j.stage # "load"
    BY <1>1 DEF Idle
  <1> QED
    BY <1>1, <1>2, JobSigns DEF ReloadFails, RotateFails

LEMMA RotateStartSigns ==
  ASSUME KeysInv, LeadsInv, NEW p \in Processes, NEW lead, RotateStart(p, lead)
  PROVE  LeadsInv'
  <1>1. PICK j : j = [stage |-> "rotate", at |-> clock, lead |-> lead]
    OBVIOUS
  <1>2. j.stage # "load"
    BY <1>1
  <1> QED
    BY <1>1, <1>2, JobSigns DEF RotateStart

LEMMA PruneStartSigns ==
  ASSUME KeysInv, LeadsInv, NEW p \in Processes, PruneStart(p)
  PROVE  LeadsInv'
  <1>1. PICK j : j = [stage |-> "prune", at |-> clock, left |-> Due(clock), removed |-> FALSE]
    OBVIOUS
  <1>2. j.stage # "load"
    BY <1>1
  <1> QED
    BY <1>1, <1>2, JobSigns DEF PruneStart

LEMMA RotateCommitSigns ==
  ASSUME KeysInv, LeadsInv, NEW p \in Processes, RotateCommit(p)
  PROVE  LeadsInv'
  <1> USE Sorts
  <1>1. cache' = cache /\ tokens' = tokens
    BY DEF RotateCommit
  <1>2. RowsMove /\ DatesMove /\ Superseded' /\ Presented'
    BY <1>1, RotateCommits, RotationOK DEF LeadsInv, CopiesSign
  <1>3. PICK j : j = IF p = Cli THEN Idle ELSE [stage |-> "reload"]
    OBVIOUS
  <1>4. job' = [job EXCEPT ![p] = j]
    BY <1>3 DEF RotateCommit
  <1>5. j.stage # "load"
    BY <1>3 DEF Idle
  <1>6. \A q \in Processes : job'[q] = job[q] \/ job'[q].stage # "load"
    BY <1>4, <1>5 DEF JobsOK
  <1> QED
    BY <1>1, <1>2, <1>6, SignsOn DEF LeadsInv, InTime

LEMMA PruneRemoveSigns ==
  ASSUME KeysInv, KeysInv', LeadsInv, NEW p \in Processes, NEW k, PruneRemove(p, k)
  PROVE  LeadsInv'
  <1> USE Sorts
  <1>1. cache' = cache /\ tokens' = tokens
    BY DEF PruneRemove
  <1>2. RowsKept /\ RowsMove /\ DatesMove
    BY PruneRemoves
  <1>3. Superseded' /\ Presented'
    BY <1>1, <1>2, RowsKeptOK DEF LeadsInv, CopiesSign
  <1>4. JobOK(p) /\ job[p].stage = "prune"
    BY DEF PruneRemove
  <1>5. PICK was : was = job[p]
    OBVIOUS
  <1>6. PICK now : LET rest == [was EXCEPT !.left = @ \ {k}, !.removed = @ \/ now]
                   IN  job' = [job EXCEPT ![p] = IF rest.left # {} THEN rest
                                                 ELSE IF rest.removed THEN [stage |-> "reload"]
                                                 ELSE Idle]
    BY <1>5, Zenon DEF PruneRemove
  <1>7. PICK rest : rest = [was EXCEPT !.left = @ \ {k}, !.removed = @ \/ now]
    OBVIOUS
  <1>8. rest.stage = "prune"
    <2>1. was = [stage |-> "prune", at |-> was.at, left |-> was.left, removed |-> was.removed]
      BY <1>4, <1>5 DEF JobOK
    <2>2. PICK l, b : rest = [was EXCEPT !.left = l, !.removed = b]
      BY <1>7, Zenon
    <2> QED
      BY <2>1, <2>2
  <1>9. PICK j : j = IF rest.left # {} THEN rest
                     ELSE IF rest.removed THEN [stage |-> "reload"]
                     ELSE Idle
    OBVIOUS
  <1>10. job' = [job EXCEPT ![p] = j]
    BY <1>6, <1>7, <1>9
  <1>11. j.stage # "load"
    BY <1>8, <1>9 DEF Idle
  <1>12. \A q \in Processes : job'[q] = job[q] \/ job'[q].stage # "load"
    BY <1>10, <1>11 DEF JobsOK
  <1> QED
    BY <1>1, <1>2, <1>3, <1>12, SignsOn DEF LeadsInv, InTime

LEMMA SignSigns ==
  ASSUME KeysInv, LeadsInv, NEW ttl \in 1..MaxTtl, Sign(ttl)
  PROVE  LeadsInv'
  <1> USE Sorts
  <1>1. UNCHANGED <<clock, rows, cache, job, boot, verifier, ended, reboots>> /\ Usable
    BY DEF Sign
  <1>2. PICK until : until = clock + ttl + RetireMargin
    OBVIOUS
  <1>2a. PICK s \in DOMAIN cache.keys :
          /\ Signs(cache.keys, s, clock)
          /\ IF \A j \in Activated(cache.keys, clock) : ~Newer(cache.keys, j, s)
             THEN tokens' = Signed(tokens, s, until) ELSE tokens' = tokens
    BY <1>2 DEF Sign
  <1>3. InTime
    BY <1>1 DEF InTime
  <1>4. CopiesSign'
    <2>1. Superseded'
      BY <1>1, DisturbedStays DEF LeadsInv, CopiesSign, Superseded, Kids
    <2> QED
      BY <1>1, <1>3, <2>1, SignsOn DEF LeadsInv
  <1>5. until \in Nat /\ until <= clock + Allowance
    BY <1>2, Constants DEF Allowance
  <1>6. s \in Activated(cache.keys, clock)
    BY <1>2a DEF Signs
  <1>7. s \in Kids /\ rows[s].activate_at \in Nat /\ rows[s].retire_at \in Nat \cup {NULL}
        /\ rows[s].removed_at \in Nat \cup {NULL}
        /\ (rows[s].removed_at # NULL => rows[s].retire_at # NULL /\ rows[s].retire_at <= clock)
    <2>1. s \in Kids
      BY <1>1, UsableCache DEF CopyOK, Copied
    <2> QED
      BY <2>1, RowFields DEF RowsOK, Sane
  <1>8. rows[s].activate_at <= clock
    <2>1. cache.keys[s].activate_at = rows[s].activate_at
      BY <1>1, UsableCache DEF CopyOK, Copied
    <2> QED
      BY <1>6, <2>1 DEF Activated
  <1>9. s \notin Disturbed /\ tokens' # tokens =>
          rows[s].removed_at = NULL /\ NoLater(until, rows[s].retire_at)
    <2> SUFFICES ASSUME s \notin Disturbed, tokens' # tokens
        PROVE  rows[s].removed_at = NULL /\ NoLater(until, rows[s].retire_at)
      OBVIOUS
    <2>1. NoLater(clock + Allowance, rows[s].retire_at)
      BY <1>1, <1>2a, <1>6, SignedKeyLasts DEF LeadsInv
    <2>2. NoLater(until, rows[s].retire_at)
      BY <1>5, <1>7, <2>1, Constants DEF NoLater
    <2>3. rows[s].retire_at # NULL => rows[s].retire_at > clock
      <3>1. until > clock
        BY <1>2, Constants
      <3> QED
        BY <1>5, <1>7, <2>2, <3>1 DEF NoLater
    <2>4. rows[s].removed_at = NULL
      BY <1>7, <2>3
    <2> QED
      BY <2>2, <2>4
  <1>10. Presented'
    <2> SUFFICES ASSUME NEW k \in 1..MaxKeys, tokens'[k] > clock
        PROVE  /\ k \in Kids
               /\ rows[k].activate_at <= clock
               /\ tokens'[k] <= clock + Allowance
               /\ \/ k \in Disturbed
                  \/ rows[k].removed_at = NULL /\ NoLater(tokens'[k], rows[k].retire_at)
      BY <1>1, DisturbedStays DEF Presented, Kids
    <2>1. CASE tokens'[k] = tokens[k]
      BY <2>1 DEF LeadsInv, Presented
    <2>2. CASE tokens'[k] # tokens[k]
      <3>1. k = s /\ tokens'[k] = until /\ tokens' # tokens
        BY <1>2a, <2>2 DEF Signed
      <3> QED
        BY <1>5, <1>7, <1>8, <1>9, <3>1, Zenon
    <2> QED
      BY <2>1, <2>2
  <1> QED
    BY <1>4, <1>10 DEF LeadsInv

LEMMA LeadsInit ==
  SigningInit => LeadsInv
  <1> SUFFICES ASSUME SigningInit PROVE LeadsInv
    OBVIOUS
  <1>1. Kids = {} /\ cache = NULL
    BY DEF SigningInit, Kids
  <1>2. \A p \in Processes : job[p].stage # "load"
    BY DEF SigningInit, Idle
  <1>3. \A k \in 1..MaxKeys : ~(tokens[k] > clock)
    BY DEF SigningInit
  <1> QED
    BY <1>1, <1>2, <1>3 DEF LeadsInv, CopiesSign, Superseded, Presented

LEMMA LeadsStep ==
  KeysInv /\ KeysInv' /\ LeadsInv /\ [SigningNext]_signingVars => LeadsInv'
  <1> SUFFICES ASSUME KeysInv, KeysInv', LeadsInv, [SigningNext]_signingVars PROVE LeadsInv'
    OBVIOUS
  <1>1. CASE ClockTick
    BY <1>1, TickSigns
  <1>2. CASE BootOpen
    BY <1>2, BootOpenSigns
  <1>3. CASE BootInsert
    BY <1>3, BootInsertSigns
  <1>4. CASE Kill
    BY <1>4, KillSigns
  <1>5. ASSUME UNCHANGED <<clock, rows, cache, job, tokens, ended>> PROVE LeadsInv'
    <2>1. InTime /\ Superseded' /\ Presented'
      BY <1>5, QuietSigns
    <2> QED
      BY <1>5, <2>1, SignsOn DEF LeadsInv
  <1>6. ASSUME NEW ttl \in 1..MaxTtl, Sign(ttl) PROVE LeadsInv'
    BY <1>6, SignSigns
  <1>7. ASSUME NEW p \in Processes, ReloadRead(p) PROVE LeadsInv'
    BY <1>7, ReloadReadSigns
  <1>8. ASSUME NEW p \in Processes, ReloadInstall(p) PROVE LeadsInv'
    BY <1>8, ReloadInstallSigns
  <1>9. ASSUME NEW p \in Processes, ReloadFails(p) \/ RotateFails(p) PROVE LeadsInv'
    BY <1>9, FailSigns
  <1>10. ASSUME NEW p \in Processes, NEW lead, RotateStart(p, lead) PROVE LeadsInv'
    BY <1>10, RotateStartSigns
  <1>11. ASSUME NEW p \in Processes, RotateCommit(p) PROVE LeadsInv'
    BY <1>11, RotateCommitSigns
  <1>12. ASSUME NEW p \in Processes, PruneStart(p) PROVE LeadsInv'
    BY <1>12, PruneStartSigns
  <1>13. ASSUME NEW p \in Processes, NEW k, PruneRemove(p, k) PROVE LeadsInv'
    BY <1>13, PruneRemoveSigns
  <1>14. CASE Fetch
    BY <1>5, <1>14 DEF Fetch
  <1>15. CASE UNCHANGED signingVars
    BY <1>5, <1>15 DEF signingVars
  <1> QED
    BY <1>1, <1>2, <1>3, <1>4, <1>6, <1>7, <1>8, <1>9, <1>10, <1>11, <1>12, <1>13, <1>14, <1>15
       DEF SigningNext

-----------------------------------------------------------------------------
(***************************************************************************)
(* The properties.                                                         *)
(***************************************************************************)
LEMMA JobType ==
  ASSUME NEW p, JobOK(p), job[p].stage # "load", Kids \subseteq 1..MaxKeys, clock \in Nat
  PROVE  job[p] \in Job
  <1>1. CASE job[p].stage = "idle"
    BY <1>1 DEF JobOK, Job
  <1>2. CASE job[p].stage = "reload"
    BY <1>2 DEF JobOK, Job
  <1>3. CASE job[p].stage = "rotate"
    <2>1. /\ job[p] = [stage |-> "rotate", at |-> job[p].at, lead |-> job[p].lead]
          /\ job[p].at \in Nat /\ job[p].lead \in Nat
      BY <1>3, Constants DEF JobOK, Timely
    <2>2. job[p] \in [stage : {"rotate"}, at : Nat, lead : Nat]
      BY <2>1
    <2> QED
      BY <2>2 DEF Job
  <1>4. CASE job[p].stage = "prune"
    <2>1. /\ job[p] = [stage |-> "prune", at |-> job[p].at, left |-> job[p].left,
                       removed |-> job[p].removed]
          /\ job[p].at \in Nat
      BY <1>4, Constants DEF JobOK, Timely
    <2>2. job[p].left \in SUBSET (1..MaxKeys) /\ job[p].removed \in BOOLEAN
      BY <1>4, Zenon DEF JobOK
    <2>3. job[p] \in [stage : {"prune"}, at : Nat, left : SUBSET (1..MaxKeys), removed : BOOLEAN]
      BY <2>1, <2>2, PruneJob
    <2> QED
      BY <2>3, Zenon DEF Job
  <1> QED
    BY <1>1, <1>2, <1>3, <1>4 DEF JobOK

LEMMA SigningTypes ==
  KeysInv /\ StraysTypeOK => SigningTypeOK
  <1> SUFFICES ASSUME KeysInv, StraysTypeOK PROVE SigningTypeOK
    OBVIOUS
  <1> USE Sorts
  <1>1. Kids = 1..Total /\ Total \in 0..MaxKeys /\ Kids \subseteq 1..MaxKeys
    BY Constants DEF RowsOK, Numbered
  <1>2. \A k \in Kids : rows[k] \in SigningKeyRow
    BY DEF RowsOK, Sane
  <1>3. /\ cache = NULL <=> boot = "down"
        /\ cache # NULL => /\ cache.loaded_at \in 0..clock
                           /\ DOMAIN cache.keys \subseteq Kids
    BY DEF CacheOK, CopyOK, Copied
  <1>4. ASSUME NEW p \in Processes
        PROVE  /\ job[p].stage = "load" => DOMAIN job[p].keys \subseteq Kids
               /\ job[p].stage # "load" => job[p] \in Job
    <2>1. JobOK(p)
      OBVIOUS
    <2>2. job[p].stage = "load" => DOMAIN job[p].keys \subseteq Kids
      BY <2>1 DEF JobOK, CopyOK, Copied
    <2> QED
      BY <1>1, <2>1, <2>2, JobType
  <1>5. ended.keys \subseteq Kids /\ ended.at \in 0..clock
    BY DEF RowsOK
  <1> QED
    BY <1>1, <1>2, <1>3, <1>4, <1>5 DEF SigningTypeOK, KeysInv, KeysTypeOK, StraysTypeOK

LEMMA Verifies ==
  KeysInv /\ Presented => TokensVerify /\ VerifierAccepts
  <1> SUFFICES ASSUME KeysInv, Presented, NEW k \in Kids, k \notin Disturbed, tokens[k] > clock
      PROVE  /\ IsPublished(rows[k], clock)
             /\ (boot = "up"
                 /\ rows[k].activate_at - rows[k].created_at > RefreshPeriod + MaxStale + 2 * Lag)
                  => k \in verifier.keys
    BY DEF TokensVerify, VerifierAccepts
  <1> USE Sorts
  <1>1. k \in 1..MaxKeys
    BY Constants DEF RowsOK, Numbered
  <1>2. /\ rows[k].created_at \in Nat /\ rows[k].activate_at \in Nat
        /\ rows[k].retire_at \in Nat \cup {NULL} /\ tokens[k] \in Nat
    BY <1>1, RowFields DEF RowsOK, Sane
  <1>3. /\ rows[k].activate_at <= clock /\ rows[k].removed_at = NULL
        /\ NoLater(tokens[k], rows[k].retire_at)
    BY <1>1 DEF Presented
  <1>4. rows[k].retire_at = NULL \/ rows[k].retire_at > clock
    BY <1>2, <1>3 DEF NoLater
  <1>5. ASSUME boot = "up",
               rows[k].activate_at - rows[k].created_at > RefreshPeriod + MaxStale + 2 * Lag
        PROVE  k \in verifier.keys
    <2>1. clock <= verifier.at + RefreshPeriod
      BY <1>5 DEF Informed
    <2>2. rows[k].created_at + 2 * Lag + MaxStale < verifier.at
      BY <1>2, <1>3, <1>5, <2>1, Constants, SMTT(30)
    <2>3. ~(rows[k].retire_at # NULL /\ rows[k].retire_at <= verifier.at)
      BY <1>2, <1>4
    <2> QED
      BY <1>5, <2>2, <2>3 DEF Informed
  <1> QED
    BY <1>3, <1>4, <1>5 DEF IsPublished

\* Whatever leads administrators ask for and however rotations, reloads, prunes,
\* failures and restarts interleave: a broker that holds an activated key can sign from
\* whatever copy of the rows it has, and the key the console shows as signing is the
\* one that signs.
THEOREM RotationLeavesNoGap ==
  SigningSpec => [](SigningTypeOK /\ NoSigningGap /\ ShownKeySigns)
  <1>1. KeysInv /\ StraysTypeOK => SigningTypeOK /\ NoSigningGap /\ ShownKeySigns
    BY SigningTypes, NoGap, ShownSigns
  <1> QED
    BY <1>1, KeysAreKept, StraysAreKept, PTL

\* Whoever rotates, with whatever leads, and however rotations, reloads, prunes,
\* failures and restarts interleave: a token signed by the newest key verifies until
\* it is accepted no more, and a verifier that refreshes in time has its key, unless an
\* immediate rotation, one of a lead too short for stale caches or one that lost a tie
\* came after that key.
THEOREM RotationDisturbsNobody ==
  SigningSpec => []RotationIsSeamless
  <1>1. SigningInit => LeadsInv
    BY LeadsInit
  <1>2. KeysInv /\ KeysInv' /\ LeadsInv /\ [SigningNext]_signingVars => LeadsInv'
    BY LeadsStep
  <1>3. KeysInv /\ StraysTypeOK /\ LeadsInv => RotationIsSeamless
    BY SigningTypes, Verifies, NoGap, ShownSigns DEF LeadsInv, RotationIsSeamless
  <1> QED
    BY <1>1, <1>2, <1>3, KeysAreKept, StraysAreKept, PTL DEF SigningSpec
=============================================================================
