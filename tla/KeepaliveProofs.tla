--------------------------- MODULE KeepaliveProofs ---------------------------
(***************************************************************************)
(* Theorems about Keepalive, for every set of custodies and every policy:  *)
(* what holds under every fault first, then the deadlines of a worker      *)
(* whose provider and store answer.                                        *)
(***************************************************************************)
EXTENDS Keepalive, TLAPS, FiniteSetTheorems

LEMMA ConstantsNat ==
    /\ Lifetime \in Nat /\ Lead \in Nat /\ IdleTick \in Nat /\ Spread \in Nat
  BY KeepaliveAssumption

\* Every delay the scheduler draws is a number of seconds, at least one.
LEMMA LeadDelaysNat == \A d \in LeadDelays(Lifetime) : d \in Nat /\ d >= 1
  <1>1. (Lifetime * Lead * (100 - Jitter)) \div 10000 \in Int
    BY KeepaliveAssumption
  <1>2. (Lifetime * Lead * (100 + Jitter) - 1) \div 10000 \in Int
    BY KeepaliveAssumption
  <1> QED BY <1>1, <1>2 DEF LeadDelays, AtLeastOne

LEMMA BackoffDelaysNat ==
  ASSUME NEW n, NEW d \in BackoffDelays(n, NULL)
  PROVE  d \in Nat /\ d >= 1
  BY DEF BackoffDelays

\* What Scheduler::record leaves: an entry that is no longer refreshing, dead
\* exactly after a permanent failure.
LEMMA RecordedEntry ==
  ASSUME now \in Nat, NEW e \in CustodyState,
         NEW o \in {"success", "transient", "permanent"},
         NEW r \in Recorded(e, o)
  PROVE  /\ r \in CustodyState
         /\ ~ r.refreshing
         /\ r.status = "dead" <=> o = "permanent"
  <1>1. CASE o = "success"
    <2>1. PICK d \in LeadDelays(Lifetime) :
            r = [status |-> "ok", access_exp |-> now + Lifetime,
                 next_refresh |-> now + d, fail_count |-> 0, refreshing |-> FALSE]
      BY <1>1 DEF Recorded
    <2>2. d \in Nat
      BY LeadDelaysNat
    <2> QED BY <1>1, <2>1, <2>2, KeepaliveAssumption DEF CustodyState, CustodyStatus
  <1>2. CASE o = "transient"
    <2>1. PICK d \in BackoffDelays(e.fail_count, NULL) :
            r = [status |-> IF now >= e.access_exp THEN "degraded" ELSE "ok",
                 access_exp |-> e.access_exp, next_refresh |-> now + d,
                 fail_count |-> e.fail_count + 1, refreshing |-> FALSE]
      BY <1>2 DEF Recorded
    <2>2. d \in Nat
      BY <2>1, BackoffDelaysNat
    <2> QED BY <1>2, <2>1, <2>2 DEF CustodyState, CustodyStatus
  <1>3. CASE o = "permanent"
    BY <1>3 DEF Recorded, CustodyState, CustodyStatus
  <1> QED BY <1>1, <1>2, <1>3

\* A restored custody comes due at a time on the clock.
LEMMA RestoredAtNat ==
  ASSUME TypeOK, NEW rows \in SUBSET Restorable, NEW o \in Orders(rows),
         NEW c \in rows
  PROVE  RestoredAt(c, o[c], Cardinality(rows)) \in Nat
  <1>1. IsFiniteSet(rows)
    BY KeepaliveAssumption, FS_Subset DEF Restorable
  <1>2. Cardinality(rows) \in Nat
    BY <1>1, FS_CardinalityType
  <1>3. o[c] \in 0 .. Cardinality(rows) - 1
    BY DEF Orders
  <1>4. o[c] * Spread \in Nat
    BY <1>2, <1>3, KeepaliveAssumption
  <1>5. Cardinality(rows) >= 1
    BY <1>2, <1>3
  <1>6. (o[c] * Spread) \div Cardinality(rows) \in Nat
    BY <1>2, <1>4, <1>5
  <1>7. row[c] \in CustodyRow
    BY DEF TypeOK, StoreOK, Restorable, Option
  <1> QED BY <1>6, <1>7 DEF RestoredAt, TypeOK, ClockOK, CustodyRow

\* Only a grant the provider issued has a row or is presented to it.
Issued ==
    \A c \in Custodies :
        row[c] # NULL \/ (flight[c] # NULL /\ flight[c].stage \in {"calling", "storing"})
            => grant[c] # NULL

\* One step keeps the types.  That a result finds its entry rests on
\* OneRefreshAtATime, that an answer is about a grant on Issued.
LEMMA TypeStep == TypeOK /\ OneRefreshAtATime /\ Issued /\ [Next]_vars => TypeOK'
  <1> SUFFICES ASSUME TypeOK, OneRefreshAtATime, Issued, [Next]_vars PROVE TypeOK'
    OBVIOUS
  <1> USE ConstantsNat
  <1>a. UNCHANGED clockVars => ClockOK'
    BY DEF TypeOK, ClockOK, clockVars
  <1>b. UNCHANGED schedVars => SchedOK'
    BY DEF TypeOK, SchedOK, schedVars
  <1>c. UNCHANGED tickVars => TickOK'
    BY DEF TypeOK, TickOK, tickVars
  <1>d. UNCHANGED session => SessionOK'
    BY DEF TypeOK, SessionOK
  <1>e. UNCHANGED storeVars => StoreOK'
    BY DEF TypeOK, StoreOK, storeVars
  <1>f. UNCHANGED idpVars => IdpOK'
    BY DEF TypeOK, IdpOK, idpVars
  <1>1. CASE Tick
    <2>1. ClockOK'
      BY <1>1 DEF Tick, TypeOK, ClockOK
    <2> QED BY <1>1, <2>1, <1>b, <1>c, <1>d, <1>e, <1>f DEF Tick, TypeOK
  <1>2. ASSUME NEW c \in Custodies, Login(c) PROVE TypeOK'
    <2>1. (Lifetime * Lead) \div 100 \in Nat
      OBVIOUS
    <2>2. row' \in [Custodies -> Option(CustodyRow)]
      BY <1>2, <2>1
      DEF TypeOK, StoreOK, ClockOK, Login, Option, CustodyRow, CustodyStatus
    <2>3. queue' \in Seq(Command)
      BY <1>2 DEF Login, Command
    <2>4. StoreOK'
      BY <1>2, <2>2, <2>3 DEF Login, TypeOK, StoreOK
    <2>5. IdpOK'
      BY <1>2 DEF TypeOK, IdpOK, Login, Option, Grant
    <2>6. SessionOK'
      BY <1>2 DEF TypeOK, SessionOK, Login, Option, CustodyStatus
    <2>7. SchedOK'
      BY <1>2 DEF TypeOK, SchedOK, ClockOK, Login
    <2> QED BY <1>2, <2>4, <2>5, <2>6, <2>7, <1>a, <1>c DEF TypeOK, Login
  <1>3. ASSUME NEW c \in Custodies, Receive(c) PROVE TypeOK'
    <2>1. PICK r \in schedule, d \in LeadDelays(Lifetime) :
            /\ schedule' = schedule \ {r}
            /\ entries' = [entries EXCEPT ![c] =
                  [status |-> "ok", access_exp |-> r.issued_at + Lifetime,
                   next_refresh |-> r.issued_at + d, fail_count |-> 0,
                   refreshing |-> FALSE]]
            /\ due' = due \cup {<<r.issued_at + d, c>>}
      BY <1>3 DEF Receive
    <2>2. d \in Nat /\ r.issued_at \in Nat
      BY <2>1, LeadDelaysNat DEF TypeOK, SchedOK
    <2>3. entries' \in [Custodies -> Option(CustodyState)]
      BY <2>1, <2>2 DEF TypeOK, SchedOK, Option, CustodyState, CustodyStatus
    <2>4. due' \subseteq Nat \X Custodies
      BY <2>1, <2>2 DEF TypeOK, SchedOK
    <2>5. wake' \in Nat
      BY <1>3 DEF Receive, TypeOK, ClockOK
    <2>6. SchedOK'
      BY <2>1, <2>3, <2>4, <2>5 DEF TypeOK, SchedOK
    <2> QED BY <1>3, <2>6, <1>a, <1>c, <1>d, <1>e, <1>f DEF TypeOK, Receive
  <1>4. CASE ReceiveOther
    <2>1. SchedOK'
      BY <1>4 DEF ReceiveOther, TypeOK, SchedOK, ClockOK
    <2> QED BY <1>4, <2>1, <1>a, <1>c, <1>d, <1>e, <1>f DEF TypeOK, ReceiveOther
  <1>5. CASE TakeDue
    <2>1. entries' \in [Custodies -> Option(CustodyState)]
      <3>1. ASSUME NEW c \in Ready
            PROVE  [entries[c] EXCEPT !.refreshing = TRUE] \in CustodyState
        BY DEF Ready, TypeOK, SchedOK, Option, CustodyState
      <3> QED BY <1>5, <3>1 DEF TakeDue, TypeOK, SchedOK, Option
    <2>2. due' \subseteq Nat \X Custodies
      BY <1>5 DEF TakeDue, TypeOK, SchedOK
    <2>3. wake' \in Nat
      BY <1>5 DEF TakeDue, TypeOK, SchedOK, ClockOK
    <2>4. SchedOK'
      BY <1>5, <2>1, <2>2, <2>3 DEF TakeDue, TypeOK, SchedOK
    <2>5. TickOK'
      BY <1>5 DEF TakeDue, Ready, TypeOK, TickOK
    <2> QED BY <1>5, <2>4, <2>5, <1>a, <1>d, <1>e, <1>f DEF TypeOK, TakeDue
  <1>6. CASE Dispatch
    <2>1. NotStarted \in Refresh
      BY DEF NotStarted, Refresh
    <2>2. TickOK'
      BY <1>6, <2>1 DEF Dispatch, TypeOK, TickOK, ClockOK, Option
    <2> QED BY <1>6, <2>2, <1>a, <1>b, <1>d, <1>e, <1>f DEF TypeOK, Dispatch
  <1>7. ASSUME NEW c \in Custodies, RefreshNext(c) PROVE TypeOK'
    <2>1. ASSUME NEW out \in {"success", "transient", "permanent"},
                 Finished(c, out)
          PROVE  flight' \in [Custodies -> Option(Refresh)]
      BY <2>1 DEF TypeOK, TickOK, Finished, Option, Refresh
    <2>2. CASE LoadCustody(c)
      <3>1. flight' \in [Custodies -> Option(Refresh)]
        <4>1. CASE row[c] # NULL /\ flight' = [flight EXCEPT ![c] =
                     [stage |-> "calling", tok |-> row[c].tok, at |-> now,
                      outcome |-> NULL]]
          <5>1. row[c].tok \in Nat
            BY <4>1 DEF TypeOK, StoreOK, Option, CustodyRow
          <5>2. [stage |-> "calling", tok |-> row[c].tok, at |-> now,
                 outcome |-> NULL] \in Refresh
            BY <5>1 DEF TypeOK, ClockOK, Refresh
          <5> QED BY <4>1, <5>2 DEF TypeOK, TickOK, Option
        <4> QED BY <2>1, <2>2, <4>1 DEF LoadCustody
      <3>2. TickOK'
        BY <2>2, <3>1 DEF LoadCustody, TypeOK, TickOK
      <3> QED BY <2>2, <3>2, <1>a, <1>b, <1>d, <1>e, <1>f DEF TypeOK, LoadCustody
    <2>3. CASE Granted(c)
      <3>1. PICK tok \in {grant[c].tok, grant[c].tok + 1} :
              /\ grant' = [grant EXCEPT ![c].tok = tok]
              /\ flight' = [flight EXCEPT ![c] =
                    [stage |-> "storing", tok |-> tok, at |-> flight[c].at,
                     outcome |-> NULL]]
        BY <2>3 DEF Granted
      <3>2. flight[c].at \in Nat /\ grant[c] \in Grant
        BY <2>3 DEF Granted, Stage, Issued, TypeOK, TickOK, IdpOK, Option, Refresh
      <3>3. tok \in Nat
        BY <3>1, <3>2 DEF Grant
      <3>4. TickOK'
        BY <2>3, <3>1, <3>2, <3>3 DEF Granted, TypeOK, TickOK, Option, Refresh
      <3>5. IdpOK'
        BY <2>3, <3>1, <3>2, <3>3 DEF Granted, TypeOK, IdpOK, Option, Grant
      <3> QED BY <2>3, <3>4, <3>5, <1>a, <1>b, <1>d, <1>e DEF TypeOK, Granted
    <2>4. CASE Refused(c)
      <3>1. TickOK'
        BY <2>1, <2>4 DEF Refused, TypeOK, TickOK
      <3> QED BY <2>4, <3>1, <1>a, <1>b, <1>d, <1>e, <1>f DEF TypeOK, Refused
    <2>5. CASE Busy(c)
      <3>1. TickOK'
        BY <2>1, <2>5 DEF Busy, TypeOK, TickOK
      <3> QED BY <2>5, <3>1, <1>a, <1>b, <1>d, <1>e, <1>f DEF TypeOK, Busy
    <2>6. CASE AnswerLost(c)
      <3>1. TickOK'
        BY <2>1, <2>6 DEF AnswerLost, TypeOK, TickOK
      <3>2. grant[c] \in Grant
        BY <2>6 DEF AnswerLost, Stage, Issued, TypeOK, IdpOK, Option
      <3>3. IdpOK'
        BY <2>6, <3>2 DEF AnswerLost, TypeOK, IdpOK, Option, Grant
      <3> QED BY <2>6, <3>1, <3>3, <1>a, <1>b, <1>d, <1>e DEF TypeOK, AnswerLost
    <2>7. CASE StoreGrant(c)
      <3>1. flight[c].at + Lifetime \in Nat /\ flight[c].tok \in Nat
        BY <2>7 DEF TypeOK, TickOK, StoreGrant, Stage, Option, Refresh
      <3>2. row' \in [Custodies -> Option(CustodyRow)]
        BY <2>7, <3>1 DEF TypeOK, StoreOK, StoreGrant, Option, CustodyRow, CustodyStatus
      <3>3. StoreOK'
        BY <2>7, <3>2 DEF StoreGrant, TypeOK, StoreOK
      <3>4. TickOK'
        BY <2>1, <2>7 DEF StoreGrant, TypeOK, TickOK
      <3> QED BY <2>7, <3>3, <3>4, <1>a, <1>b, <1>d, <1>f DEF TypeOK, StoreGrant
    <2>8. CASE StoreFails(c)
      <3>1. TickOK'
        BY <2>1, <2>8 DEF StoreFails, TypeOK, TickOK
      <3>2. IdpOK'
        BY <2>8 DEF StoreFails, TypeOK, IdpOK
      <3> QED BY <2>8, <3>1, <3>2, <1>a, <1>b, <1>d, <1>e DEF TypeOK, StoreFails
    <2>9. ASSUME Joined(c) PROVE wake' \in Nat /\ flight' \in [Custodies -> Option(Refresh)]
      BY <2>9 DEF Joined, TypeOK, ClockOK, SchedOK, TickOK, Option
    <2>10. CASE Panic(c)
      <3>1. TickOK' /\ SchedOK'
        BY <2>9, <2>10 DEF Panic, TypeOK, TickOK, SchedOK
      <3>2. IdpOK'
        BY <2>10 DEF Panic, Orphaned, TypeOK, IdpOK
      <3> QED BY <2>10, <3>1, <3>2, <1>a, <1>d, <1>e DEF TypeOK, Panic
    <2>11. CASE Record(c)
      <3>1. /\ entries[c] \in CustodyState
            /\ flight[c].outcome \in {"success", "transient", "permanent"}
        BY <2>11 DEF Record, Stage, OneRefreshAtATime, InHand, TypeOK, SchedOK, TickOK,
                     Option, Refresh
      <3>2. PICK e \in Recorded(entries[c], flight[c].outcome) :
              /\ entries' = [entries EXCEPT ![c] = e]
              /\ due' = IF e.status = "dead" THEN due ELSE due \cup {<<e.next_refresh, c>>}
              /\ session' = IF session[c] = NULL THEN session
                            ELSE [session EXCEPT
                                    ![c] = [status |-> IF Kills(c) THEN "tombstoned"
                                                       ELSE session[c].status,
                                            health |-> e.status]]
              /\ queue' = queue
                    \o (IF flight[c].outcome = "success" THEN <<>> ELSE <<Failure(c, e)>>)
                    \o (IF Kills(c)
                        THEN <<[cmd |-> "tombstone_session", custody |-> c]>> ELSE <<>>)
        BY <2>11 DEF Record
      <3>3. e \in CustodyState
        BY <3>1, RecordedEntry DEF TypeOK, ClockOK
      <3>4. entries' \in [Custodies -> Option(CustodyState)]
        BY <3>2, <3>3 DEF TypeOK, SchedOK, Option
      <3>5. due' \subseteq Nat \X Custodies
        BY <3>2, <3>3 DEF TypeOK, SchedOK, CustodyState
      <3>6. SchedOK' /\ TickOK'
        BY <2>9, <2>11, <3>4, <3>5 DEF Record, TypeOK, TickOK, SchedOK
      <3>7. SessionOK'
        BY <3>2, <3>3 DEF TypeOK, SessionOK, Option, CustodyState
      <3>8. Failure(c, e) \in Command
        BY <3>3 DEF Failure, Command, CustodyState
      <3>9. [cmd |-> "tombstone_session", custody |-> c] \in Command
        BY DEF Command
      <3>10. queue' \in Seq(Command)
        BY <3>2, <3>8, <3>9 DEF TypeOK, StoreOK
      <3>11. StoreOK'
        BY <2>11, <3>10 DEF Record, TypeOK, StoreOK
      <3> QED BY <2>11, <3>6, <3>7, <3>11, <1>a, <1>f DEF TypeOK, Record
    <2> QED BY <1>7, <2>2, <2>3, <2>4, <2>5, <2>6, <2>7, <2>8, <2>10, <2>11
          DEF RefreshNext
  <1>8. CASE Commit
    <2> DEFINE q == Head(queue)
    <2>1. q \in Command /\ Tail(queue) \in Seq(Command)
      BY <1>8 DEF Commit, TypeOK, StoreOK
    <2>2. q.custody \in Custodies
      BY <2>1 DEF Command
    <2>3. /\ row' \in [Custodies -> Option(CustodyRow)]
          /\ sessrow' \in [Custodies -> Option({"alive", "tombstoned"})]
      <3>1. CASE q.cmd = "custody_failure"
        <4>1. /\ q.status \in CustodyStatus
              /\ q.fail_count \in Nat
              /\ q.next_refresh \in Nat
          BY <2>1, <3>1 DEF Command
        <4>2. /\ UNCHANGED sessrow
              /\ row' = IF row[q.custody] = NULL THEN row
                        ELSE [row EXCEPT ![q.custody] =
                               [tok |-> row[q.custody].tok,
                                access_exp |-> row[q.custody].access_exp,
                                next_refresh |-> q.next_refresh, status |-> q.status,
                                fail_count |-> q.fail_count]]
          BY <1>8, <3>1 DEF Commit
        <4> HIDE DEF q
        <4> QED BY <2>2, <4>1, <4>2 DEF TypeOK, StoreOK, Option, CustodyRow
      <3>2. CASE q.cmd # "custody_failure"
        <4>1. /\ UNCHANGED row
              /\ \/ sessrow' = [sessrow EXCEPT ![q.custody] = "alive"]
                 \/ sessrow' = [sessrow EXCEPT ![q.custody] =
                                  IF @ = NULL THEN NULL ELSE "tombstoned"]
          BY <1>8, <3>2 DEF Commit
        <4> HIDE DEF q
        <4> QED BY <2>2, <4>1 DEF TypeOK, StoreOK, Option
      <3> QED BY <3>1, <3>2
    <2>4. StoreOK'
      BY <1>8, <2>1, <2>3 DEF Commit, StoreOK
    <2> QED BY <1>8, <2>4, <1>a, <1>b, <1>c, <1>d, <1>f DEF TypeOK, Commit
  <1>9. CASE CommitFails
    <2>1. StoreOK'
      BY <1>9 DEF CommitFails, TypeOK, StoreOK
    <2> QED BY <1>9, <2>1, <1>a, <1>b, <1>c, <1>d, <1>f DEF TypeOK, CommitFails
  <1>10. ASSUME NEW c \in Custodies, Logout(c) PROVE TypeOK'
    <2>1. SessionOK'
      BY <1>10 DEF Logout, Alive, TypeOK, SessionOK, Option
    <2>2. [cmd |-> "tombstone_session", custody |-> c] \in Command
      BY DEF Command
    <2>3. queue' \in Seq(Command)
      BY <1>10, <2>2 DEF Logout, TypeOK, StoreOK
    <2>4. StoreOK'
      BY <1>10, <2>3 DEF Logout, TypeOK, StoreOK
    <2> QED BY <1>10, <2>1, <2>4, <1>a, <1>b, <1>c, <1>f DEF TypeOK, Logout
  <1>11. CASE Reap
    <2>1. StoreOK'
      BY <1>11 DEF Reap, TypeOK, StoreOK, Option
    <2> QED BY <1>11, <2>1, <1>a, <1>b, <1>c, <1>d, <1>f DEF TypeOK, Reap
  <1>12. ASSUME NEW c \in Custodies, Revoke(c) PROVE TypeOK'
    <2>1. IdpOK'
      BY <1>12 DEF Revoke, TypeOK, IdpOK, ClockOK, Option, Grant
    <2> QED BY <1>12, <2>1, <1>a, <1>b, <1>c, <1>d, <1>e DEF TypeOK, Revoke
  <1>13. CASE Crash
    <2>1. ClockOK'
      <3>1. now' = now /\ up' = FALSE /\ restarts' = restarts + 1
        BY <1>13 DEF Crash
      <3>2. restarts' \in Nat
        BY <3>1 DEF TypeOK, ClockOK
      <3>3. up' \in BOOLEAN
        BY <3>1
      <3> QED BY <3>1, <3>2, <3>3 DEF TypeOK, ClockOK
    <2>2. SchedOK' /\ TickOK' /\ SessionOK'
      BY <1>13 DEF Crash, SchedOK, TickOK, SessionOK, Option
    <2>3. StoreOK'
      BY <1>13 DEF Crash, TypeOK, StoreOK
    <2>4. IdpOK'
      BY <1>13 DEF Crash, TypeOK, IdpOK, Orphaned
    <2> QED BY <2>1, <2>2, <2>3, <2>4 DEF TypeOK
  <1>14. CASE Boot
    <2>1. PICK rows \in SUBSET Restorable : \E o \in Orders(rows) :
            /\ entries' = [c \in Custodies |->
                  IF c \in rows
                  THEN [status |-> row[c].status, access_exp |-> row[c].access_exp,
                        next_refresh |-> RestoredAt(c, o[c], Cardinality(rows)),
                        fail_count |-> 0, refreshing |-> FALSE]
                  ELSE NULL]
            /\ due' = {<<RestoredAt(c, o[c], Cardinality(rows)), c>> : c \in rows}
      BY <1>14 DEF Boot
    <2>2. PICK o \in Orders(rows) :
            /\ entries' = [c \in Custodies |->
                  IF c \in rows
                  THEN [status |-> row[c].status, access_exp |-> row[c].access_exp,
                        next_refresh |-> RestoredAt(c, o[c], Cardinality(rows)),
                        fail_count |-> 0, refreshing |-> FALSE]
                  ELSE NULL]
            /\ due' = {<<RestoredAt(c, o[c], Cardinality(rows)), c>> : c \in rows}
      BY <2>1
    <2>3. \A c \in rows : /\ RestoredAt(c, o[c], Cardinality(rows)) \in Nat
                          /\ row[c] \in CustodyRow
                          /\ c \in Custodies
      BY RestoredAtNat DEF Restorable, TypeOK, StoreOK, Option
    <2>4. entries' \in [Custodies -> Option(CustodyState)]
      BY <2>2, <2>3 DEF Option, CustodyState, CustodyRow
    <2>5. due' \subseteq Nat \X Custodies
      BY <2>2, <2>3
    <2>6. SchedOK'
      BY <1>14, <2>4, <2>5 DEF Boot, TypeOK, ClockOK, SchedOK
    <2>7. SessionOK'
      BY <1>14 DEF Boot, SessionOK, Option, CustodyStatus
    <2>8. ClockOK'
      BY <1>14 DEF Boot, TypeOK, ClockOK
    <2> QED BY <1>14, <2>6, <2>7, <2>8, <1>c, <1>e, <1>f DEF TypeOK, Boot
  <1>15. CASE UNCHANGED vars
    BY <1>15, <1>a, <1>b, <1>c, <1>d, <1>e, <1>f DEF TypeOK, vars
  <1> QED BY <1>1, <1>2, <1>3, <1>4, <1>5, <1>6, <1>7, <1>8, <1>9, <1>10, <1>11,
             <1>12, <1>13, <1>14, <1>15 DEF Next

----------------------------------------------------------------------------
(***************************************************************************)
(* The inductive invariant: what the tick has in hand, and between ticks   *)
(* nothing.  The process that is down has nothing in memory.               *)
(***************************************************************************)
DownIsEmpty ==
    ~ up => \A c \in Custodies : entries[c] = NULL /\ flight[c] = NULL /\ c \notin batch

HandInv == TypeOK /\ OneRefreshAtATime /\ Issued /\ DownIsEmpty

LEMMA HandInit == Init => HandInv
  <1> SUFFICES ASSUME Init PROVE HandInv
    OBVIOUS
  <1>1. ClockOK /\ SchedOK
    BY ConstantsNat DEF Init, ClockOK, SchedOK, Option
  <1>2. TickOK /\ SessionOK /\ StoreOK /\ IdpOK
    BY DEF Init, TickOK, SessionOK, StoreOK, IdpOK, Option
  <1>3. OneRefreshAtATime /\ Issued /\ DownIsEmpty
    BY DEF Init, OneRefreshAtATime, Issued, DownIsEmpty, InHand
  <1> QED BY <1>1, <1>2, <1>3 DEF HandInv, TypeOK

\* Steps outside the tick leave what it has in hand alone.
LEMMA HandKept ==
  ASSUME OneRefreshAtATime, UNCHANGED <<entries, batch, flight>>
  PROVE  OneRefreshAtATime'
  BY DEF OneRefreshAtATime, InHand

\* A refresh task that goes on stays in hand.
LEMMA HandAdvanced ==
  ASSUME OneRefreshAtATime, NEW c \in Custodies, flight[c] # NULL,
         UNCHANGED <<entries, batch>>, TypeOK,
         NEW f, flight' = [flight EXCEPT ![c] = f]
  PROVE  OneRefreshAtATime'
  BY DEF OneRefreshAtATime, InHand, TypeOK, TickOK

LEMMA HandStep == HandInv /\ [Next]_vars => OneRefreshAtATime'
  <1> SUFFICES ASSUME HandInv, [Next]_vars PROVE OneRefreshAtATime'
    OBVIOUS
  <1> USE DEF HandInv
  <1>1. CASE Tick
    BY <1>1, HandKept DEF Tick, schedVars, tickVars
  <1>2. ASSUME NEW c \in Custodies, Login(c) PROVE OneRefreshAtATime'
    BY <1>2, HandKept DEF Login, tickVars
  <1>3. ASSUME NEW c \in Custodies, Receive(c) PROVE OneRefreshAtATime'
    BY <1>3 DEF Receive, Ticking, OneRefreshAtATime, InHand, tickVars
  <1>4. CASE ReceiveOther
    BY <1>4, HandKept DEF ReceiveOther, tickVars
  <1>5. CASE TakeDue
    <2>1. \A c \in Custodies : flight'[c] = NULL
      BY <1>5 DEF TakeDue, Ticking
    <2>2. ASSUME NEW c \in batch'
          PROVE /\ entries'[c] # NULL
                /\ entries'[c].refreshing
                /\ entries'[c].status # "dead"
      <3>1. c \in Ready /\ c \in Custodies /\ entries[c] \in CustodyState
        BY <1>5 DEF TakeDue, Ready, TypeOK, SchedOK, Option
      <3>2. entries'[c] = [entries[c] EXCEPT !.refreshing = TRUE]
        BY <1>5, <3>1 DEF TakeDue
      <3>3. entries'[c] \in CustodyState /\ entries'[c].refreshing
            /\ entries'[c].status = entries[c].status
        BY <3>1, <3>2 DEF CustodyState
      <3>4. NULL \notin CustodyState
        BY NullAssumption
      <3> QED BY <3>1, <3>3, <3>4 DEF Ready
    <2> QED BY <2>1, <2>2 DEF OneRefreshAtATime, InHand
  <1>6. CASE Dispatch
    <2>1. PICK chunk \in SUBSET batch :
            /\ flight' = [c \in Custodies |-> IF c \in chunk THEN NotStarted ELSE NULL]
            /\ batch' = batch \ chunk
      BY <1>6 DEF Dispatch
    <2>2. UNCHANGED entries
      BY <1>6 DEF Dispatch, schedVars
    <2>3. \A c \in Custodies : flight'[c] # NULL => c \in chunk
      BY <2>1
    <2> QED BY <2>1, <2>2, <2>3 DEF OneRefreshAtATime, InHand
  <1>7. ASSUME NEW c \in Custodies, RefreshNext(c) PROVE OneRefreshAtATime'
    <2>1. ASSUME flight[c] # NULL, UNCHANGED <<entries, batch>>,
                 \E f : flight' = [flight EXCEPT ![c] = f]
          PROVE  OneRefreshAtATime'
      BY <2>1, HandAdvanced
    <2>2. ASSUME NEW out, Finished(c, out)
          PROVE  \E f : flight' = [flight EXCEPT ![c] = f]
      BY <2>2 DEF Finished
    <2>3. CASE LoadCustody(c)
      BY <2>1, <2>2, <2>3 DEF LoadCustody, Stage, schedVars
    <2>4. CASE Granted(c)
      <3>1. \E f : flight' = [flight EXCEPT ![c] = f]
        BY <2>4 DEF Granted
      <3> QED BY <2>1, <2>4, <3>1 DEF Granted, Stage, schedVars
    <2>5. CASE Refused(c)
      BY <2>1, <2>2, <2>5 DEF Refused, Stage, schedVars
    <2>6. CASE Busy(c)
      BY <2>1, <2>2, <2>6 DEF Busy, Stage, schedVars
    <2>7. CASE AnswerLost(c)
      BY <2>1, <2>2, <2>7 DEF AnswerLost, Stage, schedVars
    <2>8. CASE StoreGrant(c)
      BY <2>1, <2>2, <2>8 DEF StoreGrant, Stage, schedVars
    <2>9. CASE StoreFails(c)
      BY <2>1, <2>2, <2>9 DEF StoreFails, Stage, schedVars
    <2>10. CASE Panic(c)
      BY <2>1, <2>10 DEF Panic, Joined, Stage
    <2>11. CASE Record(c)
      <3>1. /\ flight[c] # NULL
            /\ flight' = [flight EXCEPT ![c] = NULL]
            /\ UNCHANGED batch
            /\ \E e : entries' = [entries EXCEPT ![c] = e]
        BY <2>11 DEF Record, Stage, Joined
      <3>2. c \notin batch
        BY <3>1 DEF OneRefreshAtATime, InHand
      <3> QED BY <3>1, <3>2 DEF OneRefreshAtATime, InHand, TypeOK, TickOK, SchedOK
    <2> QED BY <1>7, <2>3, <2>4, <2>5, <2>6, <2>7, <2>8, <2>9, <2>10, <2>11
          DEF RefreshNext
  <1>8. CASE Commit
    BY <1>8, HandKept DEF Commit, schedVars, tickVars
  <1>9. CASE CommitFails
    BY <1>9, HandKept DEF CommitFails, schedVars, tickVars
  <1>10. ASSUME NEW c \in Custodies, Logout(c) PROVE OneRefreshAtATime'
    BY <1>10, HandKept DEF Logout, schedVars, tickVars
  <1>11. CASE Reap
    BY <1>11, HandKept DEF Reap, schedVars, tickVars
  <1>12. ASSUME NEW c \in Custodies, Revoke(c) PROVE OneRefreshAtATime'
    BY <1>12, HandKept DEF Revoke, schedVars, tickVars
  <1>13. CASE Crash
    BY <1>13 DEF Crash, OneRefreshAtATime, InHand
  <1>14. CASE Boot
    BY <1>14 DEF Boot, DownIsEmpty, OneRefreshAtATime, InHand, tickVars
  <1>15. CASE UNCHANGED vars
    BY <1>15, HandKept DEF vars, schedVars, tickVars
  <1> QED BY <1>1, <1>2, <1>3, <1>4, <1>5, <1>6, <1>7, <1>8, <1>9, <1>10, <1>11,
             <1>12, <1>13, <1>14, <1>15 DEF Next

LEMMA DownStep == HandInv /\ [Next]_vars => DownIsEmpty'
  <1> SUFFICES ASSUME HandInv, [Next]_vars, ~ up' PROVE DownIsEmpty'
    BY DEF DownIsEmpty
  <1>1. CASE Crash
    BY <1>1 DEF Crash, DownIsEmpty
  <1>2. CASE Tick \/ (\E c \in Custodies : Revoke(c)) \/ UNCHANGED vars
    BY <1>2 DEF Tick, Revoke, HandInv, DownIsEmpty, vars, clockVars, schedVars, tickVars
  <1>3. ASSUME NEW c \in Custodies, RefreshNext(c) PROVE FALSE
    <2>1. up /\ UNCHANGED clockVars
      <3>1. ASSUME NEW s, Stage(c, s) PROVE up
        BY <3>1 DEF Stage
      <3>2. CASE LoadCustody(c) \/ Granted(c) \/ Refused(c)
        BY <3>1, <3>2 DEF LoadCustody, Granted, Refused
      <3>3. CASE Busy(c) \/ AnswerLost(c) \/ Record(c)
        BY <3>1, <3>3 DEF Busy, AnswerLost, Record
      <3>4. CASE StoreGrant(c) \/ StoreFails(c) \/ Panic(c)
        BY <3>1, <3>4 DEF StoreGrant, StoreFails, Panic
      <3> QED BY <1>3, <3>2, <3>3, <3>4 DEF RefreshNext
    <2> QED BY <2>1 DEF clockVars
  <1>4. ASSUME NEW c \in Custodies, Login(c) \/ Receive(c) \/ Logout(c) PROVE FALSE
    BY <1>4 DEF Login, Receive, Logout, clockVars
  <1>5. CASE ReceiveOther \/ TakeDue \/ Dispatch
    BY <1>5 DEF ReceiveOther, TakeDue, Dispatch, clockVars
  <1>6. CASE Commit \/ CommitFails \/ Reap \/ Boot
    BY <1>6 DEF Commit, CommitFails, Reap, Boot, clockVars
  <1> QED BY <1>1, <1>2, <1>3, <1>4, <1>5, <1>6 DEF Next

\* The provider forgets no grant.
LEMMA GrantRemembered ==
  ASSUME HandInv, [Next]_vars, NEW c \in Custodies, grant[c] # NULL
  PROVE  grant'[c] # NULL
  <1>1. CASE UNCHANGED grant
    BY <1>1
  <1>2. ASSUME NEW d \in Custodies, NEW g \in Grant,
               grant' = [grant EXCEPT ![d] = g]
        PROVE  grant'[c] # NULL
    BY <1>2, NullAssumption DEF HandInv, TypeOK, IdpOK
  <1>3. ASSUME NEW d \in Custodies, RefreshNext(d) PROVE grant'[c] # NULL
    <2>1. CASE UNCHANGED idpVars
      BY <2>1 DEF idpVars
    <2>2. CASE Granted(d) \/ AnswerLost(d)
      <3>1. grant[d] \in Grant
        BY <2>2 DEF Granted, AnswerLost, Stage, HandInv, Issued, TypeOK, IdpOK, Option
      <3>2. CASE Granted(d)
        <4>1. PICK tok \in {grant[d].tok, grant[d].tok + 1} :
                grant' = [grant EXCEPT ![d].tok = tok]
          BY <3>2 DEF Granted
        <4>2. [grant[d] EXCEPT !.tok = tok] \in Grant
          BY <3>1, <4>1 DEF Grant
        <4> QED BY <1>2, <4>1, <4>2
      <3>3. CASE AnswerLost(d)
        <4>1. [grant[d] EXCEPT !.tok = @ + 1] \in Grant
          BY <3>1 DEF Grant
        <4> QED BY <1>2, <3>3, <4>1 DEF AnswerLost
      <3> QED BY <2>2, <3>2, <3>3
    <2>3. CASE StoreFails(d) \/ Panic(d)
      BY <2>3 DEF StoreFails, Panic
    <2> QED BY <1>3, <2>1, <2>2, <2>3
          DEF RefreshNext, LoadCustody, Refused, Busy, StoreGrant, Record
  <1>4. ASSUME NEW d \in Custodies, Revoke(d) PROVE grant'[c] # NULL
    <2>1. [grant[d] EXCEPT !.revoked_at = now] \in Grant
      BY <1>4 DEF Revoke, HandInv, TypeOK, IdpOK, ClockOK, Grant, Option
    <2> QED BY <1>2, <1>4, <2>1 DEF Revoke
  <1>5. ASSUME NEW d \in Custodies, Login(d) PROVE grant'[c] # NULL
    BY <1>5 DEF Login, HandInv, TypeOK, IdpOK
  <1>6. ASSUME NEW d \in Custodies, Receive(d) \/ Logout(d) PROVE UNCHANGED grant
    BY <1>6 DEF Receive, Logout, idpVars
  <1>7. CASE Tick \/ ReceiveOther \/ TakeDue \/ Dispatch \/ Commit \/ CommitFails
    BY <1>1, <1>7 DEF Tick, ReceiveOther, TakeDue, Dispatch, Commit, CommitFails, idpVars
  <1>8. CASE Reap \/ Crash \/ Boot \/ UNCHANGED vars
    BY <1>1, <1>8 DEF Reap, Crash, Boot, vars, idpVars
  <1> QED BY <1>1, <1>3, <1>4, <1>5, <1>6, <1>7, <1>8 DEF Next

LEMMA IssuedStep == HandInv /\ [Next]_vars => Issued'
  <1> DEFINE Called(c) == flight[c] # NULL /\ flight[c].stage \in {"calling", "storing"}
  <1> SUFFICES ASSUME HandInv, [Next]_vars, NEW c \in Custodies,
                      row'[c] # NULL \/ Called(c)'
               PROVE  grant'[c] # NULL
    BY DEF Issued
  <1>1. ASSUME row[c] # NULL \/ Called(c) PROVE grant'[c] # NULL
    BY <1>1, GrantRemembered DEF HandInv, Issued
  <1>2. CASE UNCHANGED <<row, flight>>
    BY <1>1, <1>2
  <1>3. ASSUME NEW d \in Custodies, Login(d) PROVE grant'[c] # NULL
    <2>1. CASE c = d
      <3>1. [tok |-> 1, revoked_at |-> NULL] \in Grant
        BY DEF Grant, Option
      <3> QED BY <1>3, <2>1, <3>1, NullAssumption DEF Login, HandInv, TypeOK, IdpOK
    <2>2. CASE c # d
      BY <1>1, <1>3, <2>2 DEF Login, tickVars, HandInv, TypeOK, StoreOK
    <2> QED BY <2>1, <2>2
  <1>4. ASSUME NEW d \in Custodies, RefreshNext(d) PROVE grant'[c] # NULL
    <2>1. ASSUME UNCHANGED row, NEW out, Finished(d, out) PROVE grant'[c] # NULL
      BY <1>1, <2>1 DEF Finished, HandInv, TypeOK, TickOK
    <2>2. CASE LoadCustody(d)
      <3>1. UNCHANGED row
        BY <2>2 DEF LoadCustody, storeVars
      <3>2. CASE row[d] # NULL /\ flight' = [flight EXCEPT ![d] =
                   [stage |-> "calling", tok |-> row[d].tok, at |-> now,
                    outcome |-> NULL]]
        BY <1>1, <3>1, <3>2 DEF HandInv, TypeOK, TickOK
      <3> QED BY <2>1, <2>2, <3>1, <3>2 DEF LoadCustody
    <2>3. CASE Granted(d)
      <3>1. UNCHANGED row /\ Called(d)
        BY <2>3 DEF Granted, Stage, storeVars
      <3>2. \E f : flight' = [flight EXCEPT ![d] = f]
        BY <2>3 DEF Granted
      <3> QED BY <1>1, <3>1, <3>2 DEF HandInv, TypeOK, TickOK
    <2>4. CASE Refused(d) \/ Busy(d) \/ AnswerLost(d) \/ StoreFails(d)
      BY <2>1, <2>4 DEF Refused, Busy, AnswerLost, StoreFails, storeVars
    <2>5. CASE StoreGrant(d)
      <3>1. row'[c] # NULL => row[c] # NULL
        BY <2>5 DEF StoreGrant, HandInv, TypeOK, StoreOK
      <3>2. Called(c)' => Called(c)
        BY <2>5 DEF StoreGrant, Finished, HandInv, TypeOK, TickOK
      <3> QED BY <1>1, <3>1, <3>2
    <2>6. CASE Panic(d) \/ Record(d)
      BY <1>1, <2>6 DEF Panic, Record, Joined, storeVars, HandInv, TypeOK, TickOK
    <2> QED BY <1>4, <2>2, <2>3, <2>4, <2>5, <2>6 DEF RefreshNext
  <1>5. CASE Dispatch
    <2>1. ~ Called(c)'
      BY <1>5 DEF Dispatch, NotStarted
    <2> QED BY <1>1, <1>5, <2>1 DEF Dispatch, storeVars
  <1>6. CASE Commit
    <2>1. row'[c] # NULL => row[c] # NULL
      BY <1>6 DEF Commit, HandInv, TypeOK, StoreOK
    <2> QED BY <1>1, <1>6, <2>1 DEF Commit, tickVars
  <1>7. CASE Reap
    BY <1>1, <1>7 DEF Reap, tickVars
  <1>8. CASE Crash
    BY <1>1, <1>8 DEF Crash
  <1>9. ASSUME NEW d \in Custodies, Receive(d) \/ Logout(d) \/ Revoke(d)
        PROVE  grant'[c] # NULL
    BY <1>2, <1>9 DEF Receive, Logout, Revoke, storeVars, tickVars
  <1>10. CASE Tick \/ ReceiveOther \/ TakeDue \/ CommitFails
    BY <1>2, <1>10 DEF Tick, ReceiveOther, TakeDue, CommitFails, storeVars, tickVars
  <1>11. CASE Boot \/ UNCHANGED vars
    BY <1>2, <1>11 DEF Boot, vars, storeVars, tickVars
  <1> QED BY <1>3, <1>4, <1>5, <1>6, <1>7, <1>8, <1>9, <1>10, <1>11 DEF Next

\* The inductive invariant holds in every state.
THEOREM HandInvariant == Spec => []HandInv
  <1>1. HandInv /\ [Next]_vars => HandInv'
    BY TypeStep, HandStep, IssuedStep, DownStep DEF HandInv
  <1> QED BY HandInit, <1>1, PTL DEF Spec

\* The type invariant of the keepalive worker and of what it touches.
THEOREM KeepaliveTypeCorrect == Spec => []TypeOK
  <1>1. HandInv => TypeOK
    BY DEF HandInv
  <1> QED BY HandInvariant, <1>1, PTL

\* No custody is refreshed twice at a time, whatever is due, fails, panics or
\* restarts.
THEOREM NoConcurrentRefresh == Spec => []OneRefreshAtATime
  <1>1. HandInv => OneRefreshAtATime
    BY DEF HandInv
  <1> QED BY HandInvariant, <1>1, PTL

----------------------------------------------------------------------------
(***************************************************************************)
(* The schedule.                                                           *)
(***************************************************************************)
LEMMA SchedKept ==
  ASSUME StaysScheduled, UNCHANGED <<entries, due, batch, flight>>
  PROVE  StaysScheduled'
  BY DEF StaysScheduled, InHand

\* A task that goes on leaves the schedule alone.
LEMMA SchedAdvanced ==
  ASSUME HandInv, StaysScheduled, NEW c \in Custodies,
         UNCHANGED <<entries, due, batch>>,
         NEW f \in Refresh, flight' = [flight EXCEPT ![c] = f]
  PROVE  StaysScheduled'
  BY NullAssumption DEF StaysScheduled, InHand, HandInv, TypeOK, TickOK

LEMMA SchedStep ==
  ASSUME "panic" \notin Faults
  PROVE  HandInv /\ StaysScheduled /\ [Next]_vars => StaysScheduled'
  <1> SUFFICES ASSUME HandInv, StaysScheduled, [Next]_vars PROVE StaysScheduled'
    OBVIOUS
  <1>0. TypeOK /\ OneRefreshAtATime
    BY DEF HandInv
  <1>1. CASE Tick
    BY <1>1, SchedKept DEF Tick, schedVars, tickVars
  <1>2. ASSUME NEW c \in Custodies, Login(c) PROVE StaysScheduled'
    BY <1>2, SchedKept DEF Login, tickVars
  <1>3. ASSUME NEW c \in Custodies, Receive(c) PROVE StaysScheduled'
    <2>1. PICK r \in schedule, d \in LeadDelays(Lifetime) :
            /\ entries' = [entries EXCEPT ![c] =
                  [status |-> "ok", access_exp |-> r.issued_at + Lifetime,
                   next_refresh |-> r.issued_at + d, fail_count |-> 0,
                   refreshing |-> FALSE]]
            /\ due' = due \cup {<<r.issued_at + d, c>>}
      BY <1>3 DEF Receive
    <2>2. \A b \in Custodies : ~ InHand(b)
      BY <1>3 DEF Receive, Ticking, InHand
    <2>3. \A b \in Custodies \ {c} : entries'[b] = entries[b]
      BY <2>1, <1>0 DEF TypeOK, SchedOK
    <2>4. ~ entries'[c].refreshing /\ <<entries'[c].next_refresh, c>> \in due'
      BY <2>1, <1>0 DEF TypeOK, SchedOK
    <2> QED BY <2>1, <2>2, <2>3, <2>4 DEF StaysScheduled
  <1>4. CASE ReceiveOther
    BY <1>4, SchedKept DEF ReceiveOther, tickVars
  <1>5. CASE TakeDue
    <2> SUFFICES ASSUME NEW c \in Custodies, entries'[c] # NULL,
                        entries'[c].status # "dead", c \notin Ready
                 PROVE  ~ entries'[c].refreshing /\ <<entries'[c].next_refresh, c>> \in due'
      BY <1>5 DEF TakeDue, StaysScheduled, InHand
    <2>1. entries'[c] = entries[c] /\ ~ InHand(c)
      BY <1>5 DEF TakeDue, Ticking, InHand
    <2>2. ~ entries[c].refreshing /\ <<entries[c].next_refresh, c>> \in due
      BY <2>1 DEF StaysScheduled
    <2>3. entries[c].next_refresh \in Nat /\ now \in Nat
      BY <2>1, <1>0 DEF TypeOK, SchedOK, ClockOK, Option, CustodyState
    <2>4. ~ (entries[c].next_refresh <= now)
      BY <2>1, <2>2 DEF Ready
    <2> QED BY <1>5, <2>1, <2>2, <2>3, <2>4 DEF TakeDue
  <1>6. CASE Dispatch
    <2>1. PICK chunk \in SUBSET batch :
            /\ flight' = [c \in Custodies |-> IF c \in chunk THEN NotStarted ELSE NULL]
            /\ batch' = batch \ chunk
      BY <1>6 DEF Dispatch
    <2>2. UNCHANGED <<entries, due>> /\ \A c \in Custodies : flight[c] = NULL
      BY <1>6 DEF Dispatch, schedVars
    <2>3. NotStarted # NULL
      BY NullAssumption DEF NotStarted, Refresh
    <2>4. \A c \in Custodies : InHand(c) => InHand(c)'
      BY <2>1, <2>2, <2>3 DEF InHand
    <2> QED BY <2>2, <2>4 DEF StaysScheduled
  <1>7. ASSUME NEW c \in Custodies, RefreshNext(c) PROVE StaysScheduled'
    <2>1. ASSUME UNCHANGED <<entries, due, batch>>,
                 NEW out \in {"success", "transient", "permanent"}, Finished(c, out)
          PROVE  StaysScheduled'
      <3>1. [stage |-> "done", tok |-> 0, at |-> 0, outcome |-> out] \in Refresh
        BY DEF Refresh
      <3> QED BY <2>1, <3>1, SchedAdvanced DEF Finished
    <2>2. CASE LoadCustody(c)
      <3>1. CASE row[c] # NULL /\ flight' = [flight EXCEPT ![c] =
                   [stage |-> "calling", tok |-> row[c].tok, at |-> now,
                    outcome |-> NULL]]
        <4>1. [stage |-> "calling", tok |-> row[c].tok, at |-> now,
               outcome |-> NULL] \in Refresh
          BY <3>1, <1>0 DEF TypeOK, StoreOK, ClockOK, Option, CustodyRow, Refresh
        <4> QED BY <2>2, <3>1, <4>1, SchedAdvanced DEF LoadCustody, schedVars
      <3> QED BY <2>1, <2>2, <3>1 DEF LoadCustody, schedVars
    <2>3. CASE Granted(c)
      <3>1. PICK tok \in {grant[c].tok, grant[c].tok + 1} :
              flight' = [flight EXCEPT ![c] =
                    [stage |-> "storing", tok |-> tok, at |-> flight[c].at,
                     outcome |-> NULL]]
        BY <2>3 DEF Granted
      <3>2. flight[c].at \in Nat /\ grant[c] \in Grant
        BY <2>3 DEF Granted, Stage, HandInv, Issued, TypeOK, TickOK, IdpOK, Option, Refresh
      <3>3. [stage |-> "storing", tok |-> tok, at |-> flight[c].at,
             outcome |-> NULL] \in Refresh
        BY <3>1, <3>2 DEF Grant, Refresh
      <3> QED BY <2>3, <3>1, <3>3, SchedAdvanced DEF Granted, schedVars
    <2>4. CASE Refused(c) \/ Busy(c) \/ AnswerLost(c)
      BY <2>1, <2>4 DEF Refused, Busy, AnswerLost, schedVars
    <2>5. CASE StoreGrant(c) \/ StoreFails(c)
      BY <2>1, <2>5 DEF StoreGrant, StoreFails, schedVars
    <2>6. CASE Panic(c)
      BY <2>6 DEF Panic
    <2>7. CASE Record(c)
      <3>1. /\ entries[c] \in CustodyState
            /\ flight[c].outcome \in {"success", "transient", "permanent"}
        BY <2>7, <1>0 DEF Record, Stage, OneRefreshAtATime, InHand, TypeOK, SchedOK,
                     TickOK, Option, Refresh
      <3>2. PICK e \in Recorded(entries[c], flight[c].outcome) :
              /\ entries' = [entries EXCEPT ![c] = e]
              /\ due' = IF e.status = "dead" THEN due ELSE due \cup {<<e.next_refresh, c>>}
        BY <2>7 DEF Record
      <3>3. ~ e.refreshing
        BY <3>1, <1>0, RecordedEntry DEF TypeOK, ClockOK
      <3>4. \A b \in Custodies \ {c} :
              entries'[b] = entries[b] /\ (InHand(b) => InHand(b)')
        BY <2>7, <3>2, <1>0 DEF Record, Joined, InHand, TypeOK, SchedOK, TickOK
      <3>5. entries'[c] = e
        BY <3>2, <1>0 DEF TypeOK, SchedOK
      <3>6. entries'[c].status # "dead" => <<entries'[c].next_refresh, c>> \in due'
        BY <3>2, <3>5
      <3>7. due \subseteq due'
        BY <3>2
      <3> QED BY <3>3, <3>4, <3>5, <3>6, <3>7 DEF StaysScheduled
    <2> QED BY <1>7, <2>2, <2>3, <2>4, <2>5, <2>6, <2>7 DEF RefreshNext
  <1>8. CASE Commit \/ CommitFails \/ Reap
    BY <1>8, SchedKept DEF Commit, CommitFails, Reap, schedVars, tickVars
  <1>9. ASSUME NEW c \in Custodies, Logout(c) \/ Revoke(c) PROVE StaysScheduled'
    BY <1>9, SchedKept DEF Logout, Revoke, schedVars, tickVars
  <1>10. CASE Crash
    BY <1>10 DEF Crash, StaysScheduled
  <1>11. CASE Boot
    <2>1. PICK rows \in SUBSET Restorable : \E o \in Orders(rows) :
            /\ entries' = [c \in Custodies |->
                  IF c \in rows
                  THEN [status |-> row[c].status, access_exp |-> row[c].access_exp,
                        next_refresh |-> RestoredAt(c, o[c], Cardinality(rows)),
                        fail_count |-> 0, refreshing |-> FALSE]
                  ELSE NULL]
            /\ due' = {<<RestoredAt(c, o[c], Cardinality(rows)), c>> : c \in rows}
      BY <1>11 DEF Boot
    <2>2. \A c \in Custodies : entries'[c] # NULL => c \in rows
      BY <2>1
    <2>3. \A c \in rows : /\ ~ entries'[c].refreshing
                          /\ <<entries'[c].next_refresh, c>> \in due'
      BY <2>1 DEF Restorable
    <2> QED BY <2>2, <2>3 DEF StaysScheduled
  <1>12. CASE UNCHANGED vars
    BY <1>12, SchedKept DEF vars, schedVars, tickVars
  <1> QED BY <1>1, <1>2, <1>3, <1>4, <1>5, <1>6, <1>7, <1>8, <1>9, <1>10, <1>11,
             <1>12 DEF Next

\* Unless a refresh task panics, no custody ever falls off the schedule, for
\* every policy, every other fault and any number of restarts.
THEOREM NoCustodyForgotten ==
  ASSUME "panic" \notin Faults
  PROVE  Spec => []StaysScheduled
  <1>1. Init => StaysScheduled
    BY DEF Init, StaysScheduled
  <1>2. HandInv /\ StaysScheduled /\ [Next]_vars => StaysScheduled'
    BY SchedStep
  <1> QED BY HandInvariant, <1>1, <1>2, PTL DEF Spec

----------------------------------------------------------------------------
(***************************************************************************)
(* The grant.                                                              *)
(***************************************************************************)
Storing(c) == flight[c] # NULL /\ flight[c].stage = "storing"

\* A task that stores holds the token the provider just gave it.
HoldsNewest == \A c \in Custodies : Storing(c) => flight[c].tok = grant[c].tok

GrantInv == HoldsNewest /\ GrantKept

\* The same, of one custody.
GrantInvOf(c) ==
    /\ Storing(c) => flight[c].tok = grant[c].tok
    /\ row[c] # NULL /\ c \notin lost => row[c].tok = grant[c].tok \/ Storing(c)

LEMMA GrantInvSplit == GrantInv <=> \A c \in Custodies : GrantInvOf(c)
  BY DEF GrantInv, HoldsNewest, GrantKept, GrantInvOf, Storing

\* A custody whose row, task and token a step leaves alone keeps its invariant.
LEMMA GrantInvFrame ==
  ASSUME NEW c \in Custodies, GrantInvOf(c), lost \subseteq lost',
         flight'[c] = flight[c], row'[c] = row[c] \/ row'[c] = NULL,
         grant'[c] = grant[c]
  PROVE  GrantInvOf(c)'
  BY DEF GrantInvOf, Storing

LEMMA GrantStep == HandInv /\ GrantInv /\ [Next]_vars => GrantInv'
  <1> SUFFICES ASSUME HandInv, GrantInv, [Next]_vars, NEW c \in Custodies
               PROVE  GrantInvOf(c)'
    BY GrantInvSplit DEF GrantInv, HoldsNewest, GrantKept, GrantInvOf, Storing
  <1>0. TypeOK /\ OneRefreshAtATime /\ Issued /\ GrantInvOf(c)
    BY GrantInvSplit DEF HandInv
  <1>1. CASE UNCHANGED <<flight, row, grant, lost>>
    BY <1>0, <1>1, GrantInvFrame
  <1>2. ASSUME NEW d \in Custodies, Login(d) PROVE GrantInvOf(c)'
    <2>1. CASE c = d
      <3>1. ~ Storing(c)'
        BY <1>0, <1>2, <2>1 DEF Login, tickVars, Storing, Issued
      <3>2. row'[c].tok = 1 /\ grant'[c].tok = 1
        BY <1>0, <1>2, <2>1 DEF Login, TypeOK, StoreOK, IdpOK
      <3> QED BY <3>1, <3>2 DEF GrantInvOf
    <2>2. CASE c # d
      <3>1. /\ flight'[c] = flight[c] /\ row'[c] = row[c] /\ grant'[c] = grant[c]
            /\ lost' = lost
        BY <1>2, <2>2, <1>0 DEF Login, tickVars, TypeOK, StoreOK, IdpOK
      <3> QED BY <1>0, <3>1, GrantInvFrame
    <2> QED BY <2>1, <2>2
  <1>3. ASSUME NEW d \in Custodies, RefreshNext(d) PROVE GrantInvOf(c)'
    <2>1. CASE c # d
      <3>1. lost \subseteq lost'
        BY <1>3 DEF RefreshNext, LoadCustody, Granted, Refused, Busy, AnswerLost,
                    StoreGrant, StoreFails, Panic, Record, idpVars
      <3>2. flight'[c] = flight[c]
        BY <1>3, <2>1, <1>0
        DEF RefreshNext, LoadCustody, Granted, Refused, Busy, AnswerLost, StoreGrant,
            StoreFails, Panic, Record, Finished, Joined, TypeOK, TickOK
      <3>3. row'[c] = row[c]
        BY <1>3, <2>1, <1>0
        DEF RefreshNext, LoadCustody, Granted, Refused, Busy, AnswerLost, StoreGrant,
            StoreFails, Panic, Record, storeVars, TypeOK, StoreOK
      <3>4. grant'[c] = grant[c]
        BY <1>3, <2>1, <1>0
        DEF RefreshNext, LoadCustody, Granted, Refused, Busy, AnswerLost, StoreGrant,
            StoreFails, Panic, Record, idpVars, TypeOK, IdpOK
      <3> QED BY <1>0, <3>1, <3>2, <3>3, <3>4, GrantInvFrame
    <2>2. CASE c = d
      <3>1. ASSUME ~ Storing(c), ~ Storing(c)', UNCHANGED row,
                   grant'[c].tok = grant[c].tok, lost \subseteq lost'
            PROVE  GrantInvOf(c)'
        BY <3>1, <1>0 DEF GrantInvOf
      <3>2. ASSUME NEW out, Finished(c, out) PROVE ~ Storing(c)'
        BY <3>2, <1>0 DEF Finished, Storing, TypeOK, TickOK
      <3>3. CASE LoadCustody(c)
        <4>1. ~ Storing(c) /\ UNCHANGED <<row, grant, lost>>
          BY <3>3 DEF LoadCustody, Stage, Storing, storeVars, idpVars
        <4>2. ~ Storing(c)'
          BY <3>2, <3>3, <1>0 DEF LoadCustody, Storing, TypeOK, TickOK
        <4> QED BY <3>1, <4>1, <4>2
      <3>4. CASE Granted(c)
        <4>1. PICK tok \in {grant[c].tok, grant[c].tok + 1} :
                /\ grant' = [grant EXCEPT ![c].tok = tok]
                /\ flight' = [flight EXCEPT ![c] =
                      [stage |-> "storing", tok |-> tok, at |-> flight[c].at,
                       outcome |-> NULL]]
          BY <3>4 DEF Granted
        <4>2. grant[c] \in Grant
          BY <3>4, <1>0 DEF Granted, Stage, Issued, TypeOK, IdpOK, Option
        <4>3. flight'[c].stage = "storing" /\ flight'[c].tok = tok
          BY <4>1, <1>0 DEF TypeOK, TickOK
        <4>4. grant'[c].tok = tok
          BY <4>1, <4>2, <1>0 DEF TypeOK, IdpOK, Grant
        <4>5. flight[c].at \in Nat
          BY <3>4, <1>0 DEF Granted, Stage, TypeOK, TickOK, Option, Refresh
        <4>6. flight'[c] \in Refresh
          BY <4>1, <4>2, <4>5, <1>0 DEF TypeOK, TickOK, Grant, Refresh
        <4>7. flight'[c] # NULL
          BY <4>6, NullAssumption
        <4> QED BY <4>3, <4>4, <4>7 DEF GrantInvOf, Storing
      <3>5. CASE Refused(c)
        BY <3>1, <3>2, <3>5 DEF Refused, Stage, Storing, storeVars, idpVars
      <3>6. CASE Busy(c)
        BY <3>1, <3>2, <3>6 DEF Busy, Stage, Storing, storeVars, idpVars
      <3>7. CASE AnswerLost(c) \/ StoreFails(c)
        <4>1. c \in lost' /\ ~ Storing(c)'
          BY <3>2, <3>7 DEF AnswerLost, StoreFails
        <4> QED BY <4>1 DEF GrantInvOf
      <3>8. CASE StoreGrant(c)
        <4>1. ~ Storing(c)' /\ UNCHANGED grant
          BY <3>2, <3>8 DEF StoreGrant, idpVars
        <4>2. flight[c].tok = grant[c].tok
          BY <3>8, <1>0 DEF StoreGrant, Stage, GrantInvOf, Storing
        <4>3. row'[c] # NULL => row'[c].tok = flight[c].tok
          BY <3>8, <1>0 DEF StoreGrant, TypeOK, StoreOK
        <4> QED BY <4>1, <4>2, <4>3 DEF GrantInvOf
      <3>9. CASE Panic(c)
        <4>1. ~ Storing(c)' /\ UNCHANGED <<row, grant>>
          BY <3>9, <1>0 DEF Panic, Joined, Storing, storeVars, TypeOK, TickOK
        <4>2. lost \subseteq lost' /\ (Storing(c) => c \in lost')
          BY <3>9 DEF Panic, Orphaned, Storing
        <4> QED BY <4>1, <4>2, <1>0 DEF GrantInvOf
      <3>10. CASE Record(c)
        <4>1. ~ Storing(c) /\ UNCHANGED <<row, grant, lost>>
          BY <3>10 DEF Record, Stage, Storing, idpVars
        <4>2. ~ Storing(c)'
          BY <3>10, <1>0 DEF Record, Joined, Storing, TypeOK, TickOK
        <4> QED BY <3>1, <4>1, <4>2
      <3> QED BY <1>3, <2>2, <3>3, <3>4, <3>5, <3>6, <3>7, <3>8, <3>9, <3>10
            DEF RefreshNext
    <2> QED BY <2>1, <2>2
  <1>4. CASE Dispatch
    <2>1. ~ Storing(c) /\ ~ Storing(c)' /\ UNCHANGED <<row, grant, lost>>
      BY <1>4 DEF Dispatch, NotStarted, Storing, storeVars, idpVars
    <2> QED BY <1>0, <2>1 DEF GrantInvOf
  <1>5. CASE Commit
    <2>1. row'[c] = row[c] \/ (row[c] # NULL /\ row'[c].tok = row[c].tok)
      <3> DEFINE d == Head(queue).custody
      <3>1. \/ UNCHANGED row
            \/ /\ row[d] # NULL
               /\ row' = [row EXCEPT ![d] =
                           [tok |-> row[d].tok, access_exp |-> row[d].access_exp,
                            next_refresh |-> Head(queue).next_refresh,
                            status |-> Head(queue).status,
                            fail_count |-> Head(queue).fail_count]]
        BY <1>5 DEF Commit
      <3> HIDE DEF d
      <3>2. row \in [Custodies -> Option(CustodyRow)]
        BY <1>0 DEF TypeOK, StoreOK
      <3>3. CASE c = d
        BY <3>1, <3>2, <3>3
      <3>4. CASE c # d
        BY <3>1, <3>2, <3>4
      <3> QED BY <3>3, <3>4
    <2>2. UNCHANGED <<flight, grant, lost>>
      BY <1>5 DEF Commit, tickVars, idpVars
    <2> QED BY <1>0, <2>1, <2>2 DEF GrantInvOf, Storing
  <1>6. CASE Reap
    <2>1. row'[c] = row[c] \/ row'[c] = NULL
      BY <1>6 DEF Reap
    <2> QED BY <1>0, <1>6, <2>1, GrantInvFrame DEF Reap, tickVars, idpVars
  <1>7. ASSUME NEW d \in Custodies, Revoke(d) PROVE GrantInvOf(c)'
    <2>1. grant'[c].tok = grant[c].tok
      BY <1>7, <1>0 DEF Revoke, TypeOK, IdpOK, Grant, Option
    <2> QED BY <1>0, <1>7, <2>1 DEF Revoke, GrantInvOf, Storing, tickVars, storeVars
  <1>8. CASE Crash
    <2>1. ~ Storing(c)' /\ UNCHANGED <<row, grant>>
      BY <1>8 DEF Crash, Storing
    <2>2. lost \subseteq lost' /\ (Storing(c) => c \in lost')
      BY <1>8 DEF Crash, Orphaned, Storing
    <2> QED BY <1>0, <2>1, <2>2 DEF GrantInvOf
  <1>9. ASSUME NEW d \in Custodies, Receive(d) \/ Logout(d) PROVE GrantInvOf(c)'
    BY <1>1, <1>9 DEF Receive, Logout, tickVars, storeVars, idpVars
  <1>10. CASE Tick \/ ReceiveOther \/ TakeDue \/ CommitFails
    BY <1>1, <1>10 DEF Tick, ReceiveOther, TakeDue, CommitFails, tickVars, storeVars,
                       idpVars
  <1>11. CASE Boot \/ UNCHANGED vars
    BY <1>1, <1>11 DEF Boot, vars, tickVars, storeVars, idpVars
  <1> QED BY <1>2, <1>3, <1>4, <1>5, <1>6, <1>7, <1>8, <1>9, <1>10, <1>11 DEF Next

\* The broker never burns a grant by itself: unless an answer or the task that
\* held it was lost, the row has the refresh token the provider will honour.
THEOREM GrantNeverBurnt == Spec => []GrantKept
  <1>1. Init => GrantInv
    BY DEF Init, GrantInv, HoldsNewest, GrantKept, Storing
  <1>2. GrantInv => GrantKept
    BY DEF GrantInv
  <1> QED BY HandInvariant, GrantStep, <1>1, <1>2, PTL DEF Spec

----------------------------------------------------------------------------
(***************************************************************************)
(* What the row, the schedule and the session say of one grant.            *)
(***************************************************************************)
Sent(q) == {q[i] : i \in 1..Len(q)}

\* The failures of custody c on their way to its row.
FailuresOf(c, q) == {m \in Sent(q) : m.cmd = "custody_failure" /\ m.custody = c}

\* A new grant is in the row and not yet in the schedule.
Fresh(c) == flight[c] # NULL /\ flight[c].stage = "done" /\ flight[c].outcome = "success"

\* A login whose request the worker has not received: nothing has happened to
\* its custody since.
NewbornOf(c) ==
    \A r \in schedule : r.custody = c =>
        /\ grant[c] # NULL
        /\ entries[c] = NULL
        /\ FailuresOf(c, queue) = {}
        /\ row[c] # NULL => row[c].status = "ok" /\ row[c].access_exp = r.issued_at + Lifetime
        /\ \A q \in schedule : q.custody = c => q = r

\* A grant that is dead in its row, or about to be, is dead in the schedule.
DeadOf(c) ==
    \/ row[c] # NULL /\ row[c].status = "dead"
    \/ \E m \in FailuresOf(c, queue) : m.status = "dead"
    => entries[c] = NULL \/ entries[c].status = "dead"

\* The schedule never believes in an earlier end of the access token than the
\* row, and the end is at most a lifetime away.
ExpiryOf(c) ==
    /\ row[c] # NULL => row[c].access_exp <= now + Lifetime
    /\ flight[c] # NULL => flight[c].at <= now
    /\ entries[c] # NULL /\ row[c] # NULL =>
          row[c].access_exp <= entries[c].access_exp \/ Fresh(c)

ShownOf(c) ==
    session[c] # NULL /\ session[c].health = "degraded" /\ row[c] # NULL =>
        now >= row[c].access_exp \/ Fresh(c)

LedgerOf(c) ==
    /\ entries[c] # NULL => grant[c] # NULL
    /\ NewbornOf(c)
    /\ DeadOf(c)
    /\ ExpiryOf(c)
    /\ ShownOf(c)

Ledger == \A c \in Custodies : LedgerOf(c)

NothingQueuedDown == ~ up => queue = <<>> /\ schedule = {}

LEMMA SentTail ==
  ASSUME NEW q \in Seq(Command), q # <<>>
  PROVE  Sent(Tail(q)) \subseteq Sent(q) /\ Head(q) \in Sent(q)
  <1>1. Len(q) \in Nat /\ Len(q) >= 1 /\ Len(Tail(q)) = Len(q) - 1
    OBVIOUS
  <1>2. \A i \in 1..Len(Tail(q)) : Tail(q)[i] = q[i + 1] /\ i + 1 \in 1..Len(q)
    BY <1>1
  <1>3. Head(q) = q[1] /\ 1 \in 1..Len(q)
    BY <1>1
  <1> QED BY <1>2, <1>3 DEF Sent

LEMMA SentAppend ==
  ASSUME NEW q \in Seq(Command), NEW p \in Seq(Command)
  PROVE  Sent(q \o p) \subseteq Sent(q) \cup Sent(p)
  <1>1. \A i \in 1..Len(q \o p) :
          \/ i \in 1..Len(q) /\ (q \o p)[i] = q[i]
          \/ i - Len(q) \in 1..Len(p) /\ (q \o p)[i] = p[i - Len(q)]
    OBVIOUS
  <1> QED BY <1>1 DEF Sent

LEMMA SentOne ==
  ASSUME NEW m
  PROVE  Sent(<<m>>) = {m} /\ Sent(<<>>) = {}
  BY DEF Sent

\* A step that leaves what is said of custody c alone, or deletes its row.
LEMMA LedgerFrame ==
  ASSUME NEW c \in Custodies, TypeOK, LedgerOf(c),
         \/ entries'[c] = entries[c]
         \/ /\ entries[c] # NULL /\ entries'[c] # NULL
            /\ entries'[c].status = entries[c].status
            /\ entries'[c].access_exp = entries[c].access_exp,
         flight'[c] = flight[c],
         session'[c] # NULL => session[c] # NULL /\ session'[c].health = session[c].health,
         row'[c] = row[c] \/ row'[c] = NULL,
         grant[c] # NULL => grant'[c] # NULL,
         \A r \in schedule' : r.custody = c => r \in schedule,
         FailuresOf(c, queue') \subseteq FailuresOf(c, queue),
         now' = now \/ now' = now + 1
  PROVE  LedgerOf(c)'
  <1>1. /\ now \in Nat /\ Lifetime \in Nat
        /\ row[c] # NULL => row[c].access_exp \in Nat
        /\ flight[c] # NULL => flight[c].at \in Nat
    BY ConstantsNat DEF TypeOK, ClockOK, StoreOK, TickOK, Option, CustodyRow, Refresh
  <1>2. entries'[c] = NULL <=> entries[c] = NULL
    OBVIOUS
  <1>3. (entries[c] # NULL => grant[c] # NULL)' /\ NewbornOf(c)' /\ DeadOf(c)'
    BY <1>2 DEF LedgerOf, NewbornOf, DeadOf
  <1>4. Fresh(c)' = Fresh(c)
    BY DEF Fresh
  <1>5. ExpiryOf(c)'
    BY <1>1, <1>2, <1>4 DEF LedgerOf, ExpiryOf
  <1>6. ShownOf(c)'
    BY <1>1, <1>4 DEF LedgerOf, ShownOf
  <1> QED BY <1>3, <1>5, <1>6 DEF LedgerOf

LEMMA LedgerInit == Init => Ledger /\ NothingQueuedDown
  BY DEF Init, Ledger, LedgerOf, NewbornOf, DeadOf, ExpiryOf, ShownOf, FailuresOf, Sent,
         NothingQueuedDown

LEMMA QueueDownStep == NothingQueuedDown /\ [Next]_vars => NothingQueuedDown'
  <1> SUFFICES ASSUME NothingQueuedDown, [Next]_vars, ~ up' PROVE NothingQueuedDown'
    BY DEF NothingQueuedDown
  <1>1. CASE Crash
    BY <1>1 DEF Crash, NothingQueuedDown
  <1>2. CASE Tick \/ (\E c \in Custodies : Revoke(c)) \/ UNCHANGED vars
    BY <1>2 DEF Tick, Revoke, NothingQueuedDown, vars, clockVars, schedVars, storeVars
  <1>3. ASSUME NEW c \in Custodies, RefreshNext(c) PROVE FALSE
    <2>1. up /\ UNCHANGED clockVars
      <3>1. ASSUME NEW s, Stage(c, s) PROVE up
        BY <3>1 DEF Stage
      <3>2. CASE LoadCustody(c) \/ Granted(c) \/ Refused(c)
        BY <3>1, <3>2 DEF LoadCustody, Granted, Refused
      <3>3. CASE Busy(c) \/ AnswerLost(c) \/ Record(c)
        BY <3>1, <3>3 DEF Busy, AnswerLost, Record
      <3>4. CASE StoreGrant(c) \/ StoreFails(c) \/ Panic(c)
        BY <3>1, <3>4 DEF StoreGrant, StoreFails, Panic
      <3> QED BY <1>3, <3>2, <3>3, <3>4 DEF RefreshNext
    <2> QED BY <2>1 DEF clockVars
  <1>4. ASSUME NEW c \in Custodies, Login(c) \/ Receive(c) \/ Logout(c) PROVE FALSE
    BY <1>4 DEF Login, Receive, Logout, clockVars
  <1>5. CASE ReceiveOther \/ TakeDue \/ Dispatch
    BY <1>5 DEF ReceiveOther, TakeDue, Dispatch, clockVars
  <1>6. CASE Commit \/ CommitFails \/ Reap \/ Boot
    BY <1>6 DEF Commit, CommitFails, Reap, Boot, clockVars
  <1> QED BY <1>1, <1>2, <1>3, <1>4, <1>5, <1>6 DEF Next

\* A refresh task that goes on, with nothing stored by this step: whether it
\* fails or asks the provider, the row and the schedule say what they said.
LEMMA TaskLedger ==
  ASSUME NEW c \in Custodies, TypeOK, LedgerOf(c), flight[c] # NULL, ~ Fresh(c),
         NEW f, flight' = [flight EXCEPT ![c] = f],
         f # NULL => f.at \in Nat /\ f.at <= now /\ ~ (f.stage = "done" /\ f.outcome = "success"),
         UNCHANGED <<entries, session, row, schedule, queue, now>>,
         grant[c] # NULL => grant'[c] # NULL
  PROVE  LedgerOf(c)'
  <1>1. flight'[c] = f
    BY DEF TypeOK, TickOK
  <1>2. ~ Fresh(c)'
    BY <1>1 DEF Fresh
  <1>3. (entries[c] # NULL => grant[c] # NULL)' /\ NewbornOf(c)' /\ DeadOf(c)'
    BY DEF LedgerOf, NewbornOf, DeadOf
  <1>4. ExpiryOf(c)' /\ ShownOf(c)'
    BY <1>1, <1>2 DEF LedgerOf, ExpiryOf, ShownOf
  <1> QED BY <1>3, <1>4 DEF LedgerOf

\* What a task does to another custody: nothing.
LEMMA TaskFrame ==
  ASSUME HandInv, [Next]_vars, NEW c \in Custodies, NEW d \in Custodies, c # d,
         LedgerOf(c), RefreshNext(d)
  PROVE  LedgerOf(c)'
  <1>0. TypeOK
    BY DEF HandInv
  <1>1. flight'[c] = flight[c]
    BY <1>0 DEF RefreshNext, LoadCustody, Granted, Refused, Busy, AnswerLost, StoreGrant,
                StoreFails, Panic, Record, Finished, Joined, TypeOK, TickOK
  <1>2. row'[c] = row[c]
    BY <1>0 DEF RefreshNext, LoadCustody, Granted, Refused, Busy, AnswerLost, StoreGrant,
                StoreFails, Panic, Record, storeVars, TypeOK, StoreOK
  <1>3. grant[c] # NULL => grant'[c] # NULL
    BY GrantRemembered
  <1>4. schedule' = schedule /\ now' = now
    BY DEF RefreshNext, LoadCustody, Granted, Refused, Busy, AnswerLost, StoreGrant,
           StoreFails, Panic, Record, schedVars, clockVars
  <1>5. CASE Record(d)
    <2>1. PICK e \in Recorded(entries[d], flight[d].outcome) :
            /\ entries' = [entries EXCEPT ![d] = e]
            /\ session' = IF session[d] = NULL THEN session
                          ELSE [session EXCEPT
                               ![d] = [status |-> IF Kills(d) THEN "tombstoned"
                                                  ELSE session[d].status,
                                       health |-> e.status]]
            /\ queue' = queue
               \o (IF flight[d].outcome = "success" THEN <<>> ELSE <<Failure(d, e)>>)
               \o (IF Kills(d)
                   THEN <<[cmd |-> "tombstone_session", custody |-> d]>> ELSE <<>>)
      BY <1>5 DEF Record
    <2>2. entries'[c] = entries[c] /\ session'[c] = session[c]
      BY <1>0, <2>1 DEF TypeOK, SchedOK, SessionOK
    <2>3. FailuresOf(c, queue') \subseteq FailuresOf(c, queue)
      <3> DEFINE p == IF flight[d].outcome = "success" THEN <<>> ELSE <<Failure(d, e)>>
                 r == IF Kills(d)
                      THEN <<[cmd |-> "tombstone_session", custody |-> d]>> ELSE <<>>
      <3>1. entries[d] \in CustodyState /\ now \in Nat /\ queue \in Seq(Command)
            /\ flight[d].outcome \in {"success", "transient", "permanent"}
        BY <1>0, <1>5 DEF Record, Stage, HandInv, OneRefreshAtATime, InHand, TypeOK, ClockOK,
                     SchedOK, StoreOK, TickOK, Option, Refresh
      <3>2. e \in CustodyState
        BY <2>1, <3>1, RecordedEntry
      <3>3. Failure(d, e) \in Command
        BY <3>2 DEF Failure, Command, CustodyState
      <3>4. p \in Seq(Command) /\ Sent(p) \subseteq {Failure(d, e)}
        BY <3>3, SentOne
      <3>5. /\ r \in Seq(Command)
            /\ Sent(r) \subseteq {[cmd |-> "tombstone_session", custody |-> d]}
        <4> DEFINE m == [cmd |-> "tombstone_session", custody |-> d]
        <4>1. m \in Command
          BY DEF Command
        <4> HIDE DEF m
        <4>2. r = IF Kills(d) THEN <<m>> ELSE <<>>
          BY DEF m
        <4> HIDE DEF r
        <4>3. r \in Seq(Command) /\ Sent(r) \subseteq {m}
          BY <4>1, <4>2, SentOne
        <4> QED BY <4>3 DEF m
      <3> HIDE DEF p, r
      <3>6. queue' = (queue \o p) \o r /\ queue \o p \in Seq(Command)
        BY <2>1, <3>1, <3>4 DEF p, r
      <3>7. Sent(queue') \subseteq Sent(queue) \cup Sent(p) \cup Sent(r)
        BY <3>1, <3>4, <3>5, <3>6, SentAppend
      <3>8. \A m \in Sent(p) \cup Sent(r) : m.custody = d
        BY <3>4, <3>5 DEF Failure
      <3> QED BY <3>7, <3>8 DEF FailuresOf
    <2> QED BY <1>0, <1>1, <1>2, <1>3, <1>4, <2>2, <2>3, LedgerFrame
  <1>6. CASE ~ Record(d)
    <2>1. UNCHANGED <<entries, session, queue>>
      BY <1>6 DEF RefreshNext, LoadCustody, Granted, Refused, Busy, AnswerLost, StoreGrant,
                  StoreFails, Panic, schedVars, storeVars
    <2> QED BY <1>0, <1>1, <1>2, <1>3, <1>4, <2>1, LedgerFrame
  <1> QED BY <1>5, <1>6

\* The write-through of a new grant.
LEMMA StoreGrantLedger ==
  ASSUME HandInv, NEW c \in Custodies, LedgerOf(c), StoreGrant(c)
  PROVE  LedgerOf(c)'
  <1>1. /\ flight[c] # NULL /\ flight[c].at \in Nat /\ now \in Nat /\ Lifetime \in Nat
        /\ entries[c] # NULL /\ queue = <<>>
    BY ConstantsNat DEF StoreGrant, Stage, HandInv, OneRefreshAtATime, InHand, TypeOK, TickOK,
                        ClockOK, Option, Refresh
  <1>2. /\ UNCHANGED <<entries, session, schedule, queue, now, grant>>
        /\ flight'[c] = [stage |-> "done", tok |-> 0, at |-> 0, outcome |-> "success"]
    BY DEF StoreGrant, Finished, HandInv, TypeOK, TickOK, schedVars, clockVars, idpVars
  <1>3. /\ row'[c] # NULL => row[c] # NULL
        /\ row'[c] # NULL => /\ row'[c].access_exp = flight[c].at + Lifetime
                             /\ row'[c].status = "ok"
    BY DEF StoreGrant, HandInv, TypeOK, StoreOK
  <1>4. flight'[c] \in Refresh /\ flight'[c] # NULL
    BY <1>2, NullAssumption DEF Refresh
  <1>5. Fresh(c)'
    BY <1>2, <1>4 DEF Fresh
  <1>6. flight[c].at <= now
    BY <1>1 DEF LedgerOf, ExpiryOf
  <1>7. NewbornOf(c)' /\ (entries[c] # NULL => grant[c] # NULL)'
    BY <1>1, <1>2 DEF LedgerOf, NewbornOf
  <1>8. DeadOf(c)'
    BY <1>2, <1>3 DEF LedgerOf, DeadOf
  <1>9. ExpiryOf(c)' /\ ShownOf(c)'
    BY <1>1, <1>2, <1>3, <1>5, <1>6 DEF ExpiryOf, ShownOf
  <1> QED BY <1>7, <1>8, <1>9 DEF LedgerOf

\* The outcome of a refresh reaches the schedule, the session and the queue.
LEMMA RecordLedger ==
  ASSUME HandInv, NEW c \in Custodies, LedgerOf(c), Record(c)
  PROVE  LedgerOf(c)'
  <1> DEFINE o == flight[c].outcome
  <1>1. /\ entries[c] \in CustodyState /\ entries[c] # NULL /\ entries[c].status # "dead"
        /\ now \in Nat /\ Lifetime \in Nat /\ queue \in Seq(Command)
        /\ flight[c] # NULL /\ flight[c].stage = "done"
        /\ o \in {"success", "transient", "permanent"}
        /\ row[c] # NULL => row[c].access_exp \in Nat
    BY ConstantsNat DEF Record, Stage, HandInv, OneRefreshAtATime, InHand, TypeOK, ClockOK,
                   SchedOK, StoreOK, TickOK, Option, Refresh, CustodyRow
  <1>2. PICK e \in Recorded(entries[c], o) :
            /\ entries' = [entries EXCEPT ![c] = e]
            /\ session' = IF session[c] = NULL THEN session
                          ELSE [session EXCEPT
                               ![c] = [status |-> IF Kills(c) THEN "tombstoned"
                                                  ELSE session[c].status,
                                       health |-> e.status]]
            /\ queue' = queue
               \o (IF o = "success" THEN <<>> ELSE <<Failure(c, e)>>)
               \o (IF Kills(c)
                   THEN <<[cmd |-> "tombstone_session", custody |-> c]>> ELSE <<>>)
    BY DEF Record
  <1>3. /\ UNCHANGED <<schedule, row, grant, now>>
        /\ flight'[c] = NULL
    BY DEF Record, Joined, HandInv, TypeOK, TickOK, idpVars, clockVars
  <1> HIDE DEF o
  <1>4. e \in CustodyState /\ (e.status = "dead" <=> o = "permanent")
    BY <1>1, RecordedEntry
  <1>5. /\ o = "success" => e.access_exp = now + Lifetime /\ e.status = "ok"
        /\ o # "success" => e.access_exp = entries[c].access_exp
        /\ o # "success" /\ e.status = "degraded" => now >= entries[c].access_exp
    <2>1. CASE o = "success"
      BY <1>2, <2>1 DEF Recorded
    <2>2. CASE o = "transient"
      <3>1. PICK d \in BackoffDelays(entries[c].fail_count, NULL) :
              e = [status |-> IF now >= entries[c].access_exp THEN "degraded" ELSE "ok",
                   access_exp |-> entries[c].access_exp, next_refresh |-> now + d,
                   fail_count |-> entries[c].fail_count + 1, refreshing |-> FALSE]
        BY <2>2 DEF Recorded
      <3> QED BY <2>2, <3>1
    <2>3. CASE o = "permanent"
      BY <1>1, <2>3 DEF Recorded, CustodyState
    <2> QED BY <1>1, <2>1, <2>2, <2>3
  <1>6. entries'[c] = e /\ e # NULL
    BY <1>2, <1>4, NullAssumption DEF HandInv, TypeOK, SchedOK
  <1>7. session'[c] # NULL => session'[c].health = e.status
    BY <1>2 DEF HandInv, TypeOK, SessionOK
  <1>8. \A m \in FailuresOf(c, queue') :
          m \in FailuresOf(c, queue) \/ m.status = e.status
    <2> DEFINE p == IF o = "success" THEN <<>> ELSE <<Failure(c, e)>>
               r == IF Kills(c)
                    THEN <<[cmd |-> "tombstone_session", custody |-> c]>> ELSE <<>>
    <2>1. Failure(c, e) \in Command /\ Failure(c, e).status = e.status
      BY <1>4 DEF Failure, Command, CustodyState
    <2>2. p \in Seq(Command) /\ Sent(p) \subseteq {Failure(c, e)}
      BY <2>1, SentOne
    <2>3. /\ r \in Seq(Command)
          /\ Sent(r) \subseteq {[cmd |-> "tombstone_session", custody |-> c]}
      <3> DEFINE m == [cmd |-> "tombstone_session", custody |-> c]
      <3>1. m \in Command
        BY DEF Command
      <3> HIDE DEF m
      <3>2. r = IF Kills(c) THEN <<m>> ELSE <<>>
        BY DEF m
      <3> HIDE DEF r
      <3>3. r \in Seq(Command) /\ Sent(r) \subseteq {m}
        BY <3>1, <3>2, SentOne
      <3> QED BY <3>3 DEF m
    <2> HIDE DEF p, r
    <2>4. queue' = (queue \o p) \o r /\ queue \o p \in Seq(Command)
      BY <1>1, <1>2, <2>2 DEF p, r
    <2>5. Sent(queue') \subseteq Sent(queue) \cup Sent(p) \cup Sent(r)
      BY <1>1, <2>2, <2>3, <2>4, SentAppend
    <2> QED BY <2>1, <2>2, <2>3, <2>5 DEF FailuresOf
  <1>9. ~ Fresh(c)' /\ (Fresh(c) <=> o = "success")
    BY <1>1, <1>3 DEF Fresh, o
  <1>10. (entries[c] # NULL => grant[c] # NULL)' /\ NewbornOf(c)'
    BY <1>1, <1>3 DEF LedgerOf, NewbornOf
  <1>11. DeadOf(c)'
    <2>1. /\ ~ (row[c] # NULL /\ row[c].status = "dead")
          /\ \A m \in FailuresOf(c, queue) : m.status # "dead"
      BY <1>1 DEF LedgerOf, DeadOf
    <2> QED BY <1>3, <1>6, <1>8, <2>1 DEF DeadOf
  <1>12. ExpiryOf(c)' /\ ShownOf(c)'
    <2>1. /\ row[c] # NULL => row[c].access_exp <= now + Lifetime
          /\ row[c] # NULL /\ o # "success" => row[c].access_exp <= entries[c].access_exp
      BY <1>1, <1>9 DEF LedgerOf, ExpiryOf
    <2>2. entries[c].access_exp \in Nat
      BY <1>1 DEF CustodyState
    <2> QED BY <1>1, <1>3, <1>5, <1>6, <1>7, <2>1, <2>2 DEF ExpiryOf, ShownOf
  <1> QED BY <1>10, <1>11, <1>12 DEF LedgerOf

\* Every step of a custody's own task.
LEMMA OwnTaskLedger ==
  ASSUME HandInv, [Next]_vars, NEW c \in Custodies, LedgerOf(c), RefreshNext(c)
  PROVE  LedgerOf(c)'
  <1>1. TypeOK /\ now \in Nat
    BY DEF HandInv, TypeOK, ClockOK
  <1>2. ASSUME NEW o, o # "success", Finished(c, o), flight[c] # NULL, ~ Fresh(c),
               UNCHANGED <<entries, session, row, schedule, queue, now>>
        PROVE  LedgerOf(c)'
    <2> DEFINE f == [stage |-> "done", tok |-> 0, at |-> 0, outcome |-> o]
    <2>1. flight' = [flight EXCEPT ![c] = f]
      BY <1>2 DEF Finished
    <2>2. f.at \in Nat /\ f.at <= now /\ f.outcome # "success"
      BY <1>1, <1>2
    <2> HIDE DEF f
    <2> QED BY <1>1, <1>2, <2>1, <2>2, TaskLedger, GrantRemembered
  <1>3. CASE LoadCustody(c)
    <2>1. /\ flight[c] # NULL /\ ~ Fresh(c)
          /\ UNCHANGED <<entries, session, row, schedule, queue, now>>
      BY <1>3 DEF LoadCustody, Stage, Fresh, schedVars, storeVars, clockVars
    <2>2. CASE flight' = [flight EXCEPT ![c] = [stage |-> "calling", tok |-> row[c].tok,
                                              at |-> now, outcome |-> NULL]]
      <3> DEFINE f == [stage |-> "calling", tok |-> row[c].tok, at |-> now, outcome |-> NULL]
      <3>1. f.at \in Nat /\ f.at <= now /\ f.stage = "calling" /\ flight' = [flight EXCEPT ![c] = f]
        BY <1>1, <2>2
      <3> HIDE DEF f
      <3> QED BY <1>1, <2>1, <3>1, TaskLedger, GrantRemembered
    <2> QED BY <1>2, <1>3, <2>1, <2>2 DEF LoadCustody
  <1>4. CASE Granted(c)
    <2>1. PICK tok \in {grant[c].tok, grant[c].tok + 1} :
            flight' = [flight EXCEPT ![c] = [stage |-> "storing", tok |-> tok,
                                             at |-> flight[c].at, outcome |-> NULL]]
      BY <1>4 DEF Granted
    <2>2. /\ flight[c] # NULL /\ ~ Fresh(c) /\ flight[c].at \in Nat /\ flight[c].at <= now
          /\ UNCHANGED <<entries, session, row, schedule, queue, now>>
      BY <1>1, <1>4 DEF Granted, Stage, Fresh, schedVars, storeVars, clockVars, TypeOK, TickOK,
                        Option, Refresh, LedgerOf, ExpiryOf
    <2> DEFINE f == [stage |-> "storing", tok |-> tok, at |-> flight[c].at, outcome |-> NULL]
    <2>3. f.at = flight[c].at /\ f.stage = "storing" /\ flight' = [flight EXCEPT ![c] = f]
      BY <2>1
    <2> HIDE DEF f
    <2> QED BY <1>1, <2>2, <2>3, TaskLedger, GrantRemembered
  <1>5. CASE Refused(c) \/ Busy(c) \/ AnswerLost(c)
    BY <1>2, <1>5 DEF Refused, Busy, AnswerLost, Stage, Fresh, schedVars, storeVars, clockVars
  <1>6. CASE StoreFails(c)
    BY <1>2, <1>6 DEF StoreFails, Stage, Fresh, schedVars, storeVars, clockVars
  <1>7. CASE Panic(c)
    <2>1. /\ flight[c] # NULL /\ ~ Fresh(c)
          /\ flight' = [flight EXCEPT ![c] = NULL]
          /\ UNCHANGED <<entries, session, row, schedule, queue, now>>
      BY <1>7 DEF Panic, Joined, Stage, Fresh, storeVars, clockVars
    <2> QED BY <1>1, <2>1, TaskLedger, GrantRemembered
  <1>8. CASE StoreGrant(c)
    BY <1>8, StoreGrantLedger
  <1>9. CASE Record(c)
    BY <1>9, RecordLedger
  <1> QED BY <1>3, <1>4, <1>5, <1>6, <1>7, <1>8, <1>9 DEF RefreshNext

\* A login starts a ledger.
LEMMA LoginLedger ==
  ASSUME HandInv, [Next]_vars, NEW c \in Custodies, NEW d \in Custodies, LedgerOf(c), Login(d)
  PROVE  LedgerOf(c)'
  <1>0. TypeOK /\ now \in Nat /\ Lifetime \in Nat
    BY ConstantsNat DEF HandInv, TypeOK, ClockOK
  <1>1. /\ UNCHANGED <<entries, flight, now>>
        /\ queue = <<>> /\ queue' = <<[cmd |-> "insert_session", custody |-> d]>>
        /\ schedule' = schedule \cup {[custody |-> d, issued_at |-> now]}
    BY DEF Login, tickVars, clockVars
  <1>2. FailuresOf(c, queue') = {} /\ FailuresOf(c, queue) = {}
    <2> DEFINE m == [cmd |-> "insert_session", custody |-> d]
    <2>1. m.cmd = "insert_session" /\ queue' = <<m>>
      BY <1>1
    <2> HIDE DEF m
    <2>2. Sent(queue') = {m} /\ Sent(queue) = {}
      BY <1>1, <2>1, SentOne
    <2> QED BY <2>1, <2>2 DEF FailuresOf
  <1>3. CASE c # d
    <2>1. /\ row'[c] = row[c] /\ session'[c] = session[c]
          /\ grant[c] # NULL => grant'[c] # NULL
      BY <1>0, <1>3, GrantRemembered DEF Login, TypeOK, StoreOK, SessionOK
    <2>2. \A r \in schedule' : r.custody = c => r \in schedule
      BY <1>1, <1>3
    <2> QED BY <1>0, <1>1, <1>2, <2>1, <2>2, LedgerFrame
  <1>4. CASE c = d
    <2>1. grant[c] = NULL /\ entries[c] = NULL /\ flight[c] = NULL
      BY <1>4 DEF Login, LedgerOf, HandInv, OneRefreshAtATime, InHand
    <2>2. grant'[c] # NULL
      <3>1. [tok |-> 1, revoked_at |-> NULL] \in Grant
        BY DEF Grant, Option
      <3> QED BY <1>0, <1>4, <3>1, NullAssumption DEF Login, TypeOK, IdpOK
    <2>3. /\ row'[c] # NULL => row'[c].status = "ok" /\ row'[c].access_exp = now + Lifetime
          /\ session'[c] # NULL => session'[c].health = "ok"
      BY <1>0, <1>4 DEF Login, TypeOK, StoreOK, SessionOK
    <2>4. \A r \in schedule' : r.custody = c => r = [custody |-> d, issued_at |-> now]
      <3>1. \A r \in schedule : r.custody # c
        BY <2>1 DEF LedgerOf, NewbornOf
      <3> QED BY <1>1, <3>1
    <2>5. NewbornOf(c)' /\ (entries[c] # NULL => grant[c] # NULL)'
      BY <1>1, <1>2, <2>1, <2>2, <2>3, <2>4 DEF NewbornOf
    <2>6. DeadOf(c)' /\ ShownOf(c)'
      BY <1>1, <2>1, <2>3 DEF DeadOf, ShownOf
    <2>7. ExpiryOf(c)'
      BY <1>0, <1>1, <2>1, <2>3 DEF ExpiryOf
    <2> QED BY <2>5, <2>6, <2>7 DEF LedgerOf
  <1> QED BY <1>3, <1>4

\* A request enters the schedule.
LEMMA ReceiveLedger ==
  ASSUME HandInv, [Next]_vars, NEW c \in Custodies, NEW d \in Custodies, LedgerOf(c), Receive(d)
  PROVE  LedgerOf(c)'
  <1>0. TypeOK /\ now \in Nat /\ Lifetime \in Nat
    BY ConstantsNat DEF HandInv, TypeOK, ClockOK
  <1>1. PICK r \in schedule, delay \in LeadDelays(Lifetime) :
         /\ r.custody = d
         /\ schedule' = schedule \ {r}
         /\ entries' = [entries EXCEPT ![d] =
               [status |-> "ok", access_exp |-> r.issued_at + Lifetime,
                next_refresh |-> r.issued_at + delay, fail_count |-> 0,
                refreshing |-> FALSE]]
    BY DEF Receive
  <1>2. UNCHANGED <<flight, session, row, queue, grant, now>>
    BY DEF Receive, tickVars, storeVars, idpVars, clockVars
  <1>3. CASE c # d
    <2>1. entries'[c] = entries[c]
      BY <1>0, <1>1, <1>3 DEF TypeOK, SchedOK
    <2> QED BY <1>0, <1>1, <1>2, <2>1, LedgerFrame
  <1>4. CASE c = d
    <2>1. /\ grant[c] # NULL /\ entries[c] = NULL /\ FailuresOf(c, queue) = {}
          /\ row[c] # NULL => row[c].status = "ok" /\ row[c].access_exp = r.issued_at + Lifetime
      BY <1>1, <1>4 DEF LedgerOf, NewbornOf
    <2>2. entries'[c].status = "ok" /\ entries'[c].access_exp = r.issued_at + Lifetime
      BY <1>0, <1>1, <1>4 DEF TypeOK, SchedOK
    <2>3. flight[c] = NULL /\ r.issued_at \in Nat
      BY <1>0, <1>1, <2>1 DEF HandInv, OneRefreshAtATime, InHand, TypeOK, SchedOK
    <2>4. \A q \in schedule' : q.custody # c
      <3>1. \A q \in schedule : q.custody = c => q = r
        BY <1>1, <1>4 DEF LedgerOf, NewbornOf
      <3> QED BY <1>1, <3>1
    <2>5. NewbornOf(c)' /\ (entries[c] # NULL => grant[c] # NULL)' /\ DeadOf(c)'
      BY <1>2, <2>1, <2>4 DEF NewbornOf, DeadOf
    <2>6. ShownOf(c)'
      BY <1>2 DEF LedgerOf, ShownOf, Fresh
    <2>7. ExpiryOf(c)'
      BY <1>0, <1>2, <2>1, <2>2, <2>3 DEF LedgerOf, ExpiryOf
    <2> QED BY <2>5, <2>6, <2>7 DEF LedgerOf
  <1> QED BY <1>3, <1>4

\* The writer commits a failure, or loses it.
LEMMA CommitLedger ==
  ASSUME HandInv, [Next]_vars, NEW c \in Custodies, LedgerOf(c), Commit
  PROVE  LedgerOf(c)'
  <1>0. TypeOK /\ now \in Nat /\ row \in [Custodies -> Option(CustodyRow)]
    BY DEF HandInv, TypeOK, ClockOK, StoreOK
  <1>1. /\ queue \in Seq(Command) /\ queue # <<>> /\ queue' = Tail(queue)
        /\ UNCHANGED <<entries, flight, session, schedule, grant, now>>
    BY <1>0 DEF Commit, TypeOK, StoreOK, schedVars, tickVars, idpVars, clockVars
  <1> DEFINE q == Head(queue)
             d == q.custody
  <1>2. q \in Sent(queue) /\ FailuresOf(c, queue') \subseteq FailuresOf(c, queue)
    BY <1>1, SentTail DEF FailuresOf
  <1>3. \/ row' = row
        \/ /\ q.cmd = "custody_failure" /\ row[d] # NULL
           /\ row' = [row EXCEPT ![d] =
                       [tok |-> row[d].tok, access_exp |-> row[d].access_exp,
                        next_refresh |-> q.next_refresh, status |-> q.status,
                        fail_count |-> q.fail_count]]
    BY DEF Commit
  <1> HIDE DEF q
  <1>4. CASE row'[c] = row[c]
    BY <1>0, <1>1, <1>2, <1>4, LedgerFrame
  <1>5. CASE row'[c] # row[c]
    <2>1. /\ q.cmd = "custody_failure" /\ d = c /\ row[c] # NULL
          /\ row'[c].status = q.status /\ row'[c].access_exp = row[c].access_exp
      BY <1>0, <1>3, <1>5
    <2>2. q \in FailuresOf(c, queue)
      BY <1>2, <2>1 DEF FailuresOf
    <2>3. NewbornOf(c)' /\ (entries[c] # NULL => grant[c] # NULL)'
      BY <1>1, <2>2 DEF LedgerOf, NewbornOf
    <2>4. DeadOf(c)'
      BY <1>1, <1>2, <2>1, <2>2 DEF LedgerOf, DeadOf
    <2>5. ExpiryOf(c)' /\ ShownOf(c)'
      BY <1>0, <1>1, <2>1 DEF LedgerOf, ExpiryOf, ShownOf, Fresh
    <2> QED BY <2>3, <2>4, <2>5 DEF LedgerOf
  <1> QED BY <1>4, <1>5

\* The process comes back: nothing that was dead is in the schedule.
LEMMA BootLedger ==
  ASSUME HandInv, NothingQueuedDown, [Next]_vars, NEW c \in Custodies, LedgerOf(c), Boot
  PROVE  LedgerOf(c)'
  <1>0. TypeOK /\ now \in Nat
    BY DEF HandInv, TypeOK, ClockOK
  <1>1. /\ ~ up /\ queue = <<>> /\ schedule = {} /\ flight[c] = NULL
        /\ UNCHANGED <<flight, row, queue, schedule, grant, now>>
    BY DEF Boot, NothingQueuedDown, HandInv, DownIsEmpty, tickVars, storeVars, idpVars
  <1>2. PICK rows \in SUBSET Restorable : \E o \in Orders(rows) :
          entries' = [x \in Custodies |->
                  IF x \in rows
                  THEN [status |-> row[x].status, access_exp |-> row[x].access_exp,
                        next_refresh |-> RestoredAt(x, o[x], Cardinality(rows)),
                        fail_count |-> 0, refreshing |-> FALSE]
                  ELSE NULL]
    BY DEF Boot
  <1>3. session'[c] # NULL => session'[c].health = "ok"
    BY DEF Boot
  <1>4. entries'[c] # NULL =>
          /\ row[c] # NULL /\ row[c].status # "dead"
          /\ entries'[c].access_exp = row[c].access_exp
    BY <1>2 DEF Restorable
  <1>5. row[c] # NULL => grant[c] # NULL /\ row[c].access_exp \in Nat
    BY <1>0 DEF HandInv, Issued, TypeOK, StoreOK, Option, CustodyRow
  <1>6. FailuresOf(c, queue') = {}
    BY <1>1, SentOne DEF FailuresOf
  <1>7. NewbornOf(c)' /\ (entries[c] # NULL => grant[c] # NULL)' /\ DeadOf(c)'
    BY <1>1, <1>4, <1>5, <1>6 DEF NewbornOf, DeadOf
  <1>8. ShownOf(c)'
    BY <1>3 DEF ShownOf
  <1>9. ExpiryOf(c)'
    BY <1>1, <1>4, <1>5 DEF LedgerOf, ExpiryOf
  <1> QED BY <1>7, <1>8, <1>9 DEF LedgerOf

LEMMA LedgerStep == HandInv /\ NothingQueuedDown /\ Ledger /\ [Next]_vars => Ledger'
  <1> SUFFICES ASSUME HandInv, NothingQueuedDown, Ledger, [Next]_vars, NEW c \in Custodies
               PROVE  LedgerOf(c)'
    BY DEF Ledger
  <1>0. TypeOK /\ LedgerOf(c) /\ now \in Nat
    BY DEF HandInv, TypeOK, ClockOK, Ledger
  <1>1. ASSUME UNCHANGED <<entries, flight, session, row, schedule, queue>>,
               now' = now \/ now' = now + 1
        PROVE  LedgerOf(c)'
    BY <1>0, <1>1, GrantRemembered, LedgerFrame
  <1>2. ASSUME NEW d \in Custodies, Login(d) \/ Receive(d) PROVE LedgerOf(c)'
    BY <1>0, <1>2, LoginLedger, ReceiveLedger
  <1>3. ASSUME NEW d \in Custodies, RefreshNext(d) PROVE LedgerOf(c)'
    BY <1>0, <1>3, TaskFrame, OwnTaskLedger
  <1>4. CASE TakeDue
    <2>1. /\ entries' = [x \in Custodies |->
               IF x \in Ready THEN [entries[x] EXCEPT !.refreshing = TRUE] ELSE entries[x]]
          /\ UNCHANGED <<flight, session, row, schedule, queue, grant, now>>
      BY <1>4 DEF TakeDue, storeVars, idpVars, clockVars
    <2>2. c \in Ready => entries[c] \in CustodyState
      BY <1>0 DEF Ready, TypeOK, SchedOK, Option
    <2>3. \/ entries'[c] = entries[c]
          \/ /\ entries[c] # NULL /\ entries'[c] # NULL
             /\ entries'[c].status = entries[c].status
             /\ entries'[c].access_exp = entries[c].access_exp
      <3>1. CASE c \notin Ready
        BY <2>1, <3>1
      <3>2. CASE c \in Ready
        <4> DEFINE e == entries[c]
                   f == [e EXCEPT !.refreshing = TRUE]
        <4>1. f \in CustodyState /\ f.status = e.status /\ f.access_exp = e.access_exp
          BY <2>2, <3>2 DEF CustodyState
        <4>2. entries'[c] = f
          BY <2>1, <3>2
        <4> HIDE DEF f
        <4> QED BY <2>2, <3>2, <4>1, <4>2, NullAssumption
      <3> QED BY <3>1, <3>2
    <2> QED BY <1>0, <2>1, <2>3, LedgerFrame
  <1>5. CASE Dispatch
    <2>1. /\ flight[c] = NULL /\ UNCHANGED <<entries, session, row, schedule, queue, grant, now>>
          /\ flight'[c] \in {NotStarted, NULL}
      BY <1>5 DEF Dispatch, schedVars, storeVars, idpVars, clockVars
    <2>2. flight'[c] # NULL => flight'[c].at = 0 /\ flight'[c].stage = "reading"
      BY <2>1 DEF NotStarted
    <2>3. NewbornOf(c)' /\ (entries[c] # NULL => grant[c] # NULL)' /\ DeadOf(c)'
      BY <1>0, <2>1 DEF LedgerOf, NewbornOf, DeadOf
    <2>4. ExpiryOf(c)' /\ ShownOf(c)'
      BY <1>0, <2>1, <2>2 DEF LedgerOf, ExpiryOf, ShownOf, Fresh
    <2> QED BY <2>3, <2>4 DEF LedgerOf
  <1>6. CASE Commit
    BY <1>0, <1>6, CommitLedger
  <1>7. CASE CommitFails
    <2>1. FailuresOf(c, queue') \subseteq FailuresOf(c, queue)
      BY <1>0, <1>7, SentTail DEF CommitFails, FailuresOf, TypeOK, StoreOK
    <2> QED BY <1>0, <1>7, <2>1, GrantRemembered, LedgerFrame
        DEF CommitFails, schedVars, tickVars, clockVars
  <1>8. ASSUME NEW d \in Custodies, Logout(d) PROVE LedgerOf(c)'
    <2> DEFINE m == [cmd |-> "tombstone_session", custody |-> d]
    <2>1. m \in Command /\ m.cmd = "tombstone_session" /\ queue' = Append(queue, m)
      BY <1>8 DEF Logout, Command
    <2> HIDE DEF m
    <2>2. queue' = queue \o <<m>> /\ queue \in Seq(Command)
      BY <1>0, <2>1 DEF TypeOK, StoreOK
    <2>3. FailuresOf(c, queue') \subseteq FailuresOf(c, queue)
      <3>1. Sent(queue') \subseteq Sent(queue) \cup {m}
        <4>1. <<m>> \in Seq(Command)
          BY <2>1
        <4> QED BY <2>2, <4>1, SentAppend, SentOne
      <3> QED BY <2>1, <3>1 DEF FailuresOf
    <2>4. session'[c] # NULL => session[c] # NULL /\ session'[c].health = session[c].health
      BY <1>0, <1>8 DEF Logout, Alive, TypeOK, SessionOK, Option
    <2> QED BY <1>0, <1>8, <2>3, <2>4, GrantRemembered, LedgerFrame
        DEF Logout, schedVars, tickVars, clockVars
  <1>9. CASE Reap
    <2>1. row'[c] = row[c] \/ row'[c] = NULL
      BY <1>9 DEF Reap
    <2> QED BY <1>0, <1>9, <2>1, GrantRemembered, LedgerFrame
        DEF Reap, schedVars, tickVars, clockVars
  <1>10. ASSUME NEW d \in Custodies, Revoke(d) PROVE LedgerOf(c)'
    BY <1>1, <1>10 DEF Revoke, schedVars, tickVars, storeVars, clockVars
  <1>11. CASE Crash
    <2>1. /\ entries'[c] = NULL /\ flight'[c] = NULL /\ session'[c] = NULL
          /\ schedule' = {} /\ row' = row /\ now' = now
      BY <1>11 DEF Crash
    <2>2. NewbornOf(c)' /\ (entries[c] # NULL => grant[c] # NULL)' /\ DeadOf(c)'
      BY <2>1 DEF NewbornOf, DeadOf
    <2>3. ExpiryOf(c)' /\ ShownOf(c)'
      BY <1>0, <2>1 DEF LedgerOf, ExpiryOf, ShownOf
    <2> QED BY <2>2, <2>3 DEF LedgerOf
  <1>12. CASE Boot
    BY <1>0, <1>12, BootLedger
  <1>13. CASE Tick \/ ReceiveOther
    BY <1>1, <1>13 DEF Tick, ReceiveOther, schedVars, tickVars, storeVars, clockVars
  <1>14. CASE UNCHANGED vars
    BY <1>1, <1>14 DEF vars, schedVars, tickVars, storeVars, clockVars
  <1> QED BY <1>2, <1>3, <1>4, <1>5, <1>6, <1>7, <1>8, <1>9, <1>10, <1>11, <1>12, <1>13,
             <1>14 DEF Next

LEMMA LedgerInvariant == Spec => [](HandInv /\ Ledger)
  <1>1. HandInv /\ NothingQueuedDown /\ Ledger /\ [Next]_vars => NothingQueuedDown' /\ Ledger'
    BY LedgerStep, QueueDownStep
  <1> QED BY HandInvariant, LedgerInit, <1>1, PTL DEF Spec

\* No grant that is still retried is stored as dead, and none stored as dead is
\* presented again, whatever restarts, lost writes, panics and deleted rows come
\* between.
THEOREM DeadGrantsStayDead == Spec => []DeadStaysDead
  <1>1. HandInv /\ Ledger => DeadStaysDead
    BY DEF HandInv, OneRefreshAtATime, Ledger, LedgerOf, DeadOf, DeadStaysDead
  <1> QED BY LedgerInvariant, <1>1, PTL

\* A session shows `degraded' only once the access token in its custody's row
\* has really expired, however its refreshes failed, hung, panicked or raced the
\* write-through.
THEOREM DegradedIsExpired == Spec => []DegradedMeansExpired
  <1>1. Ledger => DegradedMeansExpired
    BY DEF Ledger, LedgerOf, ShownOf, Fresh, DegradedMeansExpired
  <1> QED BY LedgerInvariant, <1>1, PTL

----------------------------------------------------------------------------
(***************************************************************************)
(* The worker's deadlines.  A tick refreshes what is due in rounds of      *)
(* MaxConcurrent custodies, each as long as the HTTP client allows.        *)
(***************************************************************************)
Slots == AtLeastOne(MaxConcurrent)

\* How many chunks n refreshes are done in.
Rounds(n) == (n + Slots - 1) \div Slots

\* The longest that n refreshes take, one chunk after the other.
Span(n) == MaxCall * Rounds(n)

LEMMA QuotientBounds ==
  ASSUME NEW a \in Int, NEW s \in Nat, s >= 1
  PROVE  /\ a \div s \in Int
         /\ s * (a \div s) <= a
         /\ a < s * ((a \div s) + 1)
  OBVIOUS

LEMMA QuotientMonotone ==
  ASSUME NEW a \in Int, NEW b \in Int, NEW s \in Nat, s >= 1, a <= b
  PROVE  a \div s <= b \div s
  <1> DEFINE p == a \div s
             q == b \div s
  <1>1. p \in Int /\ q \in Int /\ s * p <= b /\ b < s * (q + 1)
    BY QuotientBounds
  <1> HIDE DEF p, q
  <1>2. SUFFICES ASSUME q + 1 <= p PROVE FALSE
    BY <1>1 DEF p, q
  <1>3. s * (q + 1) <= s * p
    BY <1>1, <1>2
  <1> QED BY <1>1, <1>3

\* One chunk fewer needs at least one round less.
LEMMA QuotientDrop ==
  ASSUME NEW a \in Int, NEW s \in Nat, s >= 1
  PROVE  (a - s) \div s = (a \div s) - 1
  <1> DEFINE p == a \div s
             q == (a - s) \div s
  <1>1. p \in Int /\ q \in Int /\ s * p <= a /\ a < s * (p + 1) /\ s * q <= a - s /\ a - s < s * (q + 1)
    BY QuotientBounds
  <1> HIDE DEF p, q
  <1>2. s * (q + 1) = s * q + s /\ s * (p + 1) = s * p + s
    BY <1>1
  <1>3. s * (q + 1) < s * (p + 1) /\ s * p < s * (q + 2)
    <2>1. s * (q + 2) = s * (q + 1) + s
      BY <1>1
    <2> QED BY <1>1, <1>2, <2>1
  <1>4. ~ (q + 1 >= p + 1)
    <2>1. q + 1 >= p + 1 => s * (q + 1) >= s * (p + 1)
      BY <1>1
    <2> QED BY <1>1, <1>3, <2>1
  <1>5. ~ (p >= q + 2)
    <2>1. p >= q + 2 => s * p >= s * (q + 2)
      BY <1>1
    <2> QED BY <1>1, <1>3, <2>1
  <1>6. q = p - 1
    BY <1>1, <1>4, <1>5
  <1> QED BY <1>6 DEF p, q

LEMMA SlotsNat == Slots \in Nat /\ Slots >= 1
  BY KeepaliveAssumption DEF Slots, AtLeastOne

LEMMA RoundsFacts ==
  /\ \A n \in Nat : Rounds(n) \in Nat
  /\ Rounds(0) = 0
  /\ \A m, n \in Nat : m <= n => Rounds(m) <= Rounds(n)
  /\ \A n \in Nat : n >= 1 => Rounds(n) <= Rounds(n - 1) + 1
  /\ \A n \in Nat : n >= 1 => Rounds(n - Smaller(Slots, n)) + 1 <= Rounds(n)
  <1> USE SlotsNat
  <1>1. \A n \in Nat : Rounds(n) \in Int
    BY QuotientBounds DEF Rounds
  <1>2. Rounds(0) = 0
    <2> DEFINE p == (Slots - 1) \div Slots
    <2>1. p \in Int /\ Slots * p <= Slots - 1 /\ Slots - 1 < Slots * (p + 1)
      BY QuotientBounds
    <2>2. Rounds(0) = p
      BY DEF Rounds
    <2> HIDE DEF p
    <2>3. p >= 1 => Slots * p >= Slots
      BY <2>1
    <2>4. p <= -1 => Slots * (p + 1) <= 0
      BY <2>1
    <2> QED BY <2>1, <2>2, <2>3, <2>4
  <1>3. \A m, n \in Nat : m <= n => Rounds(m) <= Rounds(n)
    BY QuotientMonotone DEF Rounds
  <1>4. \A n \in Nat : Rounds(n) \in Nat
    BY <1>1, <1>2, <1>3
  <1>5. ASSUME NEW n \in Nat, n >= 1 PROVE Rounds(n) <= Rounds(n - 1) + 1
    <2> DEFINE a == n + Slots - 1
    <2>1. Rounds(n) = a \div Slots /\ a \in Int
      BY DEF Rounds
    <2>2. Rounds(n - 1) = (a - 1) \div Slots
      BY DEF Rounds
    <2> HIDE DEF a
    <2>3. (a - Slots) \div Slots = (a \div Slots) - 1
      BY <2>1, QuotientDrop
    <2>4. (a - Slots) \div Slots <= (a - 1) \div Slots
      BY <2>1, QuotientMonotone
    <2>5. a \div Slots \in Int /\ (a - 1) \div Slots \in Int
      BY <2>1, QuotientBounds
    <2> QED BY <2>1, <2>2, <2>3, <2>4, <2>5
  <1>6. ASSUME NEW n \in Nat, n >= 1 PROVE Rounds(n - Smaller(Slots, n)) + 1 <= Rounds(n)
    <2>1. CASE Slots < n
      <3> DEFINE a == n + Slots - 1
      <3>1. Rounds(n) = a \div Slots /\ a \in Int
        BY DEF Rounds
      <3>2. Rounds(n - Smaller(Slots, n)) = (a - Slots) \div Slots
        <4>1. Smaller(Slots, n) = Slots
          BY <2>1 DEF Smaller
        <4>2. (n - Smaller(Slots, n)) + Slots - 1 = a - Slots
          BY <4>1
        <4> QED BY <4>2 DEF Rounds
      <3> HIDE DEF a
      <3>3. (a - Slots) \div Slots = (a \div Slots) - 1 /\ a \div Slots \in Int
        BY <3>1, QuotientDrop, QuotientBounds
      <3> QED BY <3>1, <3>2, <3>3
    <2>2. CASE Slots >= n
      <3>1. Rounds(n - Smaller(Slots, n)) = 0
        BY <1>2, <2>2 DEF Smaller
      <3> DEFINE a == n + Slots - 1
      <3>2. Rounds(n) = a \div Slots /\ a \in Int /\ a >= Slots
        BY <1>6 DEF Rounds
      <3> HIDE DEF a
      <3>3. Slots \div Slots <= a \div Slots
        BY <3>2, QuotientMonotone
      <3>4. Slots \div Slots = 1
        <4>1. (Slots - Slots) \div Slots = (Slots \div Slots) - 1 /\ Slots \div Slots \in Int
          BY QuotientDrop, QuotientBounds
        <4>2. (Slots - Slots) \div Slots = 0
          <5> DEFINE z == 0 \div Slots
          <5>1. z \in Int /\ Slots * z <= 0 /\ 0 < Slots * (z + 1)
            BY QuotientBounds
          <5>2. Slots - Slots = 0
            OBVIOUS
          <5> HIDE DEF z
          <5>3. z >= 1 => Slots * z >= 1
            BY <5>1
          <5>4. z <= -1 => Slots * (z + 1) <= 0
            BY <5>1
          <5>5. z = 0
            BY <5>1, <5>3, <5>4
          <5> QED BY <5>2, <5>5 DEF z
        <4> QED BY <4>1, <4>2
      <3> QED BY <3>1, <3>2, <3>3, <3>4
    <2> QED BY <2>1, <2>2
  <1> QED BY <1>2, <1>3, <1>4, <1>5, <1>6

LEMMA SpanFacts ==
  /\ \A n \in Nat : Span(n) \in Nat
  /\ Span(0) = 0
  /\ \A m, n \in Nat : m <= n => Span(m) <= Span(n)
  /\ \A n \in Nat : n >= 1 => Span(n) <= Span(n - 1) + MaxCall
  /\ \A n \in Nat : n >= 1 => Span(n - Smaller(Slots, n)) + MaxCall <= Span(n)
  <1>1. MaxCall \in Nat
    BY KeepaliveAssumption
  <1>2. \A n \in Nat : Span(n) \in Nat
    BY <1>1, RoundsFacts DEF Span
  <1>3. Span(0) = 0
    BY <1>1, RoundsFacts DEF Span
  <1>4. \A p, q \in Nat : p <= q => MaxCall * p <= MaxCall * q
    BY <1>1
  <1>5. \A p \in Nat : MaxCall * (p + 1) = MaxCall * p + MaxCall
    BY <1>1
  <1>6. \A m, n \in Nat : m <= n => Span(m) <= Span(n)
    BY <1>4, RoundsFacts DEF Span
  <1>7. ASSUME NEW n \in Nat, n >= 1 PROVE Span(n) <= Span(n - 1) + MaxCall
    <2>1. /\ n - 1 \in Nat /\ Rounds(n) \in Nat /\ Rounds(n - 1) \in Nat
          /\ Rounds(n) <= Rounds(n - 1) + 1
      BY <1>7, RoundsFacts
    <2> QED BY <1>4, <1>5, <2>1 DEF Span
  <1>8. ASSUME NEW n \in Nat, n >= 1 PROVE Span(n - Smaller(Slots, n)) + MaxCall <= Span(n)
    <2>1. n - Smaller(Slots, n) \in Nat
      BY <1>8, SlotsNat DEF Smaller
    <2>2. /\ Rounds(n) \in Nat /\ Rounds(n - Smaller(Slots, n)) \in Nat
          /\ Rounds(n - Smaller(Slots, n)) + 1 <= Rounds(n)
      BY <1>8, <2>1, RoundsFacts
    <2> QED BY <1>4, <1>5, <2>2 DEF Span
  <1> QED BY <1>2, <1>3, <1>6, <1>7, <1>8

\* The longest delay the scheduler draws before it renews a token.
LongestLead == AtLeastOne((Lifetime * Lead * (100 + Jitter) - 1) \div 10000)

\* Every custody, and every custody but one, refreshed in a row.
Whole == Span(Cardinality(Custodies))
Rest == Span(Cardinality(Custodies) - 1)

\* The provider and the store answer and the process keeps running.
Reliable == Faults = {} /\ MaxRestarts = 0

\* A token outlives the call that fetched it, the lead, the tick that may be
\* running when it comes due, the sleep, and a tick that renews everything.
InTime ==
    /\ IdleTick >= 1
    /\ MaxCall + LongestLead + IdleTick + Rest + Whole <= Lifetime + 1

\* A request that arrives while a custody is due does not postpone the sleep's
\* end: KeepaliveStarved shows what happens otherwise.
Undisturbed ==
    (\E c \in Custodies : Receive(c)) \/ ReceiveOther =>
        wake' = wake \/ \A e \in due : e[1] > now

Running == \E c \in Custodies : flight[c] # NULL

\* When the tick has done its last chunk, at the latest.
TickEnds ==
    (IF Running THEN started + MaxCall ELSE now) + Span(Cardinality(batch))

\* The worker keeps its own deadlines.
Punctual ==
    /\ up
    /\ wake <= now + IdleTick
    /\ started <= now
    /\ Running => now <= started + MaxCall /\ MaxCall + Span(Cardinality(batch)) <= Whole
    /\ ~ Ticking => now <= wake
    /\ ~ Ticking /\ wake <= now => \A r \in schedule : r.issued_at = now
    /\ \A r \in schedule : TickEnds <= r.issued_at + Whole

Waiting(c) == entries[c] # NULL /\ entries[c].status # "dead" /\ ~ InHand(c)

\* A refresh task is within its time, and what it stored outlives it.
TaskInTime(c) ==
    flight[c] # NULL =>
        /\ started + MaxCall <= row[c].access_exp
        /\ ~ (flight[c].stage = "done" /\ flight[c].outcome = "transient")
        /\ flight[c].stage \in {"calling", "storing"} => flight[c].at >= started
        /\ Fresh(c) => row[c].access_exp >= started + Lifetime

\* A custody that waits comes due early enough; so does the end of the running
\* tick, and of the sleep once it is due.
WaitInTime(c) ==
    Waiting(c) =>
        /\ entries[c].next_refresh + IdleTick + Rest + Whole <= row[c].access_exp + 1
        /\ Ticking => TickEnds + IdleTick + Whole <= row[c].access_exp
        /\ ~ Ticking /\ entries[c].next_refresh <= now =>
               wake + Whole <= row[c].access_exp

\* The deadlines of custody c, for as long as it has a row.
TimesOf(c) ==
    row[c] # NULL =>
        /\ entries[c] # NULL \/ \E r \in schedule : r.custody = c
        /\ c \in batch => TickEnds <= row[c].access_exp
        /\ TaskInTime(c)
        /\ WaitInTime(c)

Times == \A c \in Custodies : TimesOf(c)

LEMMA TimingNat ==
  /\ Lifetime \in Nat /\ IdleTick \in Nat /\ MaxCall \in Nat
  /\ LongestLead \in Nat /\ LongestLead >= 1
  /\ \A d \in LeadDelays(Lifetime) : d \in Nat /\ d >= 1 /\ d <= LongestLead
  <1>1. (Lifetime * Lead * (100 - Jitter)) \div 10000 \in Int
    BY KeepaliveAssumption
  <1>2. (Lifetime * Lead * (100 + Jitter) - 1) \div 10000 \in Int
    BY KeepaliveAssumption
  <1>3. LongestLead \in Nat /\ LongestLead >= 1
    BY <1>2 DEF LongestLead, AtLeastOne
  <1>4. \A d \in LeadDelays(Lifetime) : d \in Nat /\ d >= 1 /\ d <= LongestLead
    BY <1>1, <1>2 DEF LeadDelays, LongestLead, AtLeastOne
  <1> QED BY <1>3, <1>4, KeepaliveAssumption

\* A set of custodies is refreshed in the time it takes all of them; one that
\* leaves a custody out, in the time it takes the others.
LEMMA SpanOf ==
  ASSUME NEW S \in SUBSET Custodies
  PROVE  /\ IsFiniteSet(S) /\ Cardinality(S) \in Nat
         /\ Whole \in Nat
         /\ Span(Cardinality(S)) \in Nat
         /\ Span(Cardinality(S)) <= Whole
         /\ S = {} => Span(Cardinality(S)) = 0
         /\ \A c \in Custodies \ S : Span(Cardinality(S)) <= Rest
  <1>0. IsFiniteSet(Custodies) /\ Cardinality(Custodies) \in Nat
    BY KeepaliveAssumption, FS_CardinalityType
  <1>1. /\ IsFiniteSet(S) /\ Cardinality(S) \in Nat
        /\ Cardinality(S) <= Cardinality(Custodies)
    BY <1>0, FS_Subset, FS_CardinalityType
  <1>2. S = {} => Cardinality(S) = 0
    BY FS_EmptySet
  <1>3. ASSUME NEW c \in Custodies \ S PROVE Span(Cardinality(S)) <= Rest
    <2>1. /\ IsFiniteSet(Custodies \ {c})
          /\ Cardinality(Custodies \ {c}) = Cardinality(Custodies) - 1
          /\ Cardinality(Custodies \ {c}) \in Nat
      BY <1>0, FS_RemoveElement, FS_CardinalityType
    <2>2. Cardinality(S) <= Cardinality(Custodies \ {c})
      BY <1>3, <2>1, FS_Subset
    <2> QED BY <1>1, <2>1, <2>2, SpanFacts DEF Rest
  <1> QED BY <1>0, <1>1, <1>2, <1>3, SpanFacts DEF Whole

\* All but one take as long as all, less at most a call.
LEMMA WholeRest ==
  ASSUME NEW c \in Custodies
  PROVE  /\ Whole \in Nat /\ Rest \in Nat
         /\ Rest <= Whole /\ Whole <= Rest + MaxCall
         /\ MaxCall <= Whole
  <1>0. IsFiniteSet(Custodies) /\ Cardinality(Custodies) \in Nat
    BY KeepaliveAssumption, FS_CardinalityType
  <1>1. Cardinality(Custodies) >= 1
    BY <1>0, FS_EmptySet
  <1>2. Cardinality(Custodies) - 1 \in Nat
    BY <1>0, <1>1
  <1>3. MaxCall <= Whole
    <2> DEFINE n == Cardinality(Custodies)
    <2>1. Span(n - Smaller(Slots, n)) + MaxCall <= Span(n)
      BY <1>0, <1>1, SpanFacts
    <2>2. n - Smaller(Slots, n) \in Nat
      BY <1>0, <1>1, SlotsNat DEF Smaller
    <2>3. Span(n - Smaller(Slots, n)) \in Nat /\ Span(n) \in Nat /\ MaxCall \in Nat
      BY <1>0, <2>2, SpanFacts, KeepaliveAssumption
    <2> QED BY <2>1, <2>3 DEF Whole
  <1> QED BY <1>0, <1>1, <1>2, <1>3, SpanFacts DEF Whole, Rest

\* Everything the policy says of the bounds, as the proofs use it.
LEMMA Policy ==
  ASSUME InTime, NEW c \in Custodies
  PROVE  /\ Whole \in Nat /\ Rest \in Nat /\ MaxCall <= Whole
         /\ Whole + IdleTick + Whole <= Lifetime
         /\ \A d \in LeadDelays(Lifetime) :
              MaxCall + d + IdleTick + Rest + Whole <= Lifetime + 1
  BY WholeRest, TimingNat DEF InTime

LEMMA TickFacts ==
  ASSUME TypeOK, Punctual
  PROVE  /\ now \in Nat /\ wake \in Nat /\ started \in Nat /\ MaxCall \in Nat
         /\ Span(Cardinality(batch)) \in Nat /\ TickEnds \in Nat /\ now <= TickEnds
         /\ ~ Ticking => TickEnds = now /\ ~ Running /\ batch = {}
         /\ Running => TickEnds = started + MaxCall + Span(Cardinality(batch))
         /\ ~ Running => TickEnds = now + Span(Cardinality(batch))
  <1>1. Span(Cardinality(batch)) \in Nat /\ (batch = {} => Span(Cardinality(batch)) = 0)
    BY SpanOf DEF TypeOK, TickOK
  <1>2. now \in Nat /\ wake \in Nat /\ started \in Nat /\ MaxCall \in Nat
    BY TimingNat DEF TypeOK, ClockOK, SchedOK, TickOK
  <1> QED BY <1>1, <1>2 DEF TickEnds, Ticking, Running, Punctual

\* A task goes on without ending.
Advances(c) == LoadCustody(c) \/ Granted(c) \/ Refused(c) \/ StoreGrant(c)

\* The steps that leave the clock, the schedule and the tick's progress alone.
Aside ==
    \/ \E c \in Custodies : Login(c) \/ Advances(c) \/ Logout(c) \/ Revoke(c)
    \/ Commit \/ Reap \/ UNCHANGED vars

\* What can happen while nothing fails.
ReliableNext ==
    \/ Tick
    \/ \E c \in Custodies : Receive(c)
    \/ ReceiveOther
    \/ TakeDue
    \/ Dispatch
    \/ \E c \in Custodies : Record(c)
    \/ Aside

LEMMA ReliableStep ==
  ASSUME Reliable, TypeOK, up, [Next]_vars
  PROVE  ReliableNext
  <1>1. ~ (restarts < MaxRestarts)
    BY DEF Reliable, TypeOK, ClockOK
  <1>2. ASSUME NEW c \in Custodies, RefreshNext(c) PROVE ReliableNext
    <2>1. ~ Busy(c) /\ ~ AnswerLost(c) /\ ~ StoreFails(c) /\ ~ Panic(c)
      BY DEF Reliable, Busy, AnswerLost, StoreFails, Panic
    <2> QED BY <1>2, <2>1 DEF RefreshNext, ReliableNext, Aside, Advances
  <1>3. ~ Crash /\ ~ Boot /\ ~ CommitFails
    BY <1>1 DEF Crash, Boot, CommitFails, Reliable
  <1> QED BY <1>2, <1>3 DEF Next, ReliableNext, Aside

\* The task that goes on is replaced by another task.
LEMMA AdvancesTask ==
  ASSUME HandInv, NEW c \in Custodies, Advances(c)
  PROVE  /\ flight[c] # NULL
         /\ \E f \in Refresh : flight' = [flight EXCEPT ![c] = f]
  <1>1. flight[c] # NULL
    BY DEF Advances, LoadCustody, Granted, Refused, StoreGrant, Stage
  <1>2. ASSUME NEW out \in {"success", "transient", "permanent"}, Finished(c, out)
        PROVE  \E f \in Refresh : flight' = [flight EXCEPT ![c] = f]
    <2>1. [stage |-> "done", tok |-> 0, at |-> 0, outcome |-> out] \in Refresh
      BY DEF Refresh
    <2> QED BY <1>2, <2>1 DEF Finished
  <1>3. CASE LoadCustody(c)
    <2>1. CASE row[c] # NULL /\ flight' = [flight EXCEPT ![c] =
                     [stage |-> "calling", tok |-> row[c].tok, at |-> now,
                      outcome |-> NULL]]
      <3>1. row[c].tok \in Nat
        BY <2>1 DEF HandInv, TypeOK, StoreOK, Option, CustodyRow
      <3>2. [stage |-> "calling", tok |-> row[c].tok, at |-> now,
             outcome |-> NULL] \in Refresh
        BY <3>1 DEF HandInv, TypeOK, ClockOK, Refresh
      <3> QED BY <1>1, <2>1, <3>2
    <2> QED BY <1>1, <1>2, <1>3, <2>1 DEF LoadCustody
  <1>4. CASE Granted(c)
    <2>1. PICK tok \in {grant[c].tok, grant[c].tok + 1} :
            flight' = [flight EXCEPT ![c] =
                    [stage |-> "storing", tok |-> tok, at |-> flight[c].at,
                     outcome |-> NULL]]
      BY <1>4 DEF Granted
    <2>2. flight[c].at \in Nat /\ grant[c] \in Grant
      BY <1>4 DEF Granted, Stage, HandInv, Issued, TypeOK, TickOK, IdpOK, Option, Refresh
    <2>3. [stage |-> "storing", tok |-> tok, at |-> flight[c].at, outcome |-> NULL]
             \in Refresh
      BY <2>1, <2>2 DEF Grant, Refresh
    <2> QED BY <1>1, <2>1, <2>3
  <1>5. CASE Refused(c)
    BY <1>1, <1>2, <1>5 DEF Refused
  <1>6. CASE StoreGrant(c)
    BY <1>1, <1>2, <1>6 DEF StoreGrant
  <1> QED BY <1>1, <1>3, <1>4, <1>5, <1>6 DEF Advances

\* What is in hand stays in hand, and the worker's deadlines stay.
LEMMA AsideFacts ==
  ASSUME HandInv, Aside
  PROVE  /\ UNCHANGED <<now, up, wake, started, batch, entries, due>>
         /\ \A c \in Custodies : flight'[c] = NULL <=> flight[c] = NULL
         /\ Ticking' <=> Ticking
         /\ Running' <=> Running
         /\ TickEnds' = TickEnds
         /\ \A c \in Custodies : InHand(c)' <=> InHand(c)
  <1>1. /\ UNCHANGED <<now, up, wake, started, batch, entries, due>>
        /\ \A c \in Custodies : flight'[c] = NULL <=> flight[c] = NULL
    <2>1. ASSUME NEW c \in Custodies, Advances(c)
          PROVE  /\ UNCHANGED <<now, up, wake, started, batch, entries, due>>
                 /\ \A d \in Custodies : flight'[d] = NULL <=> flight[d] = NULL
      <3>1. UNCHANGED <<now, up, wake, started, batch, entries, due>>
        BY <2>1 DEF Advances, LoadCustody, Granted, Refused, StoreGrant, clockVars, schedVars
      <3>2. PICK f \in Refresh : flight' = [flight EXCEPT ![c] = f]
        BY <2>1, AdvancesTask
      <3>3. flight[c] # NULL /\ f # NULL
        BY <2>1, AdvancesTask, NullAssumption
      <3> QED BY <3>1, <3>2, <3>3 DEF HandInv, TypeOK, TickOK
    <2>2. ASSUME NEW c \in Custodies, Login(c) \/ Logout(c) \/ Revoke(c)
          PROVE  UNCHANGED <<now, up, wake, started, batch, entries, due, flight>>
      BY <2>2 DEF Login, Logout, Revoke, clockVars, schedVars, tickVars
    <2>3. CASE Commit \/ Reap \/ UNCHANGED vars
      BY <2>3 DEF Commit, Reap, vars, clockVars, schedVars, tickVars
    <2> QED BY <2>1, <2>2, <2>3 DEF Aside
  <1>2. (Ticking' <=> Ticking) /\ (Running' <=> Running)
    BY <1>1 DEF Ticking, Running
  <1>3. TickEnds' = TickEnds
    BY <1>1, <1>2 DEF TickEnds
  <1>4. \A c \in Custodies : InHand(c)' <=> InHand(c)
    BY <1>1 DEF InHand
  <1> QED BY <1>1, <1>2, <1>3, <1>4

\* What the worker's own steps do to its deadlines.
LEMMA ClockAdvances ==
  ASSUME TypeOK, Punctual, Tick
  PROVE  /\ now' = now + 1 /\ UNCHANGED <<up, wake, started, batch, flight, schedule>>
         /\ Ticking => Running /\ now < started + MaxCall /\ TickEnds' = TickEnds
         /\ ~ Ticking => schedule = {} /\ now < wake
         /\ Ticking' <=> Ticking
         /\ Running' <=> Running
  <1>1. /\ now' = now + 1 /\ UNCHANGED <<up, wake, started, batch, flight, schedule>>
        /\ Ticking => Running /\ now < started + MaxCall
        /\ ~ Ticking => schedule = {} /\ now < wake
    BY DEF Tick, Running, schedVars, tickVars, Punctual
  <1>2. (Ticking' <=> Ticking) /\ (Running' <=> Running)
    BY <1>1 DEF Ticking, Running
  <1> QED BY <1>1, <1>2 DEF TickEnds

LEMMA ArrivalFacts ==
  ASSUME (\E c \in Custodies : Receive(c)) \/ ReceiveOther
  PROVE  /\ up /\ ~ Ticking /\ wake' = now + IdleTick
         /\ UNCHANGED <<now, up, started, batch, flight, row>>
         /\ schedule' \subseteq schedule
         /\ Ticking' <=> Ticking
         /\ Running' <=> Running
         /\ TickEnds' = TickEnds
  <1>1. /\ up /\ ~ Ticking /\ wake' = now + IdleTick
        /\ UNCHANGED <<now, up, started, batch, flight, row>>
        /\ schedule' \subseteq schedule
    BY DEF Receive, ReceiveOther, clockVars, tickVars, storeVars
  <1>2. (Ticking' <=> Ticking) /\ (Running' <=> Running)
    BY <1>1 DEF Ticking, Running
  <1> QED BY <1>1, <1>2 DEF TickEnds

LEMMA TakeDueFacts ==
  ASSUME TakeDue
  PROVE  /\ ~ Ticking /\ now >= wake /\ batch' = Ready /\ Ready \subseteq Custodies
         /\ wake' = (IF Ready = {} THEN now + IdleTick ELSE wake)
         /\ UNCHANGED <<now, up, started, flight, schedule, row>>
         /\ ~ Running' /\ (Ticking' <=> Ready # {})
         /\ TickEnds' = now + Span(Cardinality(Ready))
  <1>1. /\ ~ Ticking /\ now >= wake /\ batch' = Ready /\ Ready \subseteq Custodies
        /\ wake' = (IF Ready = {} THEN now + IdleTick ELSE wake)
        /\ UNCHANGED <<now, up, started, flight, schedule, row>>
    BY DEF TakeDue, Ready, clockVars, storeVars
  <1>2. ~ Running' /\ (Ticking' <=> Ready # {})
    BY <1>1 DEF Ticking, Running
  <1> QED BY <1>1, <1>2 DEF TickEnds

LEMMA DispatchFacts ==
  ASSUME TypeOK, Punctual, Dispatch
  PROVE  /\ started' = now /\ ~ Running /\ Ticking /\ Running' /\ Ticking'
         /\ UNCHANGED <<now, up, wake, schedule, entries, row>>
         /\ now + MaxCall <= TickEnds
         /\ TickEnds' \in Nat /\ TickEnds' <= TickEnds
         /\ TickEnds' = now + MaxCall + Span(Cardinality(batch'))
         /\ Span(Cardinality(batch')) + MaxCall <= Whole
         /\ \A c \in Custodies : InHand(c)' <=> InHand(c)
         /\ batch' \subseteq batch
         /\ \A c \in Custodies : flight'[c] # NULL => c \in batch /\ flight'[c] = NotStarted
  <1>1. PICK chunk \in SUBSET batch :
          /\ Cardinality(chunk) = Smaller(Slots, Cardinality(batch))
          /\ flight' = [c \in Custodies |-> IF c \in chunk THEN NotStarted ELSE NULL]
          /\ batch' = batch \ chunk
    BY DEF Dispatch, Slots
  <1>2. /\ started' = now /\ batch # {} /\ ~ Running /\ Ticking
        /\ UNCHANGED <<now, up, wake, schedule, entries, row>>
    BY DEF Dispatch, Running, Ticking, clockVars, schedVars, storeVars
  <1>3. /\ IsFiniteSet(batch) /\ Cardinality(batch) \in Nat
        /\ Span(Cardinality(batch)) <= Whole /\ Whole \in Nat
        /\ Span(Cardinality(batch)) \in Nat
    BY SpanOf DEF TypeOK, TickOK
  <1>4. Cardinality(batch) >= 1
    BY <1>2, <1>3, FS_EmptySet
  <1>5. Cardinality(batch') = Cardinality(batch) - Smaller(Slots, Cardinality(batch))
    <2>1. IsFiniteSet(chunk) /\ batch \cap chunk = chunk
      BY <1>3, FS_Subset
    <2>2. Cardinality(batch \ chunk) = Cardinality(batch) - Cardinality(batch \cap chunk)
      BY ONLY <1>3, FS_Difference
    <2> QED BY <1>1, <2>1, <2>2
  <1>6. Span(Cardinality(batch')) + MaxCall <= Span(Cardinality(batch))
    BY <1>3, <1>4, <1>5, SpanFacts
  <1>7. Span(Cardinality(batch')) \in Nat
    <2>1. batch' \in SUBSET Custodies
      BY <1>1 DEF TypeOK, TickOK
    <2> QED BY <2>1, SpanOf
  <1>8. NotStarted # NULL
    <2>1. NotStarted \in Refresh
      BY DEF NotStarted, Refresh
    <2> QED BY <2>1, NullAssumption
  <1>9. Running' /\ Ticking'
    <2>1. chunk # {}
      BY <1>1, <1>3, <1>4, SlotsNat, FS_EmptySet DEF Smaller
    <2>2. PICK c \in chunk : c \in Custodies
      BY <2>1 DEF TypeOK, TickOK
    <2> QED BY <1>1, <1>8, <2>2 DEF Running, Ticking
  <1>10. TickEnds' = now + MaxCall + Span(Cardinality(batch'))
    BY <1>2, <1>9 DEF TickEnds
  <1>11. TickEnds = now + Span(Cardinality(batch)) /\ now \in Nat /\ MaxCall \in Nat
    BY <1>2, TickFacts
  <1>12. \A c \in Custodies : InHand(c)' <=> InHand(c)
    BY <1>1, <1>2, <1>8 DEF InHand, Running
  <1>13. /\ now + MaxCall <= TickEnds
         /\ TickEnds' \in Nat /\ TickEnds' <= TickEnds
         /\ Span(Cardinality(batch')) + MaxCall <= Whole
    BY <1>3, <1>6, <1>7, <1>10, <1>11
  <1>14. \A c \in Custodies : flight'[c] # NULL => c \in batch /\ flight'[c] = NotStarted
    BY <1>1
  <1> QED BY <1>1, <1>2, <1>9, <1>10, <1>12, <1>13, <1>14

LEMMA RecordFacts ==
  ASSUME TypeOK, Punctual, NEW c \in Custodies, Record(c)
  PROVE  /\ UNCHANGED <<now, up, started, batch, schedule, row>>
         /\ flight[c] # NULL /\ flight' = [flight EXCEPT ![c] = NULL]
         /\ Running /\ Ticking
         /\ ~ Ticking' => wake' = now + IdleTick
         /\ wake' = wake \/ wake' = now + IdleTick
         /\ TickEnds' \in Nat /\ TickEnds' <= TickEnds
  <1>1. /\ flight' = [flight EXCEPT ![c] = NULL]
        /\ wake' = (IF batch = {} /\ \A d \in Custodies \ {c} : flight[d] = NULL
                    THEN now + IdleTick ELSE wake)
        /\ UNCHANGED <<now, up, started, batch, schedule, row>>
        /\ flight[c] # NULL
    BY DEF Record, Joined, Stage, clockVars
  <1>2. Running /\ Ticking
    BY <1>1 DEF Running, Ticking
  <1>3. Running' <=> \E d \in Custodies \ {c} : flight[d] # NULL
    BY <1>1 DEF Running, TypeOK, TickOK
  <1>4. Ticking' <=> batch # {} \/ Running'
    BY <1>1 DEF Ticking, Running
  <1>5. ~ Ticking' => wake' = now + IdleTick
    BY <1>1, <1>3, <1>4
  <1>6. TickEnds' <= TickEnds /\ TickEnds' \in Nat
    <2>1. /\ now \in Nat /\ started \in Nat /\ MaxCall \in Nat
          /\ Span(Cardinality(batch)) \in Nat /\ TickEnds \in Nat
          /\ TickEnds = started + MaxCall + Span(Cardinality(batch))
          /\ now <= started + MaxCall
      BY <1>2, TickFacts DEF Punctual
    <2>2. Running' => TickEnds' = TickEnds
      BY <1>1, <1>2 DEF TickEnds
    <2>3. ~ Running' => TickEnds' = now + Span(Cardinality(batch))
      BY <1>1 DEF TickEnds
    <2> QED BY <2>1, <2>2, <2>3
  <1> QED BY <1>1, <1>2, <1>5, <1>6

\* The tick can last no longer than refreshing everybody.
LEMMA PunctualStep ==
  ASSUME Reliable, InTime
  PROVE  HandInv /\ Punctual /\ [Next]_vars => Punctual'
  <1> SUFFICES ASSUME HandInv, Punctual, [Next]_vars PROVE Punctual'
    OBVIOUS
  <1>0. TypeOK /\ TypeOK' /\ ReliableNext
    BY TypeStep, ReliableStep DEF HandInv, Punctual
  <1>1. /\ now \in Nat /\ wake \in Nat /\ started \in Nat /\ MaxCall \in Nat
        /\ Span(Cardinality(batch)) \in Nat /\ TickEnds \in Nat /\ now <= TickEnds
        /\ (~ Ticking => TickEnds = now /\ ~ Running /\ batch = {})
        /\ (Running => TickEnds = started + MaxCall + Span(Cardinality(batch)))
        /\ (~ Running => TickEnds = now + Span(Cardinality(batch)))
    BY <1>0, TickFacts
  <1>2. IdleTick \in Nat /\ IdleTick >= 1 /\ Whole \in Nat
    BY TimingNat, SpanOf DEF InTime
  <1>3. \A r \in schedule : r.issued_at \in Nat
    BY <1>0 DEF TypeOK, SchedOK
  <1>4. CASE Tick
    <2>1. /\ now' = now + 1 /\ UNCHANGED <<up, wake, started, batch, flight, schedule>>
          /\ Ticking => Running /\ now < started + MaxCall /\ TickEnds' = TickEnds
          /\ ~ Ticking => schedule = {} /\ now < wake
          /\ Ticking' <=> Ticking
          /\ Running' <=> Running
      BY <1>0, <1>4, ClockAdvances
    <2> QED BY <1>1, <1>2, <2>1 DEF Punctual
  <1>5. CASE (\E c \in Custodies : Receive(c)) \/ ReceiveOther
    <2>1. /\ up /\ ~ Ticking /\ wake' = now + IdleTick
          /\ UNCHANGED <<now, up, started, batch, flight>>
          /\ schedule' \subseteq schedule
          /\ (Ticking' <=> Ticking) /\ (Running' <=> Running) /\ TickEnds' = TickEnds
      BY <1>5, ArrivalFacts
    <2> QED BY <1>1, <1>2, <2>1 DEF Punctual
  <1>6. CASE TakeDue
    <2>1. /\ Span(Cardinality(Ready)) \in Nat /\ Span(Cardinality(Ready)) <= Whole
          /\ (Ready = {} => Span(Cardinality(Ready)) = 0)
      BY <1>6, TakeDueFacts, SpanOf
    <2>2. \A r \in schedule : r.issued_at = now
      BY <1>1, <1>6, TakeDueFacts DEF Punctual
    <2> QED BY <1>1, <1>2, <1>6, <2>1, <2>2, TakeDueFacts DEF Punctual
  <1>7. CASE Dispatch
    <2>1. /\ started' = now /\ ~ Running /\ Ticking /\ Running' /\ Ticking'
          /\ UNCHANGED <<now, up, wake, schedule>>
          /\ TickEnds' \in Nat /\ TickEnds' <= TickEnds
          /\ Span(Cardinality(batch')) + MaxCall <= Whole
      BY <1>0, <1>7, DispatchFacts
    <2>2. Span(Cardinality(batch')) \in Nat
      BY <1>0, SpanOf DEF TypeOK, TickOK
    <2> QED BY <1>1, <1>2, <1>3, <2>1, <2>2 DEF Punctual
  <1>8. ASSUME NEW c \in Custodies, Record(c) PROVE Punctual'
    <2>1. /\ UNCHANGED <<now, up, started, batch, schedule>>
          /\ flight[c] # NULL
          /\ Running /\ Ticking
          /\ ~ Ticking' => wake' = now + IdleTick
          /\ wake' = wake \/ wake' = now + IdleTick
          /\ TickEnds' \in Nat /\ TickEnds' <= TickEnds
      BY <1>0, <1>8, RecordFacts
    <2> QED BY <1>1, <1>2, <1>3, <2>1 DEF Punctual
  <1>9. CASE Aside
    <2>1. /\ UNCHANGED <<now, up, wake, started, batch>>
          /\ (Ticking' <=> Ticking) /\ (Running' <=> Running) /\ TickEnds' = TickEnds
      BY <1>9, AsideFacts
    <2>2. \A r \in schedule' : r \in schedule \/ r.issued_at = now
      <3>1. ASSUME NEW c \in Custodies, Login(c)
            PROVE  \A r \in schedule' : r \in schedule \/ r.issued_at = now
        BY <3>1 DEF Login
      <3>2. ASSUME NEW c \in Custodies, Advances(c) \/ Logout(c) \/ Revoke(c)
            PROVE  UNCHANGED schedule
        BY <3>2 DEF Advances, LoadCustody, Granted, Refused, StoreGrant, Logout, Revoke,
                    schedVars
      <3>3. CASE Commit \/ Reap \/ UNCHANGED vars
        BY <3>3 DEF Commit, Reap, vars, schedVars
      <3> QED BY <1>9, <3>1, <3>2, <3>3 DEF Aside
    <2>3. TickEnds <= now + Whole
      <3>1. Span(Cardinality(batch)) <= Whole
        BY <1>0, SpanOf DEF TypeOK, TickOK
      <3> QED BY <1>1, <1>2, <3>1 DEF Punctual
    <2> QED BY <1>1, <1>2, <2>1, <2>2, <2>3 DEF Punctual
  <1> QED BY <1>0, <1>4, <1>5, <1>6, <1>7, <1>8, <1>9 DEF ReliableNext

\* A step that touches nothing the deadlines of custody c depend on.
LEMMA TimesFrame ==
  ASSUME NEW c \in Custodies, TimesOf(c),
         row'[c] # NULL => row[c] # NULL /\ row'[c].access_exp = row[c].access_exp,
         entries'[c] = entries[c],
         flight'[c] = flight[c],
         UNCHANGED <<now, wake, batch, started>>,
         schedule \subseteq schedule',
         TickEnds' = TickEnds,
         Ticking' <=> Ticking
  PROVE  TimesOf(c)'
  <1>1. SUFFICES ASSUME row'[c] # NULL PROVE TimesOf(c)'
    BY DEF TimesOf
  <1>2. TaskInTime(c)'
    BY <1>1 DEF TimesOf, TaskInTime, Fresh
  <1>3. WaitInTime(c)'
    BY <1>1 DEF TimesOf, WaitInTime, Waiting, InHand
  <1> QED BY <1>1, <1>2, <1>3 DEF TimesOf

\* What the proofs below need to know of a custody that is not in hand.
LEMMA WaitingIsDue ==
  ASSUME StaysScheduled, NEW c \in Custodies, Waiting(c)
  PROVE  /\ <<entries[c].next_refresh, c>> \in due
         /\ ~ entries[c].refreshing
  BY DEF StaysScheduled, Waiting

LEMMA TimeTypes ==
  ASSUME TypeOK, NEW c \in Custodies
  PROVE  /\ row[c] # NULL => row[c].access_exp \in Nat
         /\ entries[c] # NULL => entries[c] \in CustodyState /\ entries[c].next_refresh \in Nat
         /\ flight[c] # NULL => flight[c].at \in Nat
  BY DEF TypeOK, SchedOK, StoreOK, TickOK, Option, CustodyRow, CustodyState, Refresh

\* A second passes: a custody that comes due still has the sleep before it.
LEMMA ClockTimes ==
  ASSUME TypeOK, Punctual, InTime, NEW c \in Custodies, TimesOf(c), Tick
  PROVE  TimesOf(c)'
  <1>1. /\ now' = now + 1 /\ UNCHANGED <<up, wake, started, batch, flight, schedule>>
        /\ Ticking => Running /\ now < started + MaxCall /\ TickEnds' = TickEnds
        /\ ~ Ticking => schedule = {} /\ now < wake
        /\ Ticking' <=> Ticking
        /\ Running' <=> Running
    BY ClockAdvances
  <1>2. UNCHANGED <<row, entries>>
    BY DEF Tick, schedVars, storeVars
  <1>3. SUFFICES ASSUME row[c] # NULL PROVE TimesOf(c)'
    BY <1>2 DEF TimesOf
  <1>4. TaskInTime(c)'
    BY <1>1, <1>2, <1>3 DEF TimesOf, TaskInTime, Fresh
  <1>5. WaitInTime(c)'
    <2>1. SUFFICES ASSUME Waiting(c) PROVE WaitInTime(c)'
      BY <1>1, <1>2 DEF WaitInTime, Waiting, InHand
    <2>2. /\ entries[c].next_refresh + IdleTick + Rest + Whole <= row[c].access_exp + 1
          /\ Ticking => TickEnds + IdleTick + Whole <= row[c].access_exp
          /\ ~ Ticking /\ entries[c].next_refresh <= now =>
                 wake + Whole <= row[c].access_exp
      BY <1>3, <2>1 DEF TimesOf, WaitInTime
    <2>3. /\ row[c].access_exp \in Nat /\ entries[c].next_refresh \in Nat
          /\ now \in Nat /\ wake \in Nat /\ IdleTick \in Nat /\ Whole \in Nat /\ Rest \in Nat
      BY <1>3, <2>1, TimeTypes, TimingNat, WholeRest DEF TypeOK, ClockOK, SchedOK, Waiting
    <2>4. wake <= now + IdleTick
      BY DEF Punctual
    <2>5. entries[c].next_refresh = now + 1 => wake + Whole <= row[c].access_exp
      BY <2>2, <2>3, <2>4
    <2>6. ~ Ticking /\ entries[c].next_refresh <= now + 1 => wake + Whole <= row[c].access_exp
      BY <2>2, <2>3, <2>5
    <2> QED BY <1>1, <1>2, <2>2, <2>6 DEF WaitInTime
  <1>6. c \in batch => TickEnds' <= row[c].access_exp
    BY <1>1, <1>3 DEF TimesOf, Ticking
  <1> QED BY <1>1, <1>2, <1>3, <1>4, <1>5, <1>6 DEF TimesOf

\* A request that arrives finds nothing due, or does not move the wake.
LEMMA ArrivalTimes ==
  ASSUME HandInv, Ledger, StaysScheduled, Punctual, InTime, Undisturbed,
         (\E c \in Custodies : Receive(c)) \/ ReceiveOther,
         NEW c \in Custodies, TimesOf(c)
  PROVE  TimesOf(c)'
  <1>0. /\ up /\ ~ Ticking /\ wake' = now + IdleTick
        /\ UNCHANGED <<now, up, started, batch, flight, row>>
        /\ Ticking' <=> Ticking
        /\ TickEnds' = TickEnds
    BY ArrivalFacts
  <1>1. SUFFICES ASSUME row[c] # NULL PROVE TimesOf(c)'
    BY <1>0 DEF TimesOf
  <1>2. wake' = wake \/ \A e \in due : e[1] > now
    BY DEF Undisturbed
  <1>3. TypeOK /\ now \in Nat /\ IdleTick \in Nat /\ Lifetime \in Nat
    BY TimingNat DEF HandInv, TypeOK, ClockOK
  <1>4. TaskInTime(c)'
    BY <1>0, <1>1 DEF TimesOf, TaskInTime, Fresh
  <1>5. CASE Receive(c)
    <2>1. PICK r \in schedule, d \in LeadDelays(Lifetime) :
            /\ r.custody = c
            /\ entries' = [entries EXCEPT ![c] =
                  [status |-> "ok", access_exp |-> r.issued_at + Lifetime,
                   next_refresh |-> r.issued_at + d, fail_count |-> 0,
                   refreshing |-> FALSE]]
      BY <1>5 DEF Receive
    <2>2. /\ entries'[c] = [status |-> "ok", access_exp |-> r.issued_at + Lifetime,
                            next_refresh |-> r.issued_at + d, fail_count |-> 0,
                            refreshing |-> FALSE]
      BY <1>3, <2>1 DEF TypeOK, SchedOK
    <2>3. entries'[c].next_refresh = r.issued_at + d /\ entries'[c] # NULL
      <3>1. r.issued_at \in Nat /\ d \in Nat
        BY <1>3, <2>1, TimingNat DEF TypeOK, SchedOK
      <3>2. entries'[c] \in CustodyState
        BY <1>3, <2>2, <3>1 DEF CustodyState, CustodyStatus
      <3>3. entries'[c].next_refresh = r.issued_at + d
        BY <2>2
      <3>4. entries'[c] # NULL
        BY <3>2, NullAssumption
      <3> QED BY <3>3, <3>4
    <2>4. row[c].access_exp = r.issued_at + Lifetime
      BY <1>1, <2>1 DEF Ledger, LedgerOf, NewbornOf
    <2>5. /\ r.issued_at \in Nat /\ d \in Nat
          /\ now <= r.issued_at + Whole
      <3>1. r.issued_at \in Nat /\ d \in Nat
        BY <1>3, <2>1, TimingNat DEF TypeOK, SchedOK
      <3>2. TickEnds = now /\ TickEnds <= r.issued_at + Whole
        BY <1>0, <1>3, <2>1, TickFacts DEF Punctual
      <3> QED BY <3>1, <3>2
    <2>6. /\ Whole \in Nat /\ Rest \in Nat /\ MaxCall \in Nat
          /\ Whole + IdleTick + Whole <= Lifetime
          /\ MaxCall + d + IdleTick + Rest + Whole <= Lifetime + 1
      BY Policy, TimingNat
    <2>7. /\ (r.issued_at + d) + IdleTick + Rest + Whole <= row[c].access_exp + 1
          /\ wake' + Whole <= row[c].access_exp
      BY <1>0, <1>3, <2>4, <2>5, <2>6
    <2>8. WaitInTime(c)'
      BY <1>0, <2>3, <2>7 DEF WaitInTime
    <2>9. c \notin batch
      BY <1>0 DEF Ticking
    <2> QED BY <1>0, <1>4, <2>3, <2>8, <2>9 DEF TimesOf
  <1>6. CASE ~ Receive(c)
    <2>1. entries'[c] = entries[c] /\ \A r \in schedule : r.custody = c => r \in schedule'
      <3>1. CASE ReceiveOther
        BY <3>1 DEF ReceiveOther
      <3>2. ASSUME NEW d \in Custodies, Receive(d), d # c
            PROVE  entries'[c] = entries[c] /\ \A r \in schedule : r.custody = c => r \in schedule'
        BY <1>3, <3>2 DEF Receive, TypeOK, SchedOK
      <3> QED BY <1>6, <3>1, <3>2
    <2>2. WaitInTime(c)'
      <3>1. SUFFICES ASSUME Waiting(c) PROVE WaitInTime(c)'
        BY <1>0, <2>1 DEF WaitInTime, Waiting, InHand
      <3>2. <<entries[c].next_refresh, c>> \in due /\ entries[c].next_refresh \in Nat
        BY <1>3, <3>1, WaitingIsDue, TimeTypes DEF Waiting
      <3>3. entries[c].next_refresh <= now => wake' = wake
        BY <1>2, <1>3, <3>2
      <3> QED BY <1>0, <1>1, <2>1, <3>1, <3>3 DEF TimesOf, WaitInTime
    <2> QED BY <1>0, <1>1, <1>4, <2>1, <2>2 DEF TimesOf, Ticking
  <1> QED BY <1>5, <1>6

\* The sleep ends: what is due is taken while there is time for everybody, and
\* what is not due has time for what was taken.
LEMMA TakeDueTimes ==
  ASSUME HandInv, StaysScheduled, Punctual, InTime, TakeDue,
         NEW c \in Custodies, TimesOf(c)
  PROVE  TimesOf(c)'
  <1>0. /\ ~ Ticking /\ now >= wake /\ batch' = Ready /\ Ready \subseteq Custodies
        /\ UNCHANGED <<now, up, started, flight, schedule, row>>
        /\ Ticking' <=> Ready # {}
        /\ TickEnds' = now + Span(Cardinality(Ready))
    BY TakeDueFacts
  <1>1. SUFFICES ASSUME row[c] # NULL PROVE TimesOf(c)'
    BY <1>0 DEF TimesOf
  <1>2. TypeOK /\ now \in Nat /\ wake \in Nat /\ IdleTick \in Nat /\ now <= wake
    BY <1>0, TimingNat DEF HandInv, TypeOK, ClockOK, SchedOK, Punctual
  <1>3. /\ Span(Cardinality(Ready)) \in Nat /\ Span(Cardinality(Ready)) <= Whole
        /\ c \notin Ready => Span(Cardinality(Ready)) <= Rest
        /\ Whole \in Nat /\ Rest \in Nat
    BY <1>0, SpanOf, WholeRest
  <1>4. TaskInTime(c)'
    BY <1>0, <1>1 DEF TimesOf, TaskInTime, Fresh
  <1>5. ~ InHand(c)
    BY <1>0 DEF InHand, Ticking
  <1>6. /\ entries[c] # NULL => entries[c].next_refresh \in Nat
        /\ row[c].access_exp \in Nat
    BY <1>1, <1>2, TimeTypes
  <1>7. CASE c \in Ready
    <2>1. Waiting(c) /\ entries[c].next_refresh <= now
      BY <1>5, <1>7 DEF Ready, Waiting
    <2>2. wake + Whole <= row[c].access_exp
      BY <1>0, <1>1, <2>1 DEF TimesOf, WaitInTime
    <2>3. TickEnds' <= row[c].access_exp
      BY <1>0, <1>2, <1>3, <1>6, <2>2
    <2>4. entries'[c] # NULL
      <3>1. entries'[c] = [entries[c] EXCEPT !.refreshing = TRUE]
        BY <1>7 DEF TakeDue
      <3>2. entries[c] \in CustodyState
        BY <1>2, <2>1, TimeTypes DEF Waiting
      <3>3. [entries[c] EXCEPT !.refreshing = TRUE] \in CustodyState
        BY <3>2 DEF CustodyState
      <3> QED BY <3>1, <3>3, NullAssumption
    <2>5. WaitInTime(c)'
      BY <1>0, <1>7 DEF WaitInTime, Waiting, InHand
    <2> QED BY <1>0, <1>4, <2>3, <2>4, <2>5 DEF TimesOf
  <1>8. CASE c \notin Ready
    <2>1. entries'[c] = entries[c]
      BY <1>8 DEF TakeDue
    <2>2. WaitInTime(c)'
      <3>1. SUFFICES ASSUME Waiting(c) PROVE WaitInTime(c)'
        BY <1>5, <2>1 DEF WaitInTime, Waiting
      <3>2. entries[c].next_refresh > now
        <4>1. <<entries[c].next_refresh, c>> \in due /\ ~ entries[c].refreshing
          BY <3>1, WaitingIsDue
        <4>2. entries[c].next_refresh <= now => c \in Ready
          BY <3>1, <4>1 DEF Ready, Waiting
        <4> QED BY <1>2, <1>6, <1>8, <3>1, <4>2 DEF Waiting
      <3>3. entries[c].next_refresh + IdleTick + Rest + Whole <= row[c].access_exp + 1
        BY <1>1, <3>1 DEF TimesOf, WaitInTime
      <3>4. TickEnds' + IdleTick + Whole <= row[c].access_exp
        BY <1>0, <1>2, <1>3, <1>6, <1>8, <3>1, <3>2, <3>3 DEF Waiting
      <3>5. ~ (entries[c].next_refresh <= now)
        BY <1>2, <1>6, <3>1, <3>2 DEF Waiting
      <3> QED BY <1>0, <2>1, <3>3, <3>4, <3>5 DEF WaitInTime
    <2> QED BY <1>0, <1>1, <1>4, <1>8, <2>1, <2>2 DEF TimesOf
  <1> QED BY <1>7, <1>8

\* A chunk is spawned: what is in it has its call before the tick's end.
LEMMA DispatchTimes ==
  ASSUME TypeOK, Punctual, Dispatch, NEW c \in Custodies, TimesOf(c)
  PROVE  TimesOf(c)'
  <1>0. /\ started' = now /\ Ticking /\ Ticking'
        /\ UNCHANGED <<now, up, wake, schedule, entries, row>>
        /\ now + MaxCall <= TickEnds
        /\ TickEnds' \in Nat /\ TickEnds' <= TickEnds
        /\ InHand(c)' <=> InHand(c)
        /\ batch' \subseteq batch
        /\ flight'[c] # NULL => c \in batch /\ flight'[c] = NotStarted
    BY DispatchFacts
  <1>1. SUFFICES ASSUME row[c] # NULL PROVE TimesOf(c)'
    BY <1>0 DEF TimesOf
  <1>2. /\ now \in Nat /\ TickEnds \in Nat /\ MaxCall \in Nat /\ row[c].access_exp \in Nat
        /\ IdleTick \in Nat /\ Whole \in Nat
    BY <1>1, TickFacts, TimeTypes, TimingNat, SpanOf
  <1>3. c \in batch => TickEnds <= row[c].access_exp
    BY <1>1 DEF TimesOf
  <1>4. TaskInTime(c)'
    <2>1. SUFFICES ASSUME flight'[c] # NULL PROVE TaskInTime(c)'
      BY DEF TaskInTime
    <2>2. c \in batch /\ flight'[c].stage = "reading"
      BY <1>0, <2>1 DEF NotStarted
    <2>3. now + MaxCall <= row[c].access_exp
      BY <1>0, <1>2, <1>3, <2>2
    <2> QED BY <1>0, <2>2, <2>3 DEF TaskInTime, Fresh
  <1>5. c \in batch' => TickEnds' <= row[c].access_exp
    BY <1>0, <1>2, <1>3
  <1>6. WaitInTime(c)'
    <2>1. SUFFICES ASSUME Waiting(c) PROVE WaitInTime(c)'
      BY <1>0 DEF WaitInTime, Waiting
    <2>2. /\ entries[c].next_refresh + IdleTick + Rest + Whole <= row[c].access_exp + 1
          /\ TickEnds + IdleTick + Whole <= row[c].access_exp
      BY <1>0, <1>1, <2>1 DEF TimesOf, WaitInTime
    <2>3. TickEnds' + IdleTick + Whole <= row[c].access_exp
      BY <1>0, <1>2, <2>2
    <2> QED BY <1>0, <2>2, <2>3 DEF WaitInTime
  <1> QED BY <1>0, <1>1, <1>4, <1>5, <1>6 DEF TimesOf

\* Another custody's result leaves the others their time: if it was the tick's
\* last, they were given it for the sleep that starts.
LEMMA RecordTimesOther ==
  ASSUME TypeOK, Punctual, NEW d \in Custodies, Record(d),
         NEW c \in Custodies, c # d, TimesOf(c)
  PROVE  TimesOf(c)'
  <1>0. /\ UNCHANGED <<now, up, started, batch, schedule, row>>
        /\ flight' = [flight EXCEPT ![d] = NULL]
        /\ Running /\ Ticking
        /\ ~ Ticking' => wake' = now + IdleTick
        /\ TickEnds' \in Nat /\ TickEnds' <= TickEnds
    BY RecordFacts
  <1>1. SUFFICES ASSUME row[c] # NULL PROVE TimesOf(c)'
    BY <1>0 DEF TimesOf
  <1>2. flight'[c] = flight[c] /\ entries'[c] = entries[c]
    BY <1>0 DEF Record, TypeOK, TickOK, SchedOK
  <1>3. /\ now \in Nat /\ TickEnds \in Nat /\ now <= TickEnds
        /\ row[c].access_exp \in Nat /\ IdleTick \in Nat /\ Whole \in Nat
    BY <1>1, TickFacts, TimeTypes, TimingNat, SpanOf
  <1>4. TaskInTime(c)'
    BY <1>0, <1>1, <1>2 DEF TimesOf, TaskInTime, Fresh
  <1>5. c \in batch => TickEnds' <= row[c].access_exp
    <2>1. c \in batch => TickEnds <= row[c].access_exp
      BY <1>1 DEF TimesOf
    <2> QED BY <1>0, <1>3, <2>1
  <1>6. WaitInTime(c)'
    <2>1. SUFFICES ASSUME Waiting(c) PROVE WaitInTime(c)'
      BY <1>0, <1>2 DEF WaitInTime, Waiting, InHand
    <2>2. /\ entries[c].next_refresh + IdleTick + Rest + Whole <= row[c].access_exp + 1
          /\ TickEnds + IdleTick + Whole <= row[c].access_exp
      BY <1>0, <1>1, <2>1 DEF TimesOf, WaitInTime
    <2>3. TickEnds' + IdleTick + Whole <= row[c].access_exp
      BY <1>0, <1>3, <2>2
    <2>4. ~ Ticking' => wake' + Whole <= row[c].access_exp
      BY <1>0, <1>3, <2>2
    <2> QED BY <1>0, <1>2, <2>2, <2>3, <2>4 DEF WaitInTime
  <1> QED BY <1>0, <1>1, <1>2, <1>4, <1>5, <1>6 DEF TimesOf

\* A custody's own result schedules it early enough in the life of the token
\* just stored.
LEMMA RecordTimes ==
  ASSUME HandInv, Punctual, InTime, NEW c \in Custodies, Record(c), TimesOf(c)
  PROVE  TimesOf(c)'
  <1>0. /\ UNCHANGED <<now, up, started, batch, schedule, row>>
        /\ flight[c] # NULL /\ flight' = [flight EXCEPT ![c] = NULL]
        /\ Running /\ Ticking
        /\ TickEnds' \in Nat /\ TickEnds' <= TickEnds
    BY RecordFacts DEF HandInv
  <1>1. SUFFICES ASSUME row[c] # NULL PROVE TimesOf(c)'
    BY <1>0 DEF TimesOf
  <1>2. /\ TypeOK /\ flight'[c] = NULL /\ c \notin batch
        /\ entries[c] \in CustodyState
        /\ flight[c].stage = "done"
        /\ flight[c].outcome \in {"success", "transient", "permanent"}
    BY <1>0 DEF Record, Stage, HandInv, OneRefreshAtATime, InHand, TypeOK, SchedOK, TickOK,
                Option, Refresh
  <1>3. flight[c].outcome \in {"success", "permanent"}
    BY <1>0, <1>1, <1>2 DEF TimesOf, TaskInTime
  <1>4. PICK e \in Recorded(entries[c], flight[c].outcome) :
          entries' = [entries EXCEPT ![c] = e]
    BY DEF Record
  <1>5. now \in Nat
    BY <1>2 DEF TypeOK, ClockOK
  <1>6. /\ e \in CustodyState /\ e # NULL /\ entries'[c] = e
        /\ flight[c].outcome = "permanent" => e.status = "dead"
    <2>1. e \in CustodyState /\ (flight[c].outcome = "permanent" => e.status = "dead")
      BY <1>2, <1>5, RecordedEntry
    <2>2. e # NULL
      BY <2>1, NullAssumption
    <2>3. entries'[c] = e
      BY <1>2, <1>4 DEF TypeOK, SchedOK
    <2> QED BY <2>1, <2>2, <2>3
  <1>7. WaitInTime(c)'
    <2>1. SUFFICES ASSUME flight[c].outcome = "success" PROVE WaitInTime(c)'
      BY <1>3, <1>6 DEF WaitInTime, Waiting
    <2>2. PICK d \in LeadDelays(Lifetime) : e.next_refresh = now + d
      <3>1. PICK d \in LeadDelays(Lifetime) :
              e = [status |-> "ok", access_exp |-> now + Lifetime,
                   next_refresh |-> now + d, fail_count |-> 0, refreshing |-> FALSE]
        BY <1>4, <2>1 DEF Recorded
      <3>2. e.next_refresh = now + d
        BY <3>1
      <3> QED BY <3>2
    <2>3. row[c].access_exp >= started + Lifetime
      BY <1>0, <1>1, <1>2, <2>1 DEF TimesOf, TaskInTime, Fresh
    <2>4. /\ now <= started + MaxCall
          /\ TickEnds = started + MaxCall + Span(Cardinality(batch))
          /\ MaxCall + Span(Cardinality(batch)) <= Whole
          /\ Span(Cardinality(batch)) \in Nat /\ started \in Nat /\ MaxCall \in Nat
      BY <1>0, <1>2, TickFacts DEF Punctual
    <2>5. /\ Whole \in Nat /\ Rest \in Nat
          /\ Whole + IdleTick + Whole <= Lifetime
          /\ MaxCall + d + IdleTick + Rest + Whole <= Lifetime + 1
          /\ d \in Nat /\ d >= 1 /\ IdleTick \in Nat /\ Lifetime \in Nat
      BY Policy, TimingNat
    <2>6. row[c].access_exp \in Nat
      BY <1>1, <1>2, TimeTypes
    <2>7. (now + d) + IdleTick + Rest + Whole <= row[c].access_exp + 1
      BY <1>5, <2>3, <2>4, <2>5, <2>6
    <2>8. TickEnds' + IdleTick + Whole <= row[c].access_exp
      <3>1. TickEnds <= started + Whole
        BY <2>4, <2>5
      <3> QED BY <1>0, <2>3, <2>4, <2>5, <2>6, <3>1
    <2>9. ~ (now + d <= now)
      BY <1>5, <2>5
    <2> QED BY <1>0, <1>6, <2>2, <2>7, <2>8, <2>9 DEF WaitInTime
  <1> QED BY <1>0, <1>1, <1>2, <1>6, <1>7 DEF TimesOf, TaskInTime

\* A custody's own task: it calls while there is time, and what it stores lives
\* on from the moment it called.
LEMMA AdvanceTimes ==
  ASSUME Reliable, HandInv, Punctual, InTime, NEW c \in Custodies, Advances(c), TimesOf(c)
  PROVE  TimesOf(c)'
  <1>0. /\ UNCHANGED <<now, up, wake, started, batch, entries>>
        /\ TickEnds' = TickEnds
        /\ InHand(c)' <=> InHand(c)
    BY AsideFacts DEF Aside
  <1>1. flight[c] # NULL /\ TypeOK /\ InHand(c)
    BY AdvancesTask DEF HandInv, InHand
  <1>2. UNCHANGED schedule
    BY DEF Advances, LoadCustody, Granted, Refused, StoreGrant, schedVars
  <1>3. row'[c] # NULL => row[c] # NULL /\ entries[c] # NULL /\ c \notin batch
    <2>1. row'[c] # NULL => row[c] # NULL
      BY DEF Advances, LoadCustody, Granted, Refused, StoreGrant, storeVars
    <2> QED BY <1>1, <2>1 DEF HandInv, OneRefreshAtATime
  <1>4. SUFFICES ASSUME row[c] # NULL, entries[c] # NULL, c \notin batch PROVE TimesOf(c)'
    BY <1>3 DEF TimesOf
  <1>5. /\ started + MaxCall <= row[c].access_exp
        /\ flight[c].stage \in {"calling", "storing"} => flight[c].at >= started
        /\ Fresh(c) => row[c].access_exp >= started + Lifetime
    BY <1>1, <1>4 DEF TimesOf, TaskInTime
  <1>6. /\ now \in Nat /\ started \in Nat /\ started <= now /\ MaxCall \in Nat
        /\ Lifetime \in Nat /\ MaxCall <= Lifetime
        /\ flight[c].at \in Nat
    <2>1. /\ Whole \in Nat /\ MaxCall <= Whole
          /\ Whole + IdleTick + Whole <= Lifetime
      BY Policy
    <2>2. /\ now \in Nat /\ started \in Nat /\ started <= now /\ MaxCall \in Nat
          /\ Lifetime \in Nat /\ IdleTick \in Nat /\ flight[c].at \in Nat
      BY <1>1, TickFacts, TimingNat, TimeTypes DEF Punctual
    <2>3. MaxCall <= Lifetime
      BY <2>1, <2>2
    <2> QED BY <2>2, <2>3
  <1>7. TaskInTime(c)'
    <2>1. CASE LoadCustody(c)
      <3>1. row' = row
        BY <2>1 DEF LoadCustody, storeVars
      <3>2. \/ flight'[c].stage = "calling" /\ flight'[c].at = now
            \/ flight'[c].stage = "done" /\ flight'[c].outcome = "permanent"
        BY <1>1, <2>1 DEF Reliable, LoadCustody, Finished, TypeOK, TickOK
      <3> QED BY <1>0, <1>5, <1>6, <3>1, <3>2 DEF TaskInTime, Fresh
    <2>2. CASE Granted(c)
      <3>1. row' = row
        BY <2>2 DEF Granted, storeVars
      <3>2. flight[c].stage = "calling"
        BY <2>2 DEF Granted, Stage
      <3>3. flight'[c].stage = "storing" /\ flight'[c].at = flight[c].at
        BY <1>1, <2>2 DEF Granted, TypeOK, TickOK
      <3> QED BY <1>0, <1>5, <3>1, <3>2, <3>3 DEF TaskInTime, Fresh
    <2>3. CASE Refused(c)
      <3>1. row' = row
        BY <2>3 DEF Refused, storeVars
      <3>2. flight'[c].stage = "done" /\ flight'[c].outcome = "permanent"
        BY <1>1, <2>3 DEF Refused, Finished, TypeOK, TickOK
      <3> QED BY <1>0, <1>5, <3>1, <3>2 DEF TaskInTime, Fresh
    <2>4. CASE StoreGrant(c)
      <3>1. row'[c].access_exp = flight[c].at + Lifetime
        BY <1>1, <1>4, <2>4 DEF StoreGrant, TypeOK, StoreOK
      <3>2. flight'[c].stage = "done" /\ flight'[c].outcome = "success"
        BY <1>1, <2>4 DEF StoreGrant, Finished, TypeOK, TickOK
      <3>3. flight[c].at >= started
        BY <1>5, <2>4 DEF StoreGrant, Stage
      <3> QED BY <1>0, <1>6, <3>1, <3>2, <3>3 DEF TaskInTime, Fresh
    <2> QED BY <2>1, <2>2, <2>3, <2>4 DEF Advances
  <1>8. WaitInTime(c)'
    BY <1>0, <1>1 DEF WaitInTime, Waiting
  <1> QED BY <1>0, <1>4, <1>7, <1>8 DEF TimesOf

\* A login starts its custody's first lifetime; nothing else moves a deadline.
LEMMA AsideTimes ==
  ASSUME Reliable, HandInv, Ledger, Punctual, InTime, Aside,
         NEW c \in Custodies, TimesOf(c)
  PROVE  TimesOf(c)'
  <1>0. /\ UNCHANGED <<now, up, wake, started, batch, entries>>
        /\ TickEnds' = TickEnds
        /\ Ticking' <=> Ticking
        /\ InHand(c)' <=> InHand(c)
    BY AsideFacts
  <1>1. TypeOK
    BY DEF HandInv
  <1>2. ASSUME row'[c] # NULL => row[c] # NULL /\ row'[c].access_exp = row[c].access_exp,
               flight'[c] = flight[c], schedule \subseteq schedule'
        PROVE  TimesOf(c)'
    BY <1>0, <1>2, TimesFrame
  <1>3. CASE Login(c)
    <2>1. entries[c] = NULL /\ ~ InHand(c)
      BY <1>3 DEF Login, Ledger, LedgerOf, HandInv, OneRefreshAtATime
    <2>2. \E r \in schedule' : r.custody = c
      <3>1. [custody |-> c, issued_at |-> now] \in schedule'
        BY <1>3 DEF Login
      <3> QED BY <3>1
    <2>3. WaitInTime(c)' /\ TaskInTime(c)' /\ c \notin batch
      BY <1>0, <2>1 DEF WaitInTime, Waiting, TaskInTime, InHand
    <2> QED BY <1>0, <2>2, <2>3 DEF TimesOf
  <1>4. ASSUME NEW d \in Custodies, d # c, Login(d) PROVE TimesOf(c)'
    <2>1. row'[c] = row[c] /\ schedule \subseteq schedule' /\ flight'[c] = flight[c]
      BY <1>1, <1>4 DEF Login, TypeOK, StoreOK, tickVars
    <2> QED BY <1>2, <2>1
  <1>5. CASE Advances(c)
    BY <1>5, AdvanceTimes
  <1>6. ASSUME NEW d \in Custodies, d # c, Advances(d) PROVE TimesOf(c)'
    <2>1. row'[c] = row[c]
      BY <1>1, <1>6 DEF Advances, LoadCustody, Granted, Refused, StoreGrant, TypeOK, StoreOK,
                        storeVars
    <2>2. schedule' = schedule
      BY <1>6 DEF Advances, LoadCustody, Granted, Refused, StoreGrant, schedVars
    <2>3. flight'[c] = flight[c]
      BY <1>1, <1>6, AdvancesTask DEF TypeOK, TickOK
    <2> QED BY <1>2, <2>1, <2>2, <2>3
  <1>7. ASSUME NEW d \in Custodies, Logout(d) \/ Revoke(d) PROVE TimesOf(c)'
    BY <1>2, <1>7 DEF Logout, Revoke, schedVars, tickVars, storeVars
  <1>8. CASE Commit
    <2>1. UNCHANGED <<schedule, flight>>
      BY <1>8 DEF Commit, schedVars, tickVars
    <2>2. row'[c] # NULL => row[c] # NULL /\ row'[c].access_exp = row[c].access_exp
      <3> DEFINE q == Head(queue)
      <3>1. \/ UNCHANGED row
            \/ row' = IF row[q.custody] = NULL THEN row
                      ELSE [row EXCEPT ![q.custody] =
                               [tok |-> row[q.custody].tok,
                                access_exp |-> row[q.custody].access_exp,
                                next_refresh |-> q.next_refresh, status |-> q.status,
                                fail_count |-> q.fail_count]]
        BY <1>8 DEF Commit
      <3> HIDE DEF q
      <3> QED BY <1>1, <3>1 DEF TypeOK, StoreOK
    <2> QED BY <1>2, <2>1, <2>2
  <1>9. CASE Reap
    <2>1. row'[c] # NULL => row'[c] = row[c]
      BY <1>9 DEF Reap
    <2>2. UNCHANGED <<schedule, flight>>
      BY <1>9 DEF Reap, schedVars, tickVars
    <2> QED BY <1>2, <2>1, <2>2
  <1>10. CASE UNCHANGED vars
    BY <1>2, <1>10 DEF vars, schedVars, tickVars, storeVars
  <1> QED BY <1>3, <1>4, <1>5, <1>6, <1>7, <1>8, <1>9, <1>10 DEF Aside

LEMMA TimesStep ==
  ASSUME Reliable, InTime, Undisturbed
  PROVE  HandInv /\ Ledger /\ StaysScheduled /\ Punctual /\ Times /\ [Next]_vars => Times'
  <1> SUFFICES ASSUME HandInv, Ledger, StaysScheduled, Punctual, Times, [Next]_vars,
                      NEW c \in Custodies
               PROVE  TimesOf(c)'
    BY DEF Times
  <1>1. TypeOK /\ ReliableNext /\ TimesOf(c)
    BY ReliableStep DEF HandInv, Punctual, Times
  <1>2. CASE Tick
    BY <1>1, <1>2, ClockTimes
  <1>3. CASE (\E d \in Custodies : Receive(d)) \/ ReceiveOther
    BY <1>1, <1>3, ArrivalTimes
  <1>4. CASE TakeDue
    BY <1>1, <1>4, TakeDueTimes
  <1>5. CASE Dispatch
    BY <1>1, <1>5, DispatchTimes
  <1>6. ASSUME NEW d \in Custodies, Record(d) PROVE TimesOf(c)'
    BY <1>1, <1>6, RecordTimes, RecordTimesOther
  <1>7. CASE Aside
    BY <1>1, <1>7, AsideTimes
  <1> QED BY <1>1, <1>2, <1>3, <1>4, <1>5, <1>6, <1>7 DEF ReliableNext

----------------------------------------------------------------------------
(***************************************************************************)
(* What ends a grant.                                                      *)
(***************************************************************************)
\* While the provider honours a grant whose row exists, no refresh ends it.
HonestOf(c) ==
    row[c] # NULL /\ grant[c].revoked_at = NULL =>
        /\ entries[c] # NULL => entries[c].status # "dead"
        /\ flight[c] # NULL =>
              /\ ~ (flight[c].stage = "done" /\ flight[c].outcome = "permanent")
              /\ flight[c].stage = "calling" => flight[c].tok = grant[c].tok

\* No token is fetched after the revocation.
RevokedOf(c) ==
    row[c] # NULL /\ grant[c].revoked_at # NULL =>
        /\ row[c].access_exp <= grant[c].revoked_at + Lifetime
        /\ Storing(c) => flight[c].at <= grant[c].revoked_at

\* The session row of custody c is stored, or on its way.
Announced(c) ==
    \/ sessrow[c] = "alive"
    \/ \E m \in Sent(queue) : m.cmd = "insert_session" /\ m.custody = c

\* A session that is served has its custody's row, is not about to end, and
\* under kill its grant is not known to be dead.
LivesOf(c) ==
    Alive(c) =>
        /\ row[c] # NULL
        /\ Announced(c)
        /\ \A m \in Sent(queue) : ~ (m.cmd = "tombstone_session" /\ m.custody = c)
        /\ KillOnRevoke /\ entries[c] # NULL => entries[c].status # "dead"

EndsOf(c) == HonestOf(c) /\ RevokedOf(c) /\ LivesOf(c)

Ends == \A c \in Custodies : EndsOf(c)

NothingLost == lost = {}

LEMMA NothingLostStep ==
  ASSUME Reliable
  PROVE  TypeOK /\ up /\ NothingLost /\ [Next]_vars => NothingLost'
  <1> SUFFICES ASSUME TypeOK, up, NothingLost, [Next]_vars PROVE NothingLost'
    OBVIOUS
  <1>1. ReliableNext
    BY ReliableStep
  <1>2. ASSUME NEW c \in Custodies,
               \/ Receive(c) \/ Record(c) \/ Login(c) \/ Advances(c) \/ Logout(c) \/ Revoke(c)
        PROVE  UNCHANGED lost
    BY <1>2 DEF Receive, Record, Login, Advances, LoadCustody, Granted, Refused, StoreGrant,
                Logout, Revoke, idpVars
  <1>3. CASE Tick \/ ReceiveOther \/ TakeDue \/ Dispatch \/ Commit \/ Reap \/ UNCHANGED vars
    BY <1>3 DEF Tick, ReceiveOther, TakeDue, Dispatch, Commit, Reap, vars, idpVars,
                NothingLost
  <1> QED BY <1>1, <1>2, <1>3 DEF ReliableNext, Aside, NothingLost

LEMMA SentHead ==
  ASSUME NEW q \in Seq(Command), q # <<>>
  PROVE  Sent(q) \subseteq {Head(q)} \cup Sent(Tail(q))
  <1>1. Len(q) \in Nat /\ Len(q) >= 1 /\ Len(Tail(q)) = Len(q) - 1 /\ Head(q) = q[1]
    OBVIOUS
  <1>2. ASSUME NEW i \in 1..Len(q), i # 1
        PROVE  i - 1 \in 1..Len(Tail(q)) /\ Tail(q)[i - 1] = q[i]
    BY <1>1, <1>2
  <1> QED BY <1>1, <1>2 DEF Sent

LEMMA SentBoth ==
  ASSUME NEW q \in Seq(Command), NEW p \in Seq(Command)
  PROVE  Sent(q) \subseteq Sent(q \o p) /\ Sent(p) \subseteq Sent(q \o p)
  <1>1. \A i \in 1..Len(q) : i \in 1..Len(q \o p) /\ (q \o p)[i] = q[i]
    OBVIOUS
  <1>2. \A i \in 1..Len(p) : i + Len(q) \in 1..Len(q \o p) /\ (q \o p)[i + Len(q)] = p[i]
    OBVIOUS
  <1> QED BY <1>1, <1>2 DEF Sent

\* What a result adds to the queue: the failure of its custody, and the end of
\* its session if it kills it.
LEMMA RecordSent ==
  ASSUME HandInv, NEW d \in Custodies, Record(d)
  PROVE  /\ Sent(queue) \subseteq Sent(queue')
         /\ \A m \in Sent(queue') :
              \/ m \in Sent(queue)
              \/ m.custody = d /\ m.cmd = "custody_failure"
              \/ m.custody = d /\ Kills(d)
  <1>1. PICK e \in Recorded(entries[d], flight[d].outcome) :
            queue' = queue
               \o (IF flight[d].outcome = "success" THEN <<>> ELSE <<Failure(d, e)>>)
               \o (IF Kills(d)
                   THEN <<[cmd |-> "tombstone_session", custody |-> d]>> ELSE <<>>)
    BY DEF Record
  <1> DEFINE t == [cmd |-> "tombstone_session", custody |-> d]
             p == IF flight[d].outcome = "success" THEN <<>> ELSE <<Failure(d, e)>>
             r == IF Kills(d) THEN <<t>> ELSE <<>>
  <1>2. /\ entries[d] \in CustodyState /\ now \in Nat /\ queue \in Seq(Command)
        /\ flight[d].outcome \in {"success", "transient", "permanent"}
    BY DEF Record, Stage, HandInv, OneRefreshAtATime, InHand, TypeOK, ClockOK,
           SchedOK, StoreOK, TickOK, Option, Refresh
  <1>3. e \in CustodyState
    BY <1>1, <1>2, RecordedEntry
  <1>4. /\ Failure(d, e) \in Command
        /\ Failure(d, e).custody = d /\ Failure(d, e).cmd = "custody_failure"
    BY <1>3 DEF Failure, Command, CustodyState
  <1>5. p \in Seq(Command) /\ Sent(p) \subseteq {Failure(d, e)}
    BY <1>4, SentOne
  <1>6. t \in Command /\ t.custody = d
    BY DEF Command
  <1> HIDE DEF t
  <1>7. r \in Seq(Command) /\ Sent(r) \subseteq {t} /\ (~ Kills(d) => Sent(r) = {})
    BY <1>6, SentOne
  <1>8. queue' = (queue \o p) \o r
    BY <1>1 DEF p, r, t
  <1> HIDE DEF p, r
  <1>9. queue \o p \in Seq(Command)
    BY <1>2, <1>5
  <1>10. /\ Sent(queue') \subseteq Sent(queue) \cup Sent(p) \cup Sent(r)
         /\ Sent(queue) \subseteq Sent(queue')
    BY <1>2, <1>5, <1>7, <1>8, <1>9, SentAppend, SentBoth
  <1> QED BY <1>4, <1>5, <1>6, <1>7, <1>10

LEMMA HonestFrame ==
  ASSUME NEW c \in Custodies, HonestOf(c),
         row'[c] # NULL => row[c] # NULL,
         grant'[c] = grant[c],
         flight'[c] = flight[c],
         entries'[c] = NULL \/ entries'[c].status # "dead" \/ entries'[c] = entries[c]
  PROVE  HonestOf(c)'
  BY DEF HonestOf

LEMMA RevokedFrame ==
  ASSUME NEW c \in Custodies, RevokedOf(c),
         row'[c] # NULL => row[c] # NULL /\ row'[c].access_exp = row[c].access_exp,
         grant'[c] = grant[c],
         flight'[c] = flight[c]
  PROVE  RevokedOf(c)'
  BY DEF RevokedOf, Storing

LEMMA LivesFrame ==
  ASSUME NEW c \in Custodies, LivesOf(c),
         Alive(c)' => Alive(c),
         Alive(c) /\ row[c] # NULL => row'[c] # NULL,
         sessrow'[c] = sessrow[c],
         \A m \in Sent(queue) : m.custody = c => m \in Sent(queue'),
         \A m \in Sent(queue') : m.custody = c =>
             m \in Sent(queue) \/ m.cmd # "tombstone_session",
         entries'[c] = NULL \/ entries'[c].status # "dead" \/ entries'[c] = entries[c]
  PROVE  LivesOf(c)'
  <1>1. Announced(c) => Announced(c)'
    BY DEF Announced
  <1> QED BY <1>1 DEF LivesOf

\* Steps that leave the provider, the rows, the sessions and the tasks alone.
LEMMA SchedEnds ==
  ASSUME HandInv, NEW c \in Custodies, EndsOf(c),
         Tick \/ (\E d \in Custodies : Receive(d)) \/ ReceiveOther \/ TakeDue
  PROVE  EndsOf(c)'
  <1>1. UNCHANGED <<row, grant, flight, session, sessrow, queue>>
    BY DEF Tick, Receive, ReceiveOther, TakeDue, storeVars, idpVars, tickVars
  <1>2. TypeOK
    BY DEF HandInv
  <1>3. entries'[c] = NULL \/ entries'[c].status # "dead" \/ entries'[c] = entries[c]
    <2>1. CASE Tick \/ ReceiveOther
      BY <2>1 DEF Tick, ReceiveOther, schedVars
    <2>2. ASSUME NEW d \in Custodies, Receive(d)
          PROVE  entries'[c].status # "dead" \/ entries'[c] = entries[c]
      BY <1>2, <2>2 DEF Receive, TypeOK, SchedOK
    <2>3. CASE TakeDue
      <3>1. CASE c \notin Ready
        BY <2>3, <3>1 DEF TakeDue
      <3>2. CASE c \in Ready
        <4>1. entries[c] \in CustodyState /\ entries[c].status # "dead"
          BY <1>2, <3>2, TimeTypes DEF Ready
        <4>2. entries'[c] = [entries[c] EXCEPT !.refreshing = TRUE]
          BY <2>3, <3>2 DEF TakeDue
        <4>3. entries'[c].status = entries[c].status
          BY <4>1, <4>2 DEF CustodyState
        <4> QED BY <4>1, <4>3
      <3> QED BY <3>1, <3>2
    <2> QED BY <2>1, <2>2, <2>3
  <1>4. Alive(c)' => Alive(c)
    BY <1>1 DEF Alive
  <1> QED BY <1>1, <1>3, <1>4, HonestFrame, RevokedFrame, LivesFrame DEF EndsOf

LEMMA DispatchEnds ==
  ASSUME TypeOK, Punctual, NEW c \in Custodies, EndsOf(c), Dispatch
  PROVE  EndsOf(c)'
  <1>1. UNCHANGED <<row, grant, entries, session, sessrow, queue>>
    BY DEF Dispatch, storeVars, idpVars, schedVars
  <1>2. flight'[c] # NULL => flight'[c].stage = "reading"
    BY DispatchFacts DEF NotStarted
  <1>3. HonestOf(c)' /\ RevokedOf(c)'
    BY <1>1, <1>2 DEF EndsOf, HonestOf, RevokedOf, Storing
  <1>4. Alive(c)' => Alive(c)
    BY <1>1 DEF Alive
  <1> QED BY <1>1, <1>3, <1>4, LivesFrame DEF EndsOf

LEMMA RecordEnds ==
  ASSUME HandInv, Punctual, NEW d \in Custodies, Record(d),
         NEW c \in Custodies, EndsOf(c)
  PROVE  EndsOf(c)'
  <1>1. /\ UNCHANGED <<row, grant, sessrow>>
        /\ flight' = [flight EXCEPT ![d] = NULL]
    BY DEF Record, Joined, idpVars
  <1>2. PICK e \in Recorded(entries[d], flight[d].outcome) :
          /\ entries' = [entries EXCEPT ![d] = e]
          /\ session' = IF session[d] = NULL THEN session
                        ELSE [session EXCEPT
                                ![d] = [status |-> IF Kills(d) THEN "tombstoned"
                                                   ELSE session[d].status,
                                        health |-> e.status]]
    BY DEF Record
  <1>3. TypeOK
    BY DEF HandInv
  <1>4. /\ Sent(queue) \subseteq Sent(queue')
        /\ \A m \in Sent(queue') :
              \/ m \in Sent(queue)
              \/ m.custody = d /\ m.cmd = "custody_failure"
              \/ m.custody = d /\ Kills(d)
    BY RecordSent
  <1>5. CASE c # d
    <2>1. entries'[c] = entries[c] /\ flight'[c] = flight[c] /\ session'[c] = session[c]
      BY <1>1, <1>2, <1>3, <1>5 DEF TypeOK, SchedOK, TickOK, SessionOK
    <2>2. Alive(c)' => Alive(c)
      BY <2>1 DEF Alive
    <2> QED BY <1>1, <1>4, <1>5, <2>1, <2>2, HonestFrame, RevokedFrame, LivesFrame DEF EndsOf
  <1>6. CASE c = d
    <2>1. /\ entries[c] \in CustodyState /\ now \in Nat
          /\ flight[c] # NULL /\ flight[c].stage = "done"
          /\ flight[c].outcome \in {"success", "transient", "permanent"}
      BY <1>3, <1>6 DEF Record, Stage, HandInv, OneRefreshAtATime, InHand, TypeOK, ClockOK,
                        SchedOK, TickOK, Option, Refresh
    <2>2. e.status = "dead" => flight[c].outcome = "permanent"
      BY <1>2, <1>6, <2>1, RecordedEntry
    <2>3. entries'[c] = e /\ flight'[c] = NULL
      BY <1>1, <1>2, <1>3, <1>6 DEF TypeOK, SchedOK, TickOK
    <2>4. HonestOf(c)'
      BY <1>1, <2>1, <2>2, <2>3 DEF EndsOf, HonestOf
    <2>5. RevokedOf(c)'
      BY <1>1, <2>3 DEF EndsOf, RevokedOf, Storing
    <2>6. Alive(c)' => Alive(c) /\ ~ Kills(c)
      <3>1. SUFFICES ASSUME Alive(c)' PROVE Alive(c) /\ ~ Kills(c)
        OBVIOUS
      <3>2. session'[c] # NULL /\ session'[c].status = "alive"
        BY <3>1 DEF Alive
      <3>3. session[c] # NULL
        BY <1>2, <1>6, <3>2
      <3>4. session'[c].status = IF Kills(c) THEN "tombstoned" ELSE session[c].status
        BY <1>2, <1>3, <1>6, <3>3 DEF TypeOK, SessionOK
      <3> QED BY <3>2, <3>3, <3>4 DEF Alive
    <2>7. LivesOf(c)'
      <3>1. SUFFICES ASSUME Alive(c)' PROVE LivesOf(c)'
        BY DEF LivesOf
      <3>2. Alive(c) /\ ~ Kills(c)
        BY <2>6, <3>1
      <3>3. KillOnRevoke => e.status # "dead"
        BY <2>2, <3>2 DEF Kills
      <3>4. Announced(c)'
        BY <1>1, <1>4, <3>2 DEF EndsOf, LivesOf, Announced
      <3> QED BY <1>1, <1>4, <1>6, <2>3, <3>2, <3>3, <3>4 DEF EndsOf, LivesOf
    <2> QED BY <2>4, <2>5, <2>7 DEF EndsOf
  <1> QED BY <1>5, <1>6

LEMMA LoginEnds ==
  ASSUME HandInv, Ledger, NEW d \in Custodies, Login(d),
         NEW c \in Custodies, EndsOf(c)
  PROVE  EndsOf(c)'
  <1>0. TypeOK /\ now \in Nat /\ Lifetime \in Nat
    BY ConstantsNat DEF HandInv, TypeOK, ClockOK
  <1>1. UNCHANGED <<entries, flight, sessrow>>
    BY DEF Login, tickVars
  <1> DEFINE m == [cmd |-> "insert_session", custody |-> d]
  <1>2. queue = <<>> /\ queue' = <<m>> /\ m.custody = d /\ m.cmd = "insert_session"
    BY DEF Login
  <1> HIDE DEF m
  <1>3. Sent(queue) = {} /\ Sent(queue') = {m}
    BY <1>2, SentOne
  <1>4. CASE c # d
    <2>1. row'[c] = row[c] /\ grant'[c] = grant[c] /\ session'[c] = session[c]
      BY <1>0, <1>4 DEF Login, TypeOK, StoreOK, IdpOK, SessionOK
    <2>2. Alive(c)' => Alive(c)
      BY <2>1 DEF Alive
    <2> QED BY <1>1, <1>2, <1>3, <1>4, <2>1, <2>2, HonestFrame, RevokedFrame, LivesFrame
        DEF EndsOf
  <1>5. CASE c = d
    <2>1. entries[c] = NULL /\ flight[c] = NULL
      BY <1>5 DEF Login, Ledger, LedgerOf, HandInv, OneRefreshAtATime, InHand
    <2>2. grant'[c].revoked_at = NULL
      BY <1>0, <1>5 DEF Login, TypeOK, IdpOK
    <2>3. row'[c] # NULL
      <3> DEFINE w == [tok |-> 1, access_exp |-> now + Lifetime,
                       next_refresh |-> now + (Lifetime * Lead) \div 100,
                       status |-> "ok", fail_count |-> 0]
      <3>1. (Lifetime * Lead) \div 100 \in Nat
        BY ConstantsNat
      <3>2. w \in CustodyRow
        BY <1>0, <3>1 DEF CustodyRow, CustodyStatus
      <3>3. row'[c] = w
        BY <1>0, <1>5 DEF Login, TypeOK, StoreOK
      <3> QED BY <3>2, <3>3, NullAssumption
    <2>4. HonestOf(c)' /\ RevokedOf(c)'
      BY <1>1, <2>1, <2>2 DEF HonestOf, RevokedOf
    <2>5. LivesOf(c)'
      BY <1>1, <1>2, <1>3, <1>5, <2>1, <2>3 DEF LivesOf, Announced
    <2> QED BY <2>4, <2>5 DEF EndsOf
  <1> QED BY <1>4, <1>5

\* A revocation comes while the row's token has at most a lifetime left, and so
\* has the token of a task that is storing one.
LEMMA RevokeEnds ==
  ASSUME HandInv, Ledger, NEW d \in Custodies, Revoke(d),
         NEW c \in Custodies, EndsOf(c)
  PROVE  EndsOf(c)'
  <1>0. TypeOK /\ now \in Nat
    BY DEF HandInv, TypeOK, ClockOK
  <1>1. UNCHANGED <<entries, flight, sessrow, row, session, queue>>
    BY DEF Revoke, schedVars, tickVars, storeVars
  <1>2. LivesOf(c)'
    <2>1. Alive(c)' => Alive(c)
      BY <1>1 DEF Alive
    <2> QED BY <1>1, <2>1, LivesFrame DEF EndsOf
  <1>3. CASE c # d
    <2>1. grant'[c] = grant[c]
      BY <1>0, <1>3 DEF Revoke, TypeOK, IdpOK
    <2> QED BY <1>1, <1>2, <2>1, HonestFrame, RevokedFrame DEF EndsOf
  <1>4. CASE c = d
    <2>1. grant'[c].revoked_at = now /\ now # NULL
      <3>1. grant[c] \in Grant
        BY <1>0, <1>4 DEF Revoke, TypeOK, IdpOK, Option
      <3>2. grant'[c] = [grant[c] EXCEPT !.revoked_at = now]
        BY <1>0, <1>4 DEF Revoke, TypeOK, IdpOK
      <3> QED BY <1>0, <3>1, <3>2, KeepaliveAssumption DEF Grant
    <2>2. row[c] # NULL => row[c].access_exp <= now + Lifetime
      BY DEF Ledger, LedgerOf, ExpiryOf
    <2>3. flight[c] # NULL => flight[c].at <= now
      BY DEF Ledger, LedgerOf, ExpiryOf
    <2>4. HonestOf(c)' /\ RevokedOf(c)'
      BY <1>1, <2>1, <2>2, <2>3 DEF HonestOf, RevokedOf, Storing
    <2> QED BY <1>2, <2>4 DEF EndsOf
  <1> QED BY <1>3, <1>4

LEMMA AdvanceEnds ==
  ASSUME Reliable, HandInv, GrantKept, NothingLost, NEW d \in Custodies, Advances(d),
         NEW c \in Custodies, EndsOf(c)
  PROVE  EndsOf(c)'
  <1>0. TypeOK
    BY DEF HandInv
  <1>1. UNCHANGED <<entries, session, sessrow, queue>>
    BY DEF Advances, LoadCustody, Granted, Refused, StoreGrant, schedVars, storeVars
  <1>2. flight[d] # NULL /\ \E f \in Refresh : flight' = [flight EXCEPT ![d] = f]
    BY AdvancesTask
  <1>3. row'[c] = row[c] \/ (StoreGrant(d) /\ c = d)
    <2>1. CASE LoadCustody(d) \/ Granted(d) \/ Refused(d)
      BY <2>1 DEF LoadCustody, Granted, Refused, storeVars
    <2>2. CASE StoreGrant(d) /\ c # d
      BY <1>0, <2>2 DEF StoreGrant, TypeOK, StoreOK
    <2> QED BY <2>1, <2>2 DEF Advances
  <1>4. /\ row'[c] # NULL => row[c] # NULL
        /\ row[c] # NULL => row'[c] # NULL
    <2>1. CASE row'[c] = row[c]
      BY <2>1
    <2>2. CASE StoreGrant(d) /\ c = d
      <3>1. row[c] # NULL => row'[c] \in CustodyRow
        <4>1. flight[c].at + Lifetime \in Nat /\ flight[c].tok \in Nat
          BY <1>0, <1>2, <2>2, ConstantsNat DEF TypeOK, TickOK, Option, Refresh
        <4>2. row[c] # NULL =>
                row'[c] = [tok |-> flight[c].tok, access_exp |-> flight[c].at + Lifetime,
                           next_refresh |-> flight[c].at + Lifetime,
                           status |-> "ok", fail_count |-> 0]
          BY <1>0, <2>2 DEF StoreGrant, TypeOK, StoreOK
        <4> QED BY <4>1, <4>2 DEF CustodyRow, CustodyStatus
      <3>2. row[c] = NULL => row'[c] = NULL
        BY <2>2 DEF StoreGrant
      <3> QED BY <3>1, <3>2, NullAssumption
    <2> QED BY <1>3, <2>1, <2>2
  <1>5. LivesOf(c)'
    <2>1. Alive(c)' => Alive(c)
      BY <1>1 DEF Alive
    <2> QED BY <1>1, <1>4, <2>1, LivesFrame DEF EndsOf
  <1>6. CASE c # d
    <2>1. flight'[c] = flight[c] /\ row'[c] = row[c]
      BY <1>0, <1>2, <1>3, <1>6 DEF TypeOK, TickOK
    <2>2. grant'[c] = grant[c]
      BY <1>0, <1>6 DEF Advances, LoadCustody, Granted, Refused, StoreGrant, idpVars, TypeOK,
                        IdpOK
    <2> QED BY <1>1, <1>5, <2>1, <2>2, HonestFrame, RevokedFrame DEF EndsOf
  <1>7. CASE c = d
    <2>1. CASE LoadCustody(c)
      <3>1. UNCHANGED <<row, grant>>
        BY <2>1 DEF LoadCustody, storeVars, idpVars
      <3>2. flight[c].stage = "reading"
        BY <2>1 DEF LoadCustody, Stage
      <3>3. row[c] # NULL => flight'[c].stage = "calling" /\ flight'[c].tok = row[c].tok
        BY <1>0, <2>1 DEF Reliable, LoadCustody, TypeOK, TickOK
      <3>4. row[c] # NULL => row[c].tok = grant[c].tok
        BY <3>2 DEF GrantKept, NothingLost
      <3>5. HonestOf(c)'
        BY <1>1, <3>1, <3>3, <3>4 DEF EndsOf, HonestOf
      <3>6. RevokedOf(c)'
        BY <3>1, <3>3 DEF EndsOf, RevokedOf, Storing
      <3> QED BY <1>5, <3>5, <3>6 DEF EndsOf
    <2>2. CASE Granted(c)
      <3>1. row' = row /\ grant[c].revoked_at = NULL
        BY <2>2 DEF Granted, Honoured, storeVars
      <3>2. grant'[c].revoked_at = NULL
        <4>1. grant[c] \in Grant
          BY <1>0, <1>2, <2>2 DEF Granted, Stage, HandInv, Issued, TypeOK, IdpOK, Option
        <4>2. PICK tok \in {grant[c].tok, grant[c].tok + 1} :
                grant' = [grant EXCEPT ![c].tok = tok]
          BY <2>2 DEF Granted
        <4>3. grant'[c] = [grant[c] EXCEPT !.tok = tok]
          BY <1>0, <4>2 DEF TypeOK, IdpOK
        <4> QED BY <3>1, <4>1, <4>3 DEF Grant
      <3>3. flight'[c].stage = "storing"
        BY <1>0, <2>2 DEF Granted, TypeOK, TickOK
      <3>4. HonestOf(c)' /\ RevokedOf(c)'
        BY <1>1, <3>1, <3>2, <3>3 DEF EndsOf, HonestOf, RevokedOf
      <3> QED BY <1>5, <3>4 DEF EndsOf
    <2>3. CASE Refused(c)
      <3>1. UNCHANGED <<row, grant>>
        BY <2>3 DEF Refused, storeVars, idpVars
      <3>2. flight[c].stage = "calling" /\ ~ Honoured(c)
        BY <2>3 DEF Refused, Stage
      <3>3. flight'[c].stage = "done"
        BY <1>0, <2>3 DEF Refused, Finished, TypeOK, TickOK
      <3>4. row[c] # NULL => grant[c].revoked_at # NULL
        BY <1>2, <1>7, <3>2 DEF EndsOf, HonestOf, Honoured
      <3>5. HonestOf(c)' /\ RevokedOf(c)'
        BY <3>1, <3>3, <3>4 DEF EndsOf, HonestOf, RevokedOf, Storing
      <3> QED BY <1>5, <3>5 DEF EndsOf
    <2>4. CASE StoreGrant(c)
      <3>1. grant' = grant
        BY <2>4 DEF StoreGrant, idpVars
      <3>2. flight'[c].stage = "done" /\ flight'[c].outcome = "success"
        BY <1>0, <2>4 DEF StoreGrant, Finished, TypeOK, TickOK
      <3>3. row[c] # NULL => row'[c].access_exp = flight[c].at + Lifetime
        BY <1>0, <2>4 DEF StoreGrant, TypeOK, StoreOK
      <3>4. Storing(c)
        BY <2>4 DEF StoreGrant, Stage, Storing
      <3>5. flight[c].at \in Nat /\ Lifetime \in Nat
            /\ (grant[c].revoked_at # NULL => grant[c].revoked_at \in Nat)
        <4>1. grant[c] \in Grant
          BY <1>2, <1>7, <3>4 DEF Storing, HandInv, Issued, TypeOK, IdpOK, Option
        <4> QED BY <1>0, <1>2, <1>7, <4>1, TimeTypes, ConstantsNat DEF Grant, Option
      <3>6. HonestOf(c)'
        BY <1>1, <1>4, <3>1, <3>2 DEF EndsOf, HonestOf
      <3>7. RevokedOf(c)'
        BY <1>4, <3>1, <3>2, <3>3, <3>4, <3>5 DEF EndsOf, RevokedOf, Storing
      <3> QED BY <1>5, <3>6, <3>7 DEF EndsOf
    <2> QED BY <1>7, <2>1, <2>2, <2>3, <2>4 DEF Advances
  <1> QED BY <1>6, <1>7

\* The writer's next command: what announces the session of custody c leaves the
\* queue by storing it.
LEMMA CommitEnds ==
  ASSUME HandInv, Commit, NEW c \in Custodies, EndsOf(c)
  PROVE  EndsOf(c)'
  <1> DEFINE q == Head(queue)
  <1>0. TypeOK /\ queue \in Seq(Command) /\ queue # <<>>
    BY DEF HandInv, TypeOK, StoreOK, Commit
  <1>1. UNCHANGED <<entries, flight, session, grant>> /\ queue' = Tail(queue)
    BY DEF Commit, schedVars, tickVars, idpVars
  <1>2. q \in Command /\ q \in Sent(queue)
    BY <1>0, SentTail
  <1>3. Sent(queue') \subseteq Sent(queue) /\ Sent(queue) \subseteq {q} \cup Sent(queue')
    BY <1>0, <1>1, SentTail, SentHead
  <1>4. \/ /\ q.cmd = "insert_session"
           /\ sessrow' = [sessrow EXCEPT ![q.custody] = "alive"]
           /\ UNCHANGED row
        \/ /\ q.cmd = "tombstone_session"
           /\ sessrow' = [sessrow EXCEPT ![q.custody] =
                              IF @ = NULL THEN NULL ELSE "tombstoned"]
           /\ UNCHANGED row
        \/ /\ q.cmd = "custody_failure"
           /\ row' = IF row[q.custody] = NULL THEN row
                     ELSE [row EXCEPT ![q.custody] =
                               [tok |-> row[q.custody].tok,
                                access_exp |-> row[q.custody].access_exp,
                                next_refresh |-> q.next_refresh, status |-> q.status,
                                fail_count |-> q.fail_count]]
           /\ UNCHANGED sessrow
    BY DEF Commit
  <1>5. /\ row'[c] # NULL => row[c] # NULL /\ row'[c].access_exp = row[c].access_exp
        /\ row[c] # NULL => row'[c] # NULL
    <2>1. CASE row' = row
      BY <2>1
    <2>2. CASE /\ q.cmd = "custody_failure" /\ row[q.custody] # NULL /\ q.custody = c
               /\ row' = [row EXCEPT ![q.custody] =
                               [tok |-> row[q.custody].tok,
                                access_exp |-> row[q.custody].access_exp,
                                next_refresh |-> q.next_refresh, status |-> q.status,
                                fail_count |-> q.fail_count]]
      <3> DEFINE w == [tok |-> row[c].tok, access_exp |-> row[c].access_exp,
                       next_refresh |-> q.next_refresh, status |-> q.status,
                       fail_count |-> q.fail_count]
      <3>1. q.status \in CustodyStatus /\ q.fail_count \in Nat /\ q.next_refresh \in Nat
        BY <1>2, <2>2 DEF Command
      <3>2. row[c] \in CustodyRow
        BY <1>0, <2>2 DEF TypeOK, StoreOK, Option
      <3> HIDE DEF q
      <3>3. w \in CustodyRow /\ w.access_exp = row[c].access_exp
        BY <3>1, <3>2 DEF CustodyRow
      <3>4. row'[c] = w
        BY <1>0, <2>2 DEF TypeOK, StoreOK
      <3> HIDE DEF w
      <3> QED BY <2>2, <3>3, <3>4, NullAssumption
    <2>3. CASE /\ q.cmd = "custody_failure" /\ row[q.custody] # NULL /\ q.custody # c
               /\ row' = [row EXCEPT ![q.custody] =
                               [tok |-> row[q.custody].tok,
                                access_exp |-> row[q.custody].access_exp,
                                next_refresh |-> q.next_refresh, status |-> q.status,
                                fail_count |-> q.fail_count]]
      <3> HIDE DEF q
      <3>1. row'[c] = row[c]
        BY <1>0, <2>3 DEF TypeOK, StoreOK
      <3> QED BY <3>1
    <2> HIDE DEF q
    <2> QED BY <1>4, <2>1, <2>2, <2>3
  <1>6. HonestOf(c)' /\ RevokedOf(c)'
    BY <1>1, <1>5, HonestFrame, RevokedFrame DEF EndsOf
  <1>7. LivesOf(c)'
    <2> HIDE DEF q
    <2>1. SUFFICES ASSUME Alive(c)' PROVE LivesOf(c)'
      BY DEF LivesOf
    <2>2. Alive(c)
      BY <1>1, <2>1 DEF Alive
    <2>3. /\ row[c] # NULL /\ Announced(c)
          /\ \A m \in Sent(queue) : ~ (m.cmd = "tombstone_session" /\ m.custody = c)
          /\ KillOnRevoke /\ entries[c] # NULL => entries[c].status # "dead"
      BY <2>2 DEF EndsOf, LivesOf
    <2>4. Announced(c)'
      <3>1. CASE q.cmd = "insert_session" /\ q.custody = c
        BY <1>0, <1>4, <3>1 DEF Announced, TypeOK, StoreOK
      <3>2. CASE ~ (q.cmd = "insert_session" /\ q.custody = c)
        <4>1. sessrow'[c] = sessrow[c]
          <5>1. ~ (q.cmd = "tombstone_session" /\ q.custody = c)
            BY <1>2, <2>3
          <5> QED BY <1>0, <1>4, <3>2, <5>1 DEF TypeOK, StoreOK
        <4> QED BY <1>3, <2>3, <3>2, <4>1 DEF Announced
      <3> QED BY <3>1, <3>2
    <2> QED BY <1>1, <1>3, <1>5, <2>3, <2>4 DEF LivesOf
  <1> QED BY <1>6, <1>7 DEF EndsOf

LEMMA AsideEnds ==
  ASSUME Reliable, HandInv, Ledger, GrantKept, NothingLost, Aside,
         NEW c \in Custodies, EndsOf(c)
  PROVE  EndsOf(c)'
  <1>0. TypeOK
    BY DEF HandInv
  <1>1. ASSUME NEW d \in Custodies, Logout(d) PROVE EndsOf(c)'
    <2>1. UNCHANGED <<entries, flight, grant, row, sessrow>>
      BY <1>1 DEF Logout, schedVars, tickVars, idpVars
    <2> DEFINE m == [cmd |-> "tombstone_session", custody |-> d]
    <2>2. m \in Command /\ m.custody = d /\ queue' = Append(queue, m)
      BY <1>1 DEF Logout, Command
    <2> HIDE DEF m
    <2>3. Sent(queue) \subseteq Sent(queue') /\ Sent(queue') \subseteq Sent(queue) \cup {m}
      <3>1. <<m>> \in Seq(Command) /\ queue \in Seq(Command) /\ queue' = queue \o <<m>>
        BY <1>0, <2>2 DEF TypeOK, StoreOK
      <3> QED BY <3>1, SentAppend, SentBoth, SentOne
    <2>4. HonestOf(c)' /\ RevokedOf(c)'
      BY <2>1, HonestFrame, RevokedFrame DEF EndsOf
    <2>5. CASE c = d
      <3>1. ~ Alive(c)'
        <4>1. session[c] \in [status : {"alive", "tombstoned"}, health : CustodyStatus]
          BY <1>0, <1>1, <2>5 DEF Logout, Alive, TypeOK, SessionOK, Option
        <4>2. session'[c] = [session[c] EXCEPT !.status = "tombstoned"]
          BY <1>0, <1>1, <2>5 DEF Logout, TypeOK, SessionOK
        <4>3. session'[c].status = "tombstoned"
          BY <4>1, <4>2
        <4> QED BY <4>3 DEF Alive
      <3> QED BY <2>4, <3>1 DEF EndsOf, LivesOf
    <2>6. CASE c # d
      <3>1. session'[c] = session[c]
        BY <1>0, <1>1, <2>6 DEF Logout, TypeOK, SessionOK
      <3>2. Alive(c)' => Alive(c)
        BY <3>1 DEF Alive
      <3>3. LivesOf(c)'
        BY <2>1, <2>2, <2>3, <2>6, <3>2, LivesFrame DEF EndsOf
      <3> QED BY <2>4, <3>3 DEF EndsOf
    <2> QED BY <2>5, <2>6
  <1>2. CASE Reap
    <2>1. UNCHANGED <<entries, flight, grant, session, queue>>
      BY <1>2 DEF Reap, schedVars, tickVars, idpVars
    <2>2. queue = <<>>
      BY <1>2 DEF Reap
    <2>3. PICK doomed \in SUBSET {d \in Custodies : sessrow[d] = "tombstoned"} :
            LET kept == {d \in Custodies \ doomed : sessrow[d] # NULL}
            IN /\ sessrow' = [d \in Custodies |-> IF d \in kept THEN sessrow[d] ELSE NULL]
               /\ row' = [d \in Custodies |-> IF d \in kept THEN row[d] ELSE NULL]
      BY <1>2 DEF Reap
    <2>4. row'[c] # NULL => row'[c] = row[c]
      BY <2>3
    <2>5. HonestOf(c)' /\ RevokedOf(c)'
      BY <2>1, <2>4, HonestFrame, RevokedFrame DEF EndsOf
    <2>6. LivesOf(c)'
      <3>1. SUFFICES ASSUME Alive(c)' PROVE LivesOf(c)'
        BY DEF LivesOf
      <3>2. Alive(c)
        BY <2>1, <3>1 DEF Alive
      <3>3. Sent(queue) = {}
        BY <2>2, SentOne
      <3>4. sessrow[c] = "alive"
        BY <3>2, <3>3 DEF EndsOf, LivesOf, Announced
      <3>5. "alive" # NULL
        BY NullAssumption
      <3> QED BY <2>1, <2>3, <3>2, <3>4, <3>5 DEF EndsOf, LivesOf, Announced
    <2> QED BY <2>5, <2>6 DEF EndsOf
  <1>3. CASE UNCHANGED vars
    <2>1. UNCHANGED <<entries, flight, grant, session, queue, row, sessrow>>
      BY <1>3 DEF vars, schedVars, tickVars, storeVars, idpVars
    <2>2. Alive(c)' => Alive(c)
      BY <2>1 DEF Alive
    <2> QED BY <2>1, <2>2, HonestFrame, RevokedFrame, LivesFrame DEF EndsOf
  <1>4. ASSUME NEW d \in Custodies, Login(d) \/ Advances(d) \/ Revoke(d) PROVE EndsOf(c)'
    BY <1>4, LoginEnds, AdvanceEnds, RevokeEnds
  <1>5. CASE Commit
    BY <1>5, CommitEnds
  <1> QED BY <1>1, <1>2, <1>3, <1>4, <1>5 DEF Aside

LEMMA EndsStep ==
  ASSUME Reliable
  PROVE  HandInv /\ Ledger /\ GrantKept /\ Punctual /\ NothingLost /\ Ends /\ [Next]_vars
           => Ends'
  <1> SUFFICES ASSUME HandInv, Ledger, GrantKept, Punctual, NothingLost, Ends, [Next]_vars,
                      NEW c \in Custodies
               PROVE  EndsOf(c)'
    BY DEF Ends
  <1>1. TypeOK /\ ReliableNext /\ EndsOf(c)
    BY ReliableStep DEF HandInv, Punctual, Ends
  <1>2. CASE Tick \/ (\E d \in Custodies : Receive(d)) \/ ReceiveOther \/ TakeDue
    BY <1>1, <1>2, SchedEnds
  <1>3. CASE Dispatch
    BY <1>1, <1>3, DispatchEnds
  <1>4. ASSUME NEW d \in Custodies, Record(d) PROVE EndsOf(c)'
    BY <1>1, <1>4, RecordEnds
  <1>5. CASE Aside
    BY <1>1, <1>5, AsideEnds
  <1> QED BY <1>1, <1>2, <1>3, <1>4, <1>5 DEF ReliableNext

----------------------------------------------------------------------------
(***************************************************************************)
(* Tokens stay warm and revocations arrive.                                *)
(***************************************************************************)
Timing == Punctual /\ Times /\ NothingLost /\ Ends

LEMMA TimingInit == Init => Timing
  <1> SUFFICES ASSUME Init PROVE Timing
    OBVIOUS
  <1>1. ~ Ticking /\ ~ Running
    BY DEF Init, Ticking, Running
  <1>2. Punctual
    BY <1>1, ConstantsNat DEF Init, Punctual
  <1>3. \A c \in Custodies : row[c] = NULL /\ ~ Alive(c)
    BY DEF Init, Alive
  <1> QED BY <1>2, <1>3
        DEF Timing, Init, Times, TimesOf, NothingLost, Ends, EndsOf, HonestOf, RevokedOf,
            LivesOf

LEMMA TimingStep ==
  ASSUME Reliable, InTime
  PROVE  HandInv /\ Ledger /\ StaysScheduled /\ GrantKept /\ Timing
           /\ [Next]_vars /\ [Undisturbed]_vars => Timing'
  <1> SUFFICES ASSUME HandInv, Ledger, StaysScheduled, GrantKept, Timing,
                      [Next]_vars, [Undisturbed]_vars
               PROVE  Timing'
    OBVIOUS
  <1>1. Punctual /\ Times /\ NothingLost /\ Ends /\ TypeOK /\ up
    BY DEF Timing, Punctual, HandInv
  <1>2. Undisturbed
    <2>1. CASE UNCHANGED vars
      BY <2>1 DEF vars, schedVars, Undisturbed
    <2> QED BY <2>1
  <1>3. Punctual'
    BY <1>1, PunctualStep
  <1>4. Times'
    BY <1>1, <1>2, TimesStep
  <1>5. NothingLost'
    BY <1>1, NothingLostStep
  <1>6. Ends'
    BY <1>1, EndsStep
  <1> QED BY <1>3, <1>4, <1>5, <1>6 DEF Timing

\* A custody that is scheduled, or about to be, is renewed before its access
\* token expires.
LEMMA Deadline ==
  ASSUME InTime, HandInv, Ledger, Timing, NEW c \in Custodies, row[c] # NULL,
         entries[c] # NULL => entries[c].status # "dead"
  PROVE  now <= row[c].access_exp
  <1>0. TypeOK /\ Punctual /\ TimesOf(c)
    BY DEF HandInv, Timing, Times
  <1>1. row[c].access_exp \in Nat
    BY <1>0, TimeTypes
  <1>2. now \in Nat /\ wake \in Nat /\ started \in Nat /\ TickEnds \in Nat /\ now <= TickEnds
    BY <1>0, TickFacts
  <1>3. /\ IdleTick \in Nat /\ IdleTick >= 1 /\ Lifetime \in Nat
        /\ Rest \in Nat /\ Whole \in Nat /\ Whole <= Lifetime
    BY TimingNat, WholeRest, Policy DEF InTime
  <1>4. CASE entries[c] = NULL
    <2>1. PICK r \in schedule : r.custody = c
      BY <1>0, <1>4 DEF TimesOf
    <2>2. row[c].access_exp = r.issued_at + Lifetime
      BY <2>1 DEF Ledger, LedgerOf, NewbornOf
    <2>3. TickEnds <= r.issued_at + Whole /\ r.issued_at \in Nat
      BY <1>0, <2>1 DEF Punctual, TypeOK, SchedOK
    <2> QED BY ONLY <1>2, <1>3, <2>2, <2>3
  <1>5. CASE flight[c] # NULL
    <2>1. started + MaxCall <= row[c].access_exp
      BY <1>0, <1>5 DEF TimesOf, TaskInTime
    <2>2. now <= started + MaxCall
      BY <1>0, <1>5 DEF Punctual, Running
    <2> QED BY <1>1, <1>2, <2>1, <2>2, TimingNat
  <1>6. CASE c \in batch
    <2>1. TickEnds <= row[c].access_exp
      BY <1>0, <1>6 DEF TimesOf
    <2> QED BY ONLY <1>1, <1>2, <2>1
  <1>7. CASE Waiting(c)
    <2>1. /\ entries[c].next_refresh + IdleTick + Rest + Whole <= row[c].access_exp + 1
          /\ Ticking => TickEnds + IdleTick + Whole <= row[c].access_exp
          /\ ~ Ticking /\ entries[c].next_refresh <= now => wake + Whole <= row[c].access_exp
      BY <1>0, <1>7 DEF TimesOf, WaitInTime
    <2>2. entries[c].next_refresh \in Nat
      BY <1>0, <1>7, TimeTypes DEF Waiting
    <2>3. ~ Ticking => now <= wake
      BY <1>0 DEF Punctual
    <2> QED BY ONLY <1>1, <1>2, <1>3, <2>1, <2>2, <2>3
  <1> QED BY <1>4, <1>5, <1>6, <1>7 DEF Waiting, InHand

LEMMA TimingKeepsWarm ==
  ASSUME InTime
  PROVE  HandInv /\ Ledger /\ Timing => KeptWarm
  <1> SUFFICES ASSUME HandInv, Ledger, Timing, NEW c \in Custodies,
                      row[c] # NULL, grant[c].revoked_at = NULL
               PROVE  now <= row[c].access_exp
    BY DEF KeptWarm
  <1>1. entries[c] # NULL => entries[c].status # "dead"
    BY DEF Timing, Ends, EndsOf, HonestOf
  <1> QED BY <1>1, Deadline

LEMMA TimingPropagates ==
  ASSUME InTime
  PROVE  HandInv /\ Ledger /\ Timing => RevocationPropagates
  <1> SUFFICES ASSUME HandInv, Ledger, Timing, NEW c \in Custodies,
                      KillOnRevoke, Alive(c), grant[c].revoked_at # NULL
               PROVE  now <= grant[c].revoked_at + Lifetime
    BY DEF RevocationPropagates
  <1>1. EndsOf(c)
    BY DEF Timing, Ends
  <1>2. /\ row[c] # NULL
        /\ entries[c] # NULL => entries[c].status # "dead"
    BY <1>1 DEF EndsOf, LivesOf
  <1>3. now <= row[c].access_exp
    BY <1>2, Deadline
  <1>4. row[c].access_exp <= grant[c].revoked_at + Lifetime
    BY <1>1, <1>2 DEF EndsOf, RevokedOf
  <1>5. now \in Nat /\ row[c].access_exp \in Nat
    BY <1>2, TimeTypes DEF HandInv, TypeOK, ClockOK
  <1>6. grant[c].revoked_at + Lifetime \in Nat
    <2>1. grant[c] # NULL
      BY <1>2 DEF HandInv, Issued
    <2>2. grant[c] \in Grant
      BY <2>1 DEF HandInv, TypeOK, IdpOK, Option
    <2>3. grant[c].revoked_at \in Nat
      BY <2>2 DEF Grant, Option
    <2> QED BY <2>3, TimingNat
  <1> QED BY ONLY <1>3, <1>4, <1>5, <1>6

\* The invariant holds for good when no arrival postpones a sleep that should
\* end.
LEMMA TimingHolds ==
  ASSUME Reliable, InTime
  PROVE  Spec /\ [][Undisturbed]_vars => []Timing
  <1>1. "panic" \notin Faults
    BY DEF Reliable
  <1>2. Spec => []StaysScheduled
    BY <1>1, NoCustodyForgotten
  <1> QED BY HandInvariant, LedgerInvariant, <1>2, GrantNeverBurnt, TimingInit, TimingStep,
             PTL DEF Spec

\* ADR-0003: however many custodies come due at once, however slow the calls
\* are within the client's timeout and whenever users log in, no access token
\* expires while its grant is good, if a token's lifetime covers one call, the
\* longest lead, one sleep and two ticks that renew everybody (InTime), the
\* provider and the store answer (Reliable), and no request that arrives while
\* a custody is due postpones the worker's sleep (Undisturbed).
THEOREM TokensKeptWarm ==
  ASSUME Reliable, InTime
  PROVE  Spec /\ [][Undisturbed]_vars => []KeptWarm
  BY HandInvariant, LedgerInvariant, TimingHolds, TimingKeepsWarm, PTL

\* ADR-0011: under the same conditions and `kill', no session is served for
\* longer than an access token's lifetime after its grant is revoked, wherever
\* the revocation falls between the steps of a refresh.
THEOREM RevocationReaches ==
  ASSUME Reliable, InTime
  PROVE  Spec /\ [][Undisturbed]_vars => []RevocationPropagates
  BY HandInvariant, LedgerInvariant, TimingHolds, TimingPropagates, PTL
=============================================================================
