----------------------------- MODULE MCStoreAudit -----------------------------
(***************************************************************************)
(* SessionStore and Audit on small instances.  They share no variable, so  *)
(* what one does is the same whatever the other does: each is explored     *)
(* with the other at its start.                                            *)
(*                                                                         *)
(* The store is explored twice: two workers that race while the process    *)
(* may stop, where no disk is full and nothing is reaped; and one call at  *)
(* a time beside the reaper, with a stop and a full disk.  The clock stays *)
(* at its start until the first login has stored something: seconds that   *)
(* pass over an empty broker change nothing it computes with.              *)
(***************************************************************************)
EXTENDS SessionStore, Audit

VARIABLE part

MCInit ==
    /\ part \in {"race", "reap", "audit"} /\ StoreInit /\ AuditInit

\* A batch of the race fails only if it cannot be applied, and the last second
\* is left to the reaper.
Race ==
    /\ StoreNext
    /\ now' # now => db # EmptyDb
    /\ failed' # failed => \E n \in 1..Len(queue) : Batch(db, SubSeq(queue, 1, n)) = NULL
    /\ sweep' = NULL
    /\ now' < MaxTime

Busy(w) == call[w] # NULL \/ login[w] # NULL \/ pending[w] # NULL

\* Bounds: one worker at a time, a generation and a place in the queue fewer, one stop.
Reap ==
    /\ StoreNext
    /\ now' # now => db # EmptyDb
    /\ \A v, w \in Workers : Busy(v)' /\ Busy(w)' => v = w
    /\ minted' + Cardinality({w \in Workers : call'[w] # NULL}) < MaxTokens
    /\ Len(queue) >= MaxQueue - 1 => Len(queue') <= Len(queue)
    /\ restarts' <= 1

MCNext ==
    /\ UNCHANGED part
    /\ \/ part = "race" /\ Race /\ UNCHANGED auditVars
       \/ part = "reap" /\ Reap /\ UNCHANGED auditVars
       \/ part = "audit" /\ AuditNext /\ UNCHANGED allVars

MCSpec == MCInit /\ [][MCNext]_<<part, allVars, auditVars>>

Symmetry == Permutations(Sids) \cup Permutations(Workers)

\* NoBatchFails where no disk is full and nothing is reaped: two workers alone
\* never enqueue what a batch cannot apply.
RaceFailsNoBatch == part = "race" => NoBatchFails
=============================================================================
