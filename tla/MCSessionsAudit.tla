--------------------------- MODULE MCSessionsAudit ---------------------------
(***************************************************************************)
(* SessionMap and Audit on small instances, with their fairness.  They     *)
(* share no variable, so what one does is the same whatever the other      *)
(* does: each is explored with the other at its start.                     *)
(***************************************************************************)
EXTENDS SessionMap, Audit

VARIABLE part

MCInit ==
    /\ part \in {"sessions", "audit"} /\ Init /\ AuditInit

MCNext ==
    /\ UNCHANGED part
    /\ \/ part = "sessions" /\ Next /\ UNCHANGED auditVars
       \/ part = "audit" /\ AuditNext /\ UNCHANGED vars

\* The fairness of both: the clock, the handlers and the sweeper of SessionMap,
\* the writer and the recorders of Audit.
MCSpec ==
    /\ MCInit /\ [][MCNext]_<<part, vars, auditVars>>
    /\ WF_vars(part = "sessions" /\ Tick)
    /\ \A w \in Workers :
          WF_vars(/\ part = "sessions"
                  /\ \/ FinishCreate(w) \/ RefreshDenied(w) \/ RefreshCoalesced(w)
                     \/ RefreshRotated(w) \/ Apply(w) \/ Purge(w)
                     \/ FinishRefresh(w) \/ FinishTombstone(w))
    /\ WF_vars(part = "sessions" /\ SweepNext)
    /\ WF_auditVars(part = "audit" /\ Writer)
    /\ \A t \in Threads : WF_auditVars(part = "audit" /\ Recorder(t))
=============================================================================
