------------------------- MODULE MCKeepaliveIdentity -------------------------
(***************************************************************************)
(* Keepalive and Identity on small instances.  They share no variable, so  *)
(* what one does is the same whatever the other does: each is explored     *)
(* with the other at its start.                                            *)
(***************************************************************************)
EXTENDS Keepalive, Identity, TLC

VARIABLE part

MCInit ==
    /\ part \in {"keepalive", "identity"} /\ Init /\ IdentityInit

MCNext ==
    /\ UNCHANGED part
    /\ \/ part = "keepalive" /\ Next /\ UNCHANGED identityVars
       \/ part = "identity" /\ IdentityNext /\ UNCHANGED vars

MCSpec == MCInit /\ [][MCNext]_<<part, vars, identityVars>>

Symmetry == Permutations(Custodies)

\* The principal an administrator asks for.
MCRequests ==
    {[tenant |-> "acme", name |-> "ingest", audience |-> "search", max_ttl |-> 3]}
=============================================================================
