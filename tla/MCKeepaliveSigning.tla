-------------------------- MODULE MCKeepaliveSigning --------------------------
(***************************************************************************)
(* Keepalive, SigningKeys and KeyRing on small instances.  They share no   *)
(* variable, so what one does is the same whatever the others do: each is  *)
(* explored with the others at their start.  The clock of the signing keys *)
(* stays at its start until there is a key: seconds that pass over an      *)
(* empty table change nothing anyone computes with.                        *)
(***************************************************************************)
EXTENDS Keepalive, SigningKeys, KeyRing

VARIABLE part

MCInit ==
    /\ part \in {"keepalive", "signing", "ring"} /\ Init /\ SigningInit /\ RingInit

\* Bound: a keyfile that lacks keys is an older one, so it is the newest seeds that do
\* not open.
Signing ==
    /\ clock' # clock => Kids # {}
    /\ \A j, k \in Kids : j < k /\ rows'[k].opens => rows'[j].opens

MCNext ==
    /\ UNCHANGED part
    /\ \/ part = "keepalive" /\ Next /\ UNCHANGED <<signingVars, ringVars>>
       \/ part = "signing" /\ SigningNext /\ Signing /\ UNCHANGED <<vars, ringVars>>
       \/ part = "ring" /\ RingNext /\ UNCHANGED <<vars, signingVars>>

MCSpec == MCInit /\ [][MCNext]_<<part, vars, signingVars, ringVars>>
=============================================================================
