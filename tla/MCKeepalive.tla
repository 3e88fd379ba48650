---------------------------- MODULE MCKeepalive ----------------------------
(***************************************************************************)
(* Keepalive for TLC.                                                      *)
(***************************************************************************)
EXTENDS Keepalive, TLC

Symmetry == Permutations(Custodies)

=============================================================================
