--------------------------- MODULE MCSessionStore ---------------------------
(***************************************************************************)
(* SessionStore on small instances.                                        *)
(***************************************************************************)
EXTENDS SessionStore, TLC

Symmetry == Permutations(Sids) \cup Permutations(Workers)

=============================================================================
