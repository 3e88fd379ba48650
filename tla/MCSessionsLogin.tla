---------------------------- MODULE MCSessionsLogin ----------------------------
(***************************************************************************)
(* SessionMap and Login (with Providers and Handoff) on small instances.   *)
(* They share no variable, so what one does is the same whatever the other *)
(* does: each is explored with the other at its start.                     *)
(*                                                                         *)
(* The logins are explored beside one administrator, and several           *)
(* administrators at once beside everything but the browsers.  The clock   *)
(* of the map stays at its start until the first login: seconds that pass  *)
(* over an empty map change nothing it computes with.                      *)
(***************************************************************************)
EXTENDS SessionMap, Login, TLC

VARIABLE part

OneKeyEach == [i \in Issuers |-> 1]

\* A stored provider at the start only where the logins meet it.
MCInit ==
    /\ part \in {"sessions", "login", "admins"} /\ Init /\ LoginInit
    /\ part # "login" => keys = OneKeyEach
    /\ part = "sessions" \/ keys # OneKeyEach => rows = [i \in Ids |-> NULL]

\* One administrator, always the same.
Alone == \A a \in Admins : admin'[a] # NoRequest => a = (CHOOSE b \in Admins : TRUE)

MCNext ==
    /\ UNCHANGED part
    /\ \/ part = "sessions" /\ Next /\ (now' # now => used # {}) /\ UNCHANGED loginVars
       \/ part = "login" /\ LoginNext /\ Alone /\ UNCHANGED vars
       \/ /\ part = "admins" /\ LoginNext /\ history'.inputs < MaxInputs
          /\ UNCHANGED <<clock, pc, vars>>

MCSpec == MCInit /\ [][MCNext]_<<part, vars, loginVars>>

Symmetry ==
    Permutations(Sids) \cup Permutations(Workers) \cup Permutations(Browsers)
    \cup Permutations(Issuers \ {DefaultIssuer})
=============================================================================
