------------------------------- MODULE Optional -------------------------------
(* Rust's Option: a value, or None. *)
CONSTANT NULL

Option(S) == S \cup {NULL}
=============================================================================
