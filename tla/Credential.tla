------------------------------ MODULE Credential ------------------------------
(***************************************************************************)
(* What a credential promises its owner and the operator who ends it: it   *)
(* opens a request only while it is valid, and once ended it stays ended.  *)
(***************************************************************************)
CONSTANTS Ids, NoId

VARIABLES
    phase,    \* of each credential
    accepted  \* the credential behind the request being served

vars == <<phase, accepted>>

Phase == {"unissued", "valid", "ended"}

Init ==
    /\ phase = [i \in Ids |-> "unissued"]
    /\ accepted = NoId

\* A credential moves only forward; one may be issued with its date already past.
Forward(before, after) ==
    before = after \/ after = "ended" \/ (before = "unissued" /\ after = "valid")

\* Issued or ended, by an operator's act or by a date: several at a time.
Move ==
    /\ phase' \in [Ids -> Phase]
    /\ \A i \in Ids : Forward(phase[i], phase'[i])
    /\ UNCHANGED accepted

Accept(i) ==
    /\ phase[i] = "valid"
    /\ accepted' = i
    /\ UNCHANGED phase

Done == accepted' = NoId /\ UNCHANGED phase

Next == Move \/ Done \/ \E i \in Ids : Accept(i)

Spec == Init /\ [][Next]_vars
=============================================================================
