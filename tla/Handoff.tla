-------------------------------- MODULE Handoff --------------------------------
(***************************************************************************)
(* The desktop sign-in handoff (http/desktop.rs): which session an         *)
(* attempt's own login made, and how the attempt ended.  Both tables are   *)
(* small and forgetful: what is older than AttemptTtl goes on the next     *)
(* insertion, and at AttemptsHeld the oldest goes too.                     *)
(***************************************************************************)
EXTENDS Integers, FiniteSets

CONSTANTS
    Nobody,        \* no entry
    Attempts,      \* attempt ids: hashes of verifiers
    AttemptTtl,    \* ATTEMPT_TTL_SECS
    AttemptsHeld   \* ATTEMPTS_HELD

ASSUME HandoffAssumption ==
    /\ {AttemptTtl, AttemptsHeld} \subseteq Nat \ {0}
    /\ IsFiniteSet(Attempts)

EmptyHeld == [logins |-> [k \in Attempts |-> Nobody], outcomes |-> [k \in Attempts |-> Nobody]]

Fresh(v, at) == v # Nobody /\ v.at + AttemptTtl > at

\* trim: what stays when an entry is about to be inserted; ties go either way.
Trimmed(map, at) ==
    LET fresh == {k \in Attempts : Fresh(map[k], at)}
        keeps == {S \in SUBSET fresh :
                     /\ Cardinality(S) = IF Cardinality(fresh) < AttemptsHeld
                                         THEN Cardinality(fresh) ELSE AttemptsHeld - 1
                     /\ \A k \in S, j \in fresh \ S : map[j].at <= map[k].at}
    IN  {[k \in Attempts |-> IF k \in S THEN map[k] ELSE Nobody] : S \in keeps}

\* note_login: this attempt's login made this session.
NoteLogin(held, k, sid, at) ==
    {[held EXCEPT !.logins = [logins EXCEPT ![k] = [sid |-> sid, at |-> at]]] :
        logins \in Trimmed(held.logins, at)}

\* finish: the first ending stands.
Finish(held, k, sid, at) ==
    {IF outcomes[k] # Nobody
     THEN [held EXCEPT !.outcomes = outcomes]
     ELSE [held EXCEPT !.outcomes = [outcomes EXCEPT ![k] = [sid |-> sid, at |-> at]],
                       !.logins[k] = Nobody] :
        outcomes \in Trimmed(held.outcomes, at)}

\* note_failure: the sign-in ended without a session.
NoteFailure(held, k, at) == IF k = Nobody THEN {held} ELSE Finish(held, k, 0, at)

\* Is this the session the attempt's own login made?
Binds(held, k, sid, at) == Fresh(held.logins[k], at) /\ held.logins[k].sid = sid

=============================================================================
