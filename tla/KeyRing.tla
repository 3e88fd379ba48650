-------------------------------- MODULE KeyRing --------------------------------
(***************************************************************************)
(* Encryption at rest: the keyfile and its rotation (store/crypto.rs), the *)
(* broker that loads it once and reseals at boot (main.rs, store/repo.rs), *)
(* and the operator who rotates keys and deletes old ones by the rule that *)
(* `rotate-key` prints.                                                    *)
(*                                                                         *)
(* A key is its id and its random bytes, here a number never used before.  *)
(* A row is one sealed value, in any of the three tables that have some.   *)
(***************************************************************************)
EXTENDS Optional, Integers, FiniteSets

CONSTANTS
    Rows,       \* custody, signing_key and identity_provider rows
    MaxId,      \* the largest key id (255)
    MaxInputs   \* bound: starts, stops, rotations, writes and deletions together

ASSUME KeyRingAssumption == MaxId \in Nat \ {0} /\ MaxInputs \in Nat

VARIABLES
    file,      \* the keys in the keyfile; none before the first start
    rotation,  \* the keys `rotate-key` is about to put there, or NULL
    made,      \* keys generated so far
    sealed,    \* the key each row is sealed under, or NULL where there is no row
    broker,    \* the process: its ring, and how far its boot reseal is
    inputs

ringVars == <<file, rotation, made, sealed, broker, inputs>>

Down == [stage |-> "down", ring |-> {}, report |-> NULL]

Key(id, n) == [id |-> id, bytes |-> n]

\* KeyRing::parse: the highest id seals, every key opens.
Active(ring) == CHOOSE k \in ring : \A j \in ring : j.id <= k.id

\* KeyRing::open: the very key must be there.
Opens(ring, k) == k \in ring

RingInit ==
    /\ file = {} /\ rotation = NULL /\ made = 0
    /\ sealed = [r \in Rows |-> NULL]
    /\ broker = Down
    /\ inputs = 0

Input ==
    /\ inputs < MaxInputs
    /\ inputs' = inputs + 1

----------------------------------------------------------------------------
(***************************************************************************)
(* The broker.                                                             *)
(***************************************************************************)
\* The ring a process starts with: the file, or one key where there is none.
RingLoaded == IF file = {} THEN {Key(1, made + 1)} ELSE file

\* init_from_keyfile, with the file that it may create.
Load ==
    /\ file' = RingLoaded
    /\ made' = IF file = {} THEN made + 1 ELSE made

\* store::open, and the reseal is enqueued before anything else.
Start ==
    /\ broker.stage = "down" /\ Input
    /\ Load
    /\ broker' = [stage |-> "booting", ring |-> RingLoaded, report |-> NULL]
    /\ UNCHANGED <<rotation, sealed>>

\* Killed, or stopped.
Stop ==
    /\ broker.stage # "down" /\ Input
    /\ broker' = Down
    /\ UNCHANGED <<file, rotation, made, sealed>>

\* Is this row under another key than the active one?  Only the id is compared.
Stale(ring, k) == k # NULL /\ k.id # Active(ring).id

\* reseal_all: what opens is sealed again, what does not is left alone.
ResealedRows(ring) ==
    [r \in Rows |-> IF Stale(ring, sealed[r]) /\ Opens(ring, sealed[r])
                    THEN Active(ring) ELSE sealed[r]]

Report(ring) ==
    LET stale == {r \in Rows : Stale(ring, sealed[r])}
    IN  [resealed |-> {r \in stale : Opens(ring, sealed[r])} # {},
         failed |-> {r \in stale : ~Opens(ring, sealed[r])} # {}]

\* The first command of the writer: one transaction, or nothing and no report.
Reseal ==
    /\ broker.stage = "booting"
    /\ \/ /\ sealed' = ResealedRows(broker.ring)
          /\ broker' = [broker EXCEPT !.stage = "serving", !.report = Report(broker.ring)]
       \/ /\ broker' = [broker EXCEPT !.stage = "serving"]
          /\ UNCHANGED sealed
    /\ UNCHANGED <<file, rotation, made, inputs>>

\* A custody, a provider's secret or a signing key is stored by the broker.
Write(r) ==
    /\ broker.stage = "serving" /\ Input
    /\ sealed' = [sealed EXCEPT ![r] = Active(broker.ring)]
    /\ UNCHANGED <<file, rotation, made, broker>>

\* A row goes: reaped, pruned, or a provider's tombstone.
Erase(r) ==
    /\ broker.stage = "serving" /\ sealed[r] # NULL /\ Input
    /\ sealed' = [sealed EXCEPT ![r] = NULL]
    /\ UNCHANGED <<file, rotation, made, broker>>

----------------------------------------------------------------------------
(***************************************************************************)
(* The operator.                                                           *)
(***************************************************************************)
\* `rotate-signing-key`: a new row, by a process with the keyfile as it is now.
\* Its load and its write are one step: an operator who rotates, restarts the broker
\* and deletes a key while such a process runs can strand its row.
WriteByCommand(r) ==
    /\ sealed[r] = NULL /\ Input
    /\ Load
    /\ sealed' = [sealed EXCEPT ![r] = Active(RingLoaded)]
    /\ UNCHANGED <<rotation, broker>>

\* Mutant: the new ring is the new key.
WithNewOnly(ring) == {Key(Active(ring).id + 1, made + 1)}

\* One key more, with the id after the active one.
WithNew(ring) == ring \cup {Key(Active(ring).id + 1, made + 1)}

\* rotate_keyfile: the file read, and the new ring in a temporary file.
RotateRead ==
    /\ rotation = NULL /\ file # {} /\ Active(file).id < MaxId /\ Input
    /\ rotation' = WithNew(file)
    /\ made' = made + 1
    /\ UNCHANGED <<file, sealed, broker>>

\* The rename, or a crash that leaves the file as it was.
RotateRename ==
    /\ rotation # NULL
    /\ file' \in {file, rotation}
    /\ rotation' = NULL
    /\ UNCHANGED <<made, sealed, broker, inputs>>

\* "no unreadable rows and a restart reseals 0; only then may they be removed":
\* a broker that runs on the file as it is, whose boot found nothing to do.
MayForget ==
    /\ broker.report # NULL
    /\ ~broker.report.resealed /\ ~broker.report.failed
    /\ broker.ring = file

\* Old keys are deleted from the file.
Forget(kept) ==
    /\ MayForget /\ Input
    /\ Active(file) \in kept
    /\ file' = kept
    /\ UNCHANGED <<rotation, made, sealed, broker>>

RingNext ==
    \/ Start \/ Stop \/ Reseal
    \/ \E r \in Rows : Write(r) \/ Erase(r) \/ WriteByCommand(r)
    \/ RotateRead \/ RotateRename
    \/ \E kept \in SUBSET file : Forget(kept)

RingSpec == RingInit /\ [][RingNext]_ringVars

----------------------------------------------------------------------------
(***************************************************************************)
(* Properties.                                                             *)
(***************************************************************************)
Keys == [id : 1 .. MaxId, bytes : Nat]

UniqueIds(ring) == \A j, k \in ring : j.id = k.id => j = k

\* The shape of the state: a ring has one key for each id (parse refuses two),
\* and a process that runs has at least one.
RingTypeOK ==
    /\ file \subseteq Keys /\ UniqueIds(file)
    /\ rotation # NULL => rotation \subseteq Keys /\ UniqueIds(rotation)
    /\ made \in Nat
    /\ sealed \in [Rows -> Keys \cup {NULL}]
    /\ broker \in [stage : {"down", "booting", "serving"},
                   ring : SUBSET Keys,
                   report : [resealed : BOOLEAN, failed : BOOLEAN] \cup {NULL}]
    /\ broker.stage # "down" => broker.ring # {}
    /\ inputs \in 0 .. MaxInputs

\* What a lost key costs is a re-login for everybody: whatever the order of
\* rotations, failed rotations, starts, kills, reseals that never ran, writes by
\* a broker that still has the old ring and by the command that has the new one,
\* every stored row is sealed under a key that is in the keyfile, so the next
\* start can open it.
NoRowStranded == \A r \in Rows : sealed[r] # NULL => Opens(file, sealed[r])

\* After a boot reseal that was reported, no row is left under an older key than
\* the one this process seals with, whatever it and the commands write later; and
\* rows it could not open are those of a file that has moved on, so that the next
\* restart opens them.
ResealLeavesNothing ==
    broker.report # NULL =>
        /\ \A r \in Rows : sealed[r] # NULL => sealed[r].id >= Active(broker.ring).id
        /\ broker.report.failed => broker.ring # file

\* The key that seals is never given up, only followed by a newer one: no
\* rotation, deletion or crash makes an older key the active one again.
ActiveNeverFalls == [][
    file # {} => file' # {} /\ Active(file').id >= Active(file).id]_ringVars
=============================================================================
