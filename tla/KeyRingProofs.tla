----------------------------- MODULE KeyRingProofs -----------------------------
(***************************************************************************)
(* Theorems about KeyRing, for every number of rows, keys and operations.  *)
(***************************************************************************)
EXTENDS KeyRing, TLAPS

HasTop(ring) == \E k \in ring : \A j \in ring : j.id <= k.id

Up == broker.stage # "down"

\* A rotation in progress has read the file, and can only add to it.
RotationAdds ==
    rotation # NULL => /\ file # {} /\ file \subseteq rotation
                       /\ HasTop(rotation)

\* The key a running broker seals with stays in the file.
RingBelongs == Up => HasTop(broker.ring) /\ Active(broker.ring) \in file

\* What a running broker cannot open was sealed after it started.
UnreadIsNewer ==
    Up => \A r \in Rows : sealed[r] # NULL =>
              sealed[r] \in broker.ring \/ sealed[r].id > Active(broker.ring).id

\* A report is about its own process, and of the rows it stands for.
ReportHolds ==
    broker.report # NULL =>
        /\ Up
        /\ \A r \in Rows : sealed[r] # NULL => sealed[r].id >= Active(broker.ring).id
        /\ broker.report.failed => ~(file \subseteq broker.ring)

\* The inductive invariant.
Inv ==
    /\ RingTypeOK
    /\ file # {} => HasTop(file)
    /\ RotationAdds
    /\ RingBelongs
    /\ NoRowStranded
    /\ UnreadIsNewer
    /\ ReportHolds

----------------------------------------------------------------------------
\* KeyRing::parse chooses a key of the ring, and none has a higher id.
LEMMA ActiveIsTop ==
  ASSUME NEW ring, HasTop(ring)
  PROVE  Active(ring) \in ring /\ \A j \in ring : j.id <= Active(ring).id
  BY Zenon DEF HasTop, Active

\* The ring with one key more seals with that key.
LEMMA NewRing ==
  ASSUME NEW ring \in SUBSET Keys, UniqueIds(ring), HasTop(ring), made \in Nat,
         Active(ring).id < MaxId
  PROVE  /\ WithNew(ring) \in SUBSET Keys
         /\ UniqueIds(WithNew(ring))
         /\ HasTop(WithNew(ring))
         /\ ring \subseteq WithNew(ring)
  <1> DEFINE new == Key(Active(ring).id + 1, made + 1)
  <1>1. Active(ring) \in ring /\ \A j \in ring : j.id <= Active(ring).id
    BY ActiveIsTop
  <1>2. new \in Keys /\ new.id = Active(ring).id + 1
    BY <1>1, KeyRingAssumption DEF Keys, Key
  <1>3. \A j \in ring : j.id \in Nat /\ j.id < new.id
    BY <1>1, <1>2, KeyRingAssumption DEF Keys
  <1>4. WithNew(ring) = ring \cup {new}
    BY DEF WithNew
  <1> HIDE DEF new
  <1>5. UniqueIds(WithNew(ring))
    BY <1>2, <1>3, <1>4 DEF UniqueIds
  <1>6. HasTop(WithNew(ring))
    <2>1. \A j \in WithNew(ring) : j.id <= new.id
      BY <1>2, <1>3, <1>4, KeyRingAssumption DEF Keys
    <2> QED BY <2>1, <1>4 DEF HasTop
  <1> QED BY <1>2, <1>4, <1>5, <1>6

\* A process starts with a ring that has a key to seal with.
LEMMA LoadedRing ==
  ASSUME Inv
  PROVE  /\ RingLoaded \in SUBSET Keys
         /\ UniqueIds(RingLoaded)
         /\ HasTop(RingLoaded)
         /\ RingLoaded # {}
         /\ file \subseteq RingLoaded
         /\ file # {} => RingLoaded = file
  <1>1. CASE file = {}
    <2>1. Key(1, made + 1) \in Keys
      BY KeyRingAssumption DEF Key, Keys, Inv, RingTypeOK
    <2>2. \A k \in {Key(1, made + 1)} : k.id = 1 /\ k = Key(1, made + 1)
      BY DEF Key
    <2>3. RingLoaded = {Key(1, made + 1)}
      BY <1>1 DEF RingLoaded
    <2>4. HasTop(RingLoaded)
      BY <2>2, <2>3 DEF HasTop
    <2> QED BY <1>1, <2>1, <2>2, <2>3, <2>4 DEF UniqueIds
  <1>2. CASE file # {}
    BY <1>2 DEF RingLoaded, Inv, RingTypeOK
  <1> QED BY <1>1, <1>2

----------------------------------------------------------------------------
LEMMA InitInv == RingInit => Inv
  BY KeyRingAssumption
  DEF RingInit, Inv, RingTypeOK, Down, UniqueIds, RotationAdds, RingBelongs, Up,
      NoRowStranded, UnreadIsNewer, ReportHolds

LEMMA StartInv == ASSUME Inv, Start PROVE Inv'
  <1>1. /\ broker'.stage = "booting" /\ broker'.ring = RingLoaded /\ broker'.report = NULL
        /\ broker' \in [stage : {"down", "booting", "serving"}, ring : SUBSET Keys,
                        report : [resealed : BOOLEAN, failed : BOOLEAN] \cup {NULL}]
    BY LoadedRing DEF Start
  <1>2. file' = RingLoaded /\ made' \in Nat /\ inputs' \in 0 .. MaxInputs
    BY KeyRingAssumption DEF Start, Load, Input, Inv, RingTypeOK
  <1>3. rotation' = rotation /\ sealed' = sealed
    BY DEF Start
  <1>4. RingTypeOK'
    BY <1>1, <1>2, <1>3, LoadedRing DEF Inv, RingTypeOK, UniqueIds
  <1>5. HasTop(file') /\ HasTop(broker'.ring)
    BY <1>1, <1>2, LoadedRing
  <1>6. Active(broker'.ring) \in file'
    BY <1>1, <1>2, <1>5, ActiveIsTop
  <1>7. RotationAdds'
    BY <1>2, <1>3, LoadedRing DEF Inv, RotationAdds
  <1>8. NoRowStranded' /\ UnreadIsNewer' /\ ReportHolds'
    BY <1>1, <1>2, <1>3, LoadedRing
    DEF Inv, NoRowStranded, Opens, UnreadIsNewer, ReportHolds
  <1> QED BY <1>4, <1>5, <1>6, <1>7, <1>8 DEF Inv, RingBelongs

LEMMA StopInv == ASSUME Inv, Stop PROVE Inv'
  <1> USE DEF Stop, Down
  <1>1. broker' = [stage |-> "down", ring |-> {}, report |-> NULL] /\ inputs' \in 0 .. MaxInputs
    BY KeyRingAssumption DEF Input, Inv, RingTypeOK
  <1>2. RingTypeOK'
    BY <1>1 DEF Inv, RingTypeOK, UniqueIds
  <1> QED BY <1>1, <1>2
          DEF Inv, RotationAdds, RingBelongs, Up, NoRowStranded, Opens, UnreadIsNewer, ReportHolds

\* What reseal_all leaves: rows it could open are under the active key, the
\* others are under newer keys.
LEMMA Resealed ==
  ASSUME Inv, Up, NEW r \in Rows
  PROVE  LET k == ResealedRows(broker.ring)[r]
         IN  /\ k \in Keys \cup {NULL}
             /\ k # NULL => /\ k \in file
                            /\ \/ k = Active(broker.ring)
                               \/ k.id > Active(broker.ring).id
  <1> DEFINE k == ResealedRows(broker.ring)[r]
  <1>1. Active(broker.ring) \in broker.ring /\ Active(broker.ring) \in file
    BY ActiveIsTop DEF Inv, RingBelongs
  <1>2. broker.ring \subseteq Keys /\ file \subseteq Keys
    BY DEF Inv, RingTypeOK
  <1>3. k = IF sealed[r] # NULL /\ sealed[r].id # Active(broker.ring).id /\ sealed[r] \in broker.ring
            THEN Active(broker.ring) ELSE sealed[r]
    BY DEF ResealedRows, Stale, Opens
  <1>4. CASE sealed[r] # NULL /\ sealed[r].id # Active(broker.ring).id /\ sealed[r] \in broker.ring
    BY <1>1, <1>2, <1>3, <1>4
  <1>5. CASE sealed[r] # NULL /\ sealed[r].id = Active(broker.ring).id
    <2>1. sealed[r] \in file
      BY <1>5 DEF Inv, NoRowStranded, Opens
    <2>2. sealed[r] = Active(broker.ring)
      BY <2>1, <1>1, <1>5 DEF Inv, RingTypeOK, UniqueIds
    <2> QED BY <2>1, <2>2, <1>2, <1>3, <1>5
  <1>6. CASE sealed[r] # NULL /\ sealed[r] \notin broker.ring
    <2>1. sealed[r] \in file /\ sealed[r].id > Active(broker.ring).id
      BY <1>6 DEF Inv, NoRowStranded, Opens, UnreadIsNewer
    <2> QED BY <2>1, <1>2, <1>3, <1>6
  <1>7. CASE sealed[r] = NULL
    BY <1>3, <1>7
  <1> QED BY <1>4, <1>5, <1>6, <1>7

LEMMA ResealInv == ASSUME Inv, Reseal PROVE Inv'
  <1>1. Up /\ Up'
    BY DEF Reseal, Up, Inv, RingTypeOK
  <1>2. CASE /\ sealed' = ResealedRows(broker.ring)
             /\ broker' = [broker EXCEPT !.stage = "serving", !.report = Report(broker.ring)]
    <2>1. /\ broker'.ring = broker.ring /\ broker'.report = Report(broker.ring)
          /\ broker' \in [stage : {"down", "booting", "serving"}, ring : SUBSET Keys,
                          report : [resealed : BOOLEAN, failed : BOOLEAN] \cup {NULL}]
      BY <1>2 DEF Inv, RingTypeOK, Report
    <2>2. /\ sealed' \in [Rows -> Keys \cup {NULL}]
          /\ \A r \in Rows : sealed'[r] # NULL =>
                /\ sealed'[r] \in file
                /\ sealed'[r] = Active(broker.ring) \/ sealed'[r].id > Active(broker.ring).id
      BY <1>1, <1>2, Resealed DEF ResealedRows
    <2>3. Active(broker.ring) \in broker.ring /\ Active(broker.ring).id \in Nat
      BY <1>1, ActiveIsTop DEF Inv, RingBelongs, RingTypeOK, Keys
    <2>4. RingTypeOK'
      BY <2>1, <2>2, <1>2 DEF Reseal, Inv, RingTypeOK, UniqueIds
    <2>5. Report(broker.ring).failed => ~(file \subseteq broker.ring)
      <3>1. SUFFICES ASSUME NEW r \in Rows, Stale(broker.ring, sealed[r]),
                            ~Opens(broker.ring, sealed[r])
                     PROVE  ~(file \subseteq broker.ring)
        BY DEF Report
      <3> QED BY <3>1 DEF Stale, Opens, Inv, NoRowStranded
    <2>6. NoRowStranded' /\ UnreadIsNewer'
      BY <2>1, <2>2, <2>3 DEF Reseal, NoRowStranded, Opens, UnreadIsNewer
    <2>7. ReportHolds'
      <3>1. \A r \in Rows : sealed'[r] # NULL => sealed'[r].id >= Active(broker.ring).id
        BY <2>2, <2>3, KeyRingAssumption DEF Keys
      <3> QED BY <1>1, <2>1, <2>5, <3>1 DEF Reseal, ReportHolds
    <2> QED BY <1>1, <2>1, <2>4, <2>6, <2>7 DEF Reseal, Inv, RotationAdds, RingBelongs
  <1>3. CASE broker' = [broker EXCEPT !.stage = "serving"] /\ UNCHANGED sealed
    <2>1. /\ broker'.ring = broker.ring /\ broker'.report = broker.report
          /\ broker' \in [stage : {"down", "booting", "serving"}, ring : SUBSET Keys,
                          report : [resealed : BOOLEAN, failed : BOOLEAN] \cup {NULL}]
      BY <1>3 DEF Inv, RingTypeOK
    <2>2. RingTypeOK'
      BY <2>1, <1>1, <1>3 DEF Reseal, Inv, RingTypeOK, UniqueIds, Up
    <2> QED BY <1>1, <1>3, <2>1, <2>2
            DEF Reseal, Inv, RotationAdds, RingBelongs, NoRowStranded, Opens,
                UnreadIsNewer, ReportHolds
  <1> QED BY <1>2, <1>3 DEF Reseal

\* A row that is written under a key of the file which is the broker's own or
\* a newer one disturbs nothing, and neither does a row that goes.
LEMMA RowInv ==
  ASSUME Inv, NEW r \in Rows, NEW k \in file \cup {NULL},
         sealed' = [sealed EXCEPT ![r] = k],
         Up /\ k # NULL => k = Active(broker.ring) \/ k.id > Active(broker.ring).id,
         inputs' \in 0 .. MaxInputs,
         UNCHANGED <<file, rotation, made, broker>>
  PROVE  Inv'
  <1>1. RingTypeOK'
    BY DEF Inv, RingTypeOK, UniqueIds
  <1>2. \A q \in Rows : sealed'[q] = IF q = r THEN k ELSE sealed[q]
    BY DEF Inv, RingTypeOK
  <1>3. NoRowStranded'
    BY <1>2 DEF Inv, NoRowStranded, Opens
  <1>4. Up => /\ Active(broker.ring) \in broker.ring /\ Active(broker.ring).id \in Nat
              /\ \A q \in file : q.id \in Nat
    BY ActiveIsTop DEF Inv, RingBelongs, RingTypeOK, Keys
  <1>5. UnreadIsNewer'
    BY <1>2, <1>4 DEF Inv, UnreadIsNewer, Up
  <1>6. ReportHolds'
    BY <1>2, <1>4 DEF Inv, ReportHolds, Up
  <1> QED BY <1>1, <1>3, <1>5, <1>6 DEF Inv, RotationAdds, RingBelongs, Up

LEMMA WriteInv == ASSUME Inv, NEW r \in Rows, Write(r) PROVE Inv'
  <1>1. Active(broker.ring) \in file
    BY DEF Write, Inv, RingBelongs, Up
  <1>2. inputs' \in 0 .. MaxInputs
    BY KeyRingAssumption DEF Write, Input, Inv, RingTypeOK
  <1> QED BY <1>1, <1>2, RowInv DEF Write

LEMMA EraseInv == ASSUME Inv, NEW r \in Rows, Erase(r) PROVE Inv'
  <1>1. inputs' \in 0 .. MaxInputs
    BY KeyRingAssumption DEF Erase, Input, Inv, RingTypeOK
  <1> QED BY <1>1, RowInv DEF Erase

LEMMA WriteByCommandInv == ASSUME Inv, NEW r \in Rows, WriteByCommand(r) PROVE Inv'
  <1>1. inputs' \in 0 .. MaxInputs /\ made' \in Nat /\ file' = RingLoaded
    BY KeyRingAssumption DEF WriteByCommand, Load, Input, Inv, RingTypeOK
  <1>2. Active(RingLoaded) \in RingLoaded /\ \A j \in RingLoaded : j.id <= Active(RingLoaded).id
    BY LoadedRing, ActiveIsTop
  <1>3. CASE file # {}
    <2>1. RingLoaded = file /\ file' = file /\ made' = made
      BY <1>3 DEF RingLoaded, WriteByCommand, Load
    <2>2. Up => Active(file) = Active(broker.ring) \/ Active(file).id > Active(broker.ring).id
      <3>1. Up => Active(broker.ring) \in file
        BY DEF Inv, RingBelongs
      <3>2. Up => Active(broker.ring).id <= Active(file).id
        BY <3>1, <1>2, <2>1
      <3>3. Active(file) \in file /\ \A j \in file : j.id \in Nat
        BY <1>2, <2>1, KeyRingAssumption DEF Inv, RingTypeOK, Keys
      <3>4. Up /\ Active(file).id = Active(broker.ring).id => Active(file) = Active(broker.ring)
        BY <3>1, <3>3 DEF Inv, RingTypeOK, UniqueIds
      <3> QED BY <3>1, <3>2, <3>3, <3>4
    <2> QED BY <1>1, <1>2, <2>1, <2>2, RowInv DEF WriteByCommand
  <1>4. CASE file = {}
    <2>1. ~Up /\ rotation = NULL /\ broker.report = NULL
      BY <1>4 DEF Inv, RingBelongs, RotationAdds, ReportHolds
    <2>2. \A q \in Rows : sealed[q] = NULL
      BY <1>4 DEF Inv, NoRowStranded, Opens
    <2>3. /\ sealed' = [sealed EXCEPT ![r] = Active(RingLoaded)]
          /\ rotation' = rotation /\ broker' = broker
      BY DEF WriteByCommand
    <2>4. RingTypeOK'
      BY <1>1, <1>2, <2>1, <2>3, LoadedRing DEF Inv, RingTypeOK, UniqueIds
    <2>5. NoRowStranded'
      BY <1>1, <1>2, <2>2, <2>3 DEF NoRowStranded, Opens, Inv, RingTypeOK
    <2> QED BY <1>1, <2>1, <2>3, <2>4, <2>5, LoadedRing
            DEF Inv, RotationAdds, RingBelongs, UnreadIsNewer, ReportHolds, Up
  <1> QED BY <1>3, <1>4

LEMMA RotateReadInv == ASSUME Inv, RotateRead PROVE Inv'
  <1>1. /\ WithNew(file) \in SUBSET Keys /\ UniqueIds(WithNew(file))
        /\ HasTop(WithNew(file)) /\ file \subseteq WithNew(file)
    BY NewRing DEF RotateRead, Inv, RingTypeOK
  <1>2. inputs' \in 0 .. MaxInputs /\ made' \in Nat
    BY KeyRingAssumption DEF RotateRead, Input, Inv, RingTypeOK
  <1>3. rotation' = WithNew(file) /\ file # {} /\ UNCHANGED <<file, sealed, broker>>
    BY DEF RotateRead
  <1>4. RingTypeOK'
    BY <1>1, <1>2, <1>3 DEF Inv, RingTypeOK, UniqueIds
  <1> QED BY <1>1, <1>3, <1>4
          DEF Inv, RotationAdds, RingBelongs, Up, NoRowStranded, Opens, UnreadIsNewer, ReportHolds

LEMMA RotateRenameInv == ASSUME Inv, RotateRename PROVE Inv'
  <1>1. /\ file \subseteq file' /\ file' # {} /\ HasTop(file')
        /\ file' \in SUBSET Keys /\ UniqueIds(file')
        /\ rotation' = NULL /\ UNCHANGED <<made, sealed, broker, inputs>>
    BY DEF RotateRename, Inv, RotationAdds, RingTypeOK
  <1>2. RingTypeOK'
    BY <1>1 DEF Inv, RingTypeOK, UniqueIds
  <1> QED BY <1>1, <1>2
          DEF Inv, RotationAdds, RingBelongs, Up, NoRowStranded, Opens, UnreadIsNewer, ReportHolds

\* The rule that `rotate-key` prints: when the boot reseal has found nothing to
\* do, every row is under the one key that the file must keep.
LEMMA ForgetInv == ASSUME Inv, NEW kept \in SUBSET file, Forget(kept) PROVE Inv'
  <1>1. /\ file' = kept /\ Active(file) \in kept /\ file # {}
        /\ broker.report # NULL /\ ~broker.report.failed /\ broker.ring = file
        /\ UNCHANGED <<rotation, made, sealed, broker>>
    BY DEF Forget, MayForget
  <1>2. Active(file) \in file /\ \A j \in file : j.id <= Active(file).id
    BY <1>1, ActiveIsTop DEF Inv
  <1>3. \A r \in Rows : sealed[r] # NULL => sealed[r] = Active(file)
    <2>1. SUFFICES ASSUME NEW r \in Rows, sealed[r] # NULL
                   PROVE  sealed[r] = Active(file)
      OBVIOUS
    <2>2. sealed[r] \in file /\ sealed[r].id >= Active(file).id
      BY <1>1, <2>1 DEF Inv, NoRowStranded, Opens, ReportHolds
    <2>3. sealed[r].id \in Nat /\ Active(file).id \in Nat
      BY <1>2, <2>2, KeyRingAssumption DEF Inv, RingTypeOK, Keys
    <2>4. sealed[r].id = Active(file).id
      BY <1>2, <2>2, <2>3
    <2> QED BY <1>2, <2>2, <2>4 DEF Inv, RingTypeOK, UniqueIds
  <1>4. inputs' \in 0 .. MaxInputs
    BY KeyRingAssumption DEF Forget, Input, Inv, RingTypeOK
  <1>5. RingTypeOK'
    BY <1>1, <1>4 DEF Inv, RingTypeOK, UniqueIds
  <1>6. HasTop(kept)
    BY <1>1, <1>2 DEF HasTop
  <1>7. NoRowStranded'
    BY <1>1, <1>3 DEF NoRowStranded, Opens
  <1>8. RingBelongs' /\ RotationAdds'
    BY <1>1 DEF Inv, RingBelongs, RotationAdds, Up
  <1>9. UnreadIsNewer' /\ ReportHolds'
    BY <1>1 DEF Inv, UnreadIsNewer, ReportHolds, Up
  <1> QED BY <1>1, <1>5, <1>6, <1>7, <1>8, <1>9 DEF Inv

LEMMA NextInv == Inv /\ [RingNext]_ringVars => Inv'
  <1> SUFFICES ASSUME Inv, [RingNext]_ringVars PROVE Inv'
    OBVIOUS
  <1>1. CASE UNCHANGED ringVars
    BY <1>1 DEF ringVars, Inv, RingTypeOK, RotationAdds, RingBelongs, Up, NoRowStranded, Opens,
                UnreadIsNewer, ReportHolds
  <1> QED BY <1>1, StartInv, StopInv, ResealInv, WriteInv, EraseInv, WriteByCommandInv,
             RotateReadInv, RotateRenameInv, ForgetInv
          DEF RingNext

LEMMA InvHolds == RingSpec => []Inv
  BY InitInv, NextInv, PTL DEF RingSpec

----------------------------------------------------------------------------
\* The keyfile, a rotation in progress and every ring have one key for each id.
THEOREM KeyRingTypeCorrect == RingSpec => []RingTypeOK
  <1>1. Inv => RingTypeOK
    BY DEF Inv
  <1> QED BY InvHolds, <1>1, PTL

\* Whatever an operator and a broker do in whatever order, every stored row can
\* be opened with the keyfile (the rule that rotate-key prints is safe).
THEOREM RowsStayReadable == RingSpec => []NoRowStranded
  <1>1. Inv => NoRowStranded
    BY DEF Inv
  <1> QED BY InvHolds, <1>1, PTL

\* A reported boot reseal leaves no row under an older key, and rows it could not
\* open are those of a keyfile that has moved on.
THEOREM ResealIsComplete == RingSpec => []ResealLeavesNothing
  <1>1. Inv => ResealLeavesNothing
    BY DEF Inv, ReportHolds, ResealLeavesNothing
  <1> QED BY InvHolds, <1>1, PTL

\* No step makes an older key the active one again, or empties the keyfile.
THEOREM ActiveOnlyAdvances == RingSpec => ActiveNeverFalls
  <1>1. Inv /\ Inv' /\ [RingNext]_ringVars
          => [file # {} => file' # {} /\ Active(file').id >= Active(file).id]_ringVars
    <2> SUFFICES ASSUME Inv, Inv', [RingNext]_ringVars, file # {}
                 PROVE  file' # {} /\ Active(file').id >= Active(file).id
      OBVIOUS
    <2>1. Active(file) \in file /\ \A j \in file : j.id \in Nat
      BY ActiveIsTop, KeyRingAssumption DEF Inv, RingTypeOK, Keys
    <2>2. Active(file) \in file'
      BY <2>1 DEF RingNext, ringVars, Start, Stop, Reseal, Write, Erase, WriteByCommand, Load, RingLoaded,
                  RotateRead, RotateRename, Forget, Inv, RotationAdds
    <2>3. Active(file') \in file' /\ Active(file).id <= Active(file').id
      BY <2>2, ActiveIsTop DEF Inv
    <2>4. Active(file').id \in Nat
      BY <2>3, KeyRingAssumption DEF Inv, RingTypeOK, Keys
    <2> QED BY <2>1, <2>2, <2>3, <2>4
  <1> QED BY InvHolds, <1>1, PTL DEF RingSpec, ActiveNeverFalls
=============================================================================
