------------------------ MODULE BaselineStoreProofs ------------------------
(***************************************************************************)
(* Proofs about BaselineStore, for all settings, commands and numbers of   *)
(* saves.                                                                  *)
(***************************************************************************)
EXTENDS BaselineStore, TLAPS

LEMMA Types == ASSUME TypeOK, [Next]_vars PROVE TypeOK'
<1> USE StoreNone, EnvelopeNone DEF TypeOK, Save, disk, runtime, history
<1>1. ASSUME NEW data \in Data, BeginSave(data) PROVE TypeOK'
  <2>1. Build(data) \in Envelope
    BY <1>1 DEF Build, Initial, Image, Envelope, Data
  <2> QED BY <1>1, <2>1 DEF BeginSave
<1>2. CASE StoreWrites
  BY <1>2 DEF StoreWrites, Writing, Land, NoLand
<1>3. CASE StoreDefers
  BY <1>3 DEF StoreDefers, Writing
<1>4. CASE Verify
  <2>1. saving.env.image \in Image /\ saving.env.image.data \in Data
    BY <1>4 DEF Verify, Envelope, Image
  <2>2. latched' \in BOOLEAN
    BY <1>4 DEF Verify
  <2> QED BY <1>4, <2>1, <2>2 DEF Verify
<1>5. CASE SaveRaises
  BY <1>5 DEF SaveRaises, Writing, Land, NoLand
<1>6. CASE CoreStops
  BY <1>6 DEF CoreStops
<1>7. CASE FinalWrite
  BY <1>7 DEF FinalWrite, Land, NoLand
<1>8. CASE Down
  BY <1>8 DEF Down, Writing, Land, NoLand
<1>9. ASSUME NEW part \in Parts, Damage(part) PROVE TypeOK'
  BY <1>9 DEF Damage
<1>10. CASE Start
  <2>1. Empty \in Data
    BY DEF Empty, Data
  <2>2. file # None => /\ file.image \in Image /\ file.prev \in Image \cup {None}
                       /\ file.image.data \in Data
                       /\ file.prev # None => file.prev.data \in Data
    BY DEF Envelope, Image
  <2> QED BY <1>10, <2>1, <2>2
          DEF Start, LoadNothing, LoadUnreadable, LoadCurrent, LoadPrevious,
              Restored, PreviousValid, NoLand
<1>11. CASE UNCHANGED vars
  BY <1>11 DEF vars
<1> QED BY <1>1, <1>2, <1>3, <1>4, <1>5, <1>6, <1>7, <1>8, <1>9, <1>10, <1>11
        DEF Next

\* Every variable of the store keeps its type.
THEOREM StoreTypeCorrect == Spec => []TypeOK
<1>1. Init => TypeOK
  <2>1. Empty \in Data /\ 0 \in Nat
    BY DEF Empty, Data
  <2> QED BY <2>1 DEF Init, TypeOK
<1> QED BY <1>1, Types, PTL DEF Spec

-----------------------------------------------------------------------------
(* The invariants of BaselineStore *)

LEMMA Chained == ASSUME TypeOK, ChainInv, [Next]_vars PROVE ChainInv'
<1> USE DEF ChainInv, LockInv, PredecessorInv, PreviousIsPredecessor,
        disk, runtime, history
<1>1. ASSUME NEW data \in Data, BeginSave(data) PROVE ChainInv'
  <2>1. Build(data).prev = lastGood
    BY DEF Build
  <2>2. saving' = [env |-> Build(data), step |-> "write"]
    BY <1>1 DEF BeginSave
  <2>3. saving'.env.prev = lastGood
    BY <2>1, <2>2
  <2> QED BY <1>1, <2>2, <2>3 DEF BeginSave, ImageData
<1>2. CASE StoreWrites
  <2>1. saving'.env = saving.env /\ saving' # None
    BY <1>2, StoreNone, EnvelopeNone DEF StoreWrites, Writing, TypeOK, Save
  <2> QED BY <1>2, <2>1 DEF StoreWrites, Writing, Land, NoLand, ImageData
<1>3. CASE StoreDefers
  <2>1. saving'.env = saving.env /\ saving'.step = "verify" /\ saving' # None
    BY <1>3, StoreNone, EnvelopeNone DEF StoreDefers, Writing, TypeOK, Save
  <2> QED BY <1>3, <2>1 DEF StoreDefers, Writing, ImageData
<1>4. CASE Verify
  BY <1>4, EnvelopeNone DEF Verify, Verified, ImageData, TypeOK, Save, Envelope
<1>5. CASE SaveRaises
  BY <1>5 DEF SaveRaises, Writing, Land, NoLand, ImageData
<1>6. CASE CoreStops
  BY <1>6 DEF CoreStops, ImageData
<1>7. CASE FinalWrite
  BY <1>7 DEF FinalWrite, Land, NoLand, ImageData
<1>8. CASE Down
  BY <1>8 DEF Down, Writing, Land, NoLand, ImageData
<1>9. ASSUME NEW part \in Parts, Damage(part) PROVE ChainInv'
  BY <1>9 DEF Damage, ImageData
<1>10. CASE Start
  BY <1>10, EnvelopeNone
     DEF Start, LoadNothing, LoadUnreadable, LoadCurrent, LoadPrevious,
         Restored, NoLand, ImageData, TypeOK, Envelope
<1>11. CASE UNCHANGED vars
  BY <1>11 DEF vars, ImageData
<1> QED BY <1>1, <1>2, <1>3, <1>4, <1>5, <1>6, <1>7, <1>8, <1>9, <1>10, <1>11
        DEF Next

LEMMA ChainAlways == Spec => [](TypeOK /\ ChainInv)
<1>1. Init => ChainInv
  BY DEF Init, ChainInv, LockInv, PredecessorInv, PreviousIsPredecessor, ImageData
<1> QED BY <1>1, StoreTypeCorrect, Chained, PTL DEF Spec

\* The fallback is the state before the last transaction, whatever fails.
THEOREM PredecessorCorrect == Spec => []PreviousIsPredecessor
BY ChainAlways, PTL DEF ChainInv

-----------------------------------------------------------------------------
(* The first capture *)

\* Only two writes change the file: the save under way and the deferred one.
LEMMA FileSteps ==
  ASSUME TypeOK, LockInv, [Next]_vars
  PROVE  \/ UNCHANGED file
         \/ file' = None
         \/ saving # None /\ file' = saving.env
         \/ deferred # None /\ file' = deferred
<1> USE DEF disk, runtime, history
<1>1. ASSUME NEW data \in Data, BeginSave(data) PROVE UNCHANGED file
  BY <1>1 DEF BeginSave
<1>2. ASSUME NEW part \in Parts, Damage(part) PROVE UNCHANGED file
  BY <1>2 DEF Damage
<1>3. CASE StoreWrites \/ StoreDefers \/ Verify \/ SaveRaises
  BY <1>3 DEF StoreWrites, StoreDefers, Verify, SaveRaises, Writing, Land, NoLand
<1>4. CASE CoreStops \/ FinalWrite \/ Down
  BY <1>4 DEF CoreStops, FinalWrite, Down, Writing, Land, NoLand
<1>5. CASE Start
  BY <1>5 DEF Start, LoadNothing, LoadUnreadable, LoadCurrent, LoadPrevious, NoLand
<1> QED BY <1>1, <1>2, <1>3, <1>4, <1>5 DEF Next, vars

LEMMA Fixed ==
  ASSUME TypeOK, LockInv, CaptureInv, [Next]_vars
  PROVE  file # None /\ file' # None /\ Initially(file) # None
           => Initially(file') = Initially(file)
BY FileSteps DEF CaptureInv, Carries, Initially

LEMMA Captured ==
  ASSUME TypeOK, LockInv, CaptureInv, [Next]_vars PROVE CaptureInv'
<1> USE DEF CaptureInv, LockInv, Carries, disk, runtime, history
<1>1. ASSUME NEW data \in Data, BeginSave(data) PROVE CaptureInv'
  <2>1. saving' = [env |-> Build(data), step |-> "write"]
    BY <1>1 DEF BeginSave
  <2>2. /\ saving'.env.image.data = data
        /\ saving'.env.image.initial = Initial(data)
    BY <2>1 DEF Build
  <2>3. Build(data) # None /\ saving'.env = Build(data) /\ saving' # None
    <3>1. Build(data) \in Envelope
      BY <1>1 DEF Build, Initial, TypeOK, Image, Envelope, Data
    <3> QED BY <2>1, <3>1, EnvelopeNone DEF Save
  <2> QED BY <1>1, <2>2, <2>3 DEF BeginSave, Initial, Initially
<1>2. CASE StoreWrites
  <2>1. saving'.env = saving.env /\ saving' # None
    BY <1>2, StoreNone, EnvelopeNone DEF StoreWrites, Writing, TypeOK, Save
  <2> QED BY <1>2, <2>1 DEF StoreWrites, Writing, Land, NoLand, Initially
<1>3. CASE StoreDefers
  <2>1. saving'.env = saving.env /\ saving' # None
    BY <1>3, StoreNone, EnvelopeNone DEF StoreDefers, Writing, TypeOK, Save
  <2> QED BY <1>3, <2>1 DEF StoreDefers, Writing, Initially
<1>4. CASE Verify
  BY <1>4, EnvelopeNone
     DEF Verify, Verified, Initially, TypeOK, Save, Envelope
<1>5. CASE SaveRaises
  BY <1>5 DEF SaveRaises, Writing, Land, NoLand, Initially
<1>6. CASE CoreStops
  BY <1>6 DEF CoreStops, Initially
<1>7. CASE FinalWrite
  BY <1>7 DEF FinalWrite, Land, NoLand, Initially
<1>8. CASE Down
  BY <1>8 DEF Down, Writing, Land, NoLand, Initially
<1>9. ASSUME NEW part \in Parts, Damage(part) PROVE CaptureInv'
  BY <1>9 DEF Damage, Initially
<1>10. CASE Start
  <2>1. saving = None /\ deferred = None
    BY <1>10 DEF Start
  <2> QED BY <1>10, <2>1, EnvelopeNone
          DEF Start, LoadNothing, LoadUnreadable, LoadCurrent, LoadPrevious,
              Restored, NoLand, Initially, TypeOK, Envelope
<1>11. CASE UNCHANGED vars
  BY <1>11 DEF vars, Initially
<1> QED BY <1>1, <1>2, <1>3, <1>4, <1>5, <1>6, <1>7, <1>8, <1>9, <1>10, <1>11
        DEF Next

\* The first capture of the thermostat's settings, the one a user may need to
\* go back to, survives every later save.
THEOREM InitialCaptureKept == Spec => InitialCaptureFixed
<1>1. Init => CaptureInv
  BY DEF Init, CaptureInv, Carries, Initially
<1>2. Spec => []CaptureInv
  BY <1>1, Captured, ChainAlways, PTL DEF ChainInv, Spec
<1>3. ASSUME TypeOK, LockInv, CaptureInv, CaptureInv', [Next]_vars
      PROVE [/\ file # None /\ file' # None /\ Initially(file) # None
                  => Initially(file') = Initially(file)
             /\ file' # None /\ file'.image.data.settings # None
                  => Initially(file') # None]_vars
  BY <1>3, Fixed DEF CaptureInv, Carries, Initially
<1> QED BY <1>2, <1>3, ChainAlways, PTL DEF ChainInv, InitialCaptureFixed, Spec

-----------------------------------------------------------------------------
(* The abstract cell *)

\* A step of the store that leaves the runtime alone and only settles writes
LEMMA Narrows ==
  ASSUME TypeOK, LockInv,
         \/ /\ file' = file /\ damaged' = damaged
         \/ /\ Writing /\ file' = saving.env /\ damaged' = {}
         \/ /\ deferred # None /\ file' = deferred /\ damaged' = {},
         \/ saving' = saving
         \/ ~Writing',
         deferred' \in {None, deferred} \/ (Writing /\ deferred' = saving.env)
  PROVE  /\ May' \subseteq May
         /\ CurrentValid => CurrentValid'
         /\ CurrentValid' => May' # {}
<1>1. file' # None /\ file' # file
        => file'.image.data \in May /\ CurrentValid'
  BY DEF May, CurrentValid
<1>2. deferred' # None => deferred'.image.data \in May
  BY DEF May
<1>3. Writing' => Writing /\ saving' = saving
  BY DEF Writing
<1>4. Writing' => saving'.env.image.data \in May
  BY <1>3 DEF May
<1>5. CurrentValid => CurrentValid'
  BY DEF CurrentValid
<1>6. CurrentValid' => ImageData(IF file' = None THEN None ELSE file'.image) \in May
  BY EnvelopeNone DEF May, CurrentValid, ImageData, Writing, TypeOK, Save, Envelope
<1>7. CurrentValid' => May' # {}
  BY DEF May, CurrentValid
<1>8. May' \subseteq May
  BY <1>2, <1>4, <1>6 DEF May, CurrentValid, ImageData
<1> QED BY <1>5, <1>7, <1>8

LEMMA CellSteps ==
  ASSUME TypeOK, TypeOK', LockInv, [Next]_vars
  PROVE  [Cell!Next]_(Cell!cell)
<1> USE DEF disk, runtime, history, CurrentValid, Cell!cell, Cell!Next
<1> DEFINE CellNarrow == /\ May' \subseteq May
                         /\ CurrentValid => CurrentValid'
                         /\ CurrentValid' => May' # {}
<1>1. ASSUME NEW data \in Data, BeginSave(data) PROVE Cell!Attempt(data)
  <2>1. saving' = [env |-> Build(data), step |-> "write"] /\ saving = None
    BY <1>1 DEF BeginSave
  <2>2. saving'.env.image.data = data /\ saving'.step = "write" /\ saving' # None
    <3>1. Build(data) \in Envelope
      BY <1>1 DEF Build, Initial, TypeOK, Image, Envelope, Data
    <3> QED BY <2>1, <3>1, EnvelopeNone DEF Save, Build
  <2>3. May' = May \cup {data}
    BY <1>1, <2>1, <2>2 DEF BeginSave, May, Writing, ImageData
  <2> QED BY <1>1, <2>3 DEF BeginSave, Cell!Attempt
<1>2. CASE StoreWrites
  <2>1. CellNarrow
    <3>1. ~Writing'
      BY <1>2 DEF StoreWrites, Writing, TypeOK, Save
    <3> QED BY <1>2, <3>1, Narrows DEF StoreWrites, Land, NoLand
  <2> QED BY <1>2, <2>1 DEF StoreWrites, Cell!Settle, Cell!Narrow
<1>3. CASE StoreDefers
  <2>1. CellNarrow
    <3>1. ~Writing'
      BY <1>3 DEF StoreDefers, Writing, TypeOK, Save
    <3> QED BY <1>3, <3>1, Narrows DEF StoreDefers
  <2> QED BY <1>3, <2>1 DEF StoreDefers, Cell!Settle, Cell!Narrow
<1>4. CASE Verify
  <2>1. CellNarrow
    BY <1>4, Narrows DEF Verify, Writing
  <2>2. CASE Verified /\ mem' = saving.env.image.data /\ latched' = latched
    <3>1. May = {mem'}
      BY <1>4, <2>2, EnvelopeNone
         DEF Verify, Verified, May, Writing, ImageData, TypeOK, Save, Envelope
    <3>2. May' = May
      BY <1>4, <2>2 DEF Verify, Verified, May, Writing, ImageData
    <3> QED BY <1>4, <2>2, <3>1, <3>2
            DEF Verify, Verified, LockInv, Cell!Acknowledge
  <2>3. CASE mem' = mem /\ latched' = TRUE
    BY <1>4, <2>1, <2>3 DEF Verify, LockInv, Cell!Fail, Cell!Narrow
  <2> QED BY <1>4, <2>2, <2>3 DEF Verify
<1>5. CASE SaveRaises
  <2>1. CellNarrow
    BY <1>5, Narrows DEF SaveRaises, Land, NoLand, Writing
  <2> QED BY <1>5, <2>1 DEF SaveRaises, LockInv, Cell!Fail, Cell!Narrow
<1>6. CASE CoreStops
  BY <1>6 DEF CoreStops, May, Writing, ImageData
<1>7. CASE FinalWrite
  <2>1. CellNarrow
    BY <1>7, Narrows DEF FinalWrite, Land, NoLand
  <2> QED BY <1>7, <2>1 DEF FinalWrite, Cell!Settle, Cell!Narrow
<1>8. CASE Down
  <2>1. CellNarrow
    BY <1>8, Narrows DEF Down, Land, NoLand, Writing
  <2> QED BY <1>8, <2>1 DEF Down, Cell!Stop, Cell!Narrow
<1>9. ASSUME NEW part \in Parts, Damage(part)
      PROVE  Cell!Damage \/ UNCHANGED Cell!cell
  <2>1. CASE part \in {"current", "file"}
    BY <1>9, <2>1 DEF Damage, Cell!Damage, May, Writing, ImageData
  <2>2. CASE part \notin {"current", "file"}
    <3>1. CurrentValid' = CurrentValid
      BY <1>9, <2>2 DEF Damage
    <3>2. UNCHANGED <<file, saving, deferred, mem, up, latched>>
      BY <1>9 DEF Damage
    <3>3. May' = May
      BY <3>1, <3>2 DEF May, Writing, ImageData
    <3> QED BY <3>1, <3>2, <3>3
  <2> QED BY <2>1, <2>2
<1>10. CASE Start
  <2>1. saving = None /\ deferred = None /\ ~up /\ up' = TRUE
        /\ UNCHANGED <<saving, deferred>>
    BY <1>10 DEF Start, LockInv
  <2>2. ASSUME NoLand PROVE May' = May /\ UNCHANGED CurrentValid
    BY <2>1, <2>2 DEF NoLand, May, Writing, ImageData
  <2>3. CASE LoadNothing
    <3>1. mem' \in May /\ latched' = FALSE
      BY <2>3 DEF LoadNothing, Restored, LockInv, May, ImageData
    <3> QED BY <2>1, <2>2, <2>3, <3>1 DEF LoadNothing, Cell!Start
  <2>4. CASE LoadUnreadable
    <3>1. May' = {Empty} /\ CurrentValid'
      BY <2>1, <2>4 DEF LoadUnreadable, May, Writing, ImageData
    <3>2. ~CurrentValid /\ latched' = TRUE
      BY <2>4 DEF LoadUnreadable, Restored
    <3> QED BY <2>1, <3>1, <3>2 DEF TypeOK, Cell!Start, Cell!SetAside
  <2>5. CASE LoadCurrent
    <3>1. mem' \in May /\ latched' = FALSE
      BY <2>5, EnvelopeNone
         DEF LoadCurrent, Restored, May, ImageData, TypeOK, Envelope
    <3> QED BY <2>1, <2>2, <2>5, <3>1 DEF LoadCurrent, Cell!Start
  <2>6. CASE LoadPrevious
    <3>1. ~CurrentValid /\ latched' = TRUE
      BY <2>6 DEF LoadPrevious, Restored
    <3> QED BY <2>1, <2>2, <2>6, <3>1 DEF LoadPrevious, TypeOK, Cell!Start
  <2> QED BY <1>10, <2>3, <2>4, <2>5, <2>6 DEF Start
<1>11. CASE UNCHANGED vars
  BY <1>11 DEF vars, May, Writing, ImageData
<1> QED BY <1>1, <1>2, <1>3, <1>4, <1>5, <1>6, <1>7, <1>8, <1>9, <1>10, <1>11
        DEF Next

\* The store is the cell that the coordinator takes it for: an acknowledged
\* image is what an unlatched start finds, until a start sets it aside.
THEOREM StoreImplementsCell == Spec => CellSpec
<1>1. Init => Cell!Init
  <2>1. ASSUME Init PROVE May = {Empty}
    BY <2>1 DEF Init, May, CurrentValid, Writing, ImageData
  <2> QED BY <2>1 DEF Init, CurrentValid, Cell!Init
<1> QED BY <1>1, ChainAlways, CellSteps, PTL DEF ChainInv, Spec, CellSpec, Cell!Spec
=============================================================================
