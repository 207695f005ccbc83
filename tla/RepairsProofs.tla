--------------------------- MODULE RepairsProofs ---------------------------
(***************************************************************************)
(* What is proved of Repairs, for every set of kinds, every grace and any  *)
(* number of managers: types, that the registry mirrors what the manager   *)
(* saw, that a graced issue needs a whole grace, and that an unloaded      *)
(* entry raises nothing.                                                   *)
(*                                                                         *)
(* StatusInv says what _status is worth: the registry has what is marked   *)
(* as raised and does not have what is marked as clear, whatever an earlier*)
(* manager left.  TimerInv says what a running timer is worth: every       *)
(* refresh since it was armed saw its condition.                           *)
(***************************************************************************)
EXTENDS Repairs, TLAPS

StatusInv ==
  phase # "off" =>
    /\ ~removed => /\ \A k \in Kinds : status[k] = "raised" => k \in issues
                   /\ seen \cap Direct \subseteq issues
    /\ \A k \in Kinds : status[k] = "clear" => k \notin issues
    /\ issues \subseteq seen

TimerInv ==
  /\ phase = "off" => handles = {}
  /\ handles \subseteq seen
  /\ \A k \in handles : timer[k] <= held[k]

Inv == TypeOK /\ StatusInv /\ TimerInv

\* After a refresh the registry shows what was seen, and its marks are right.
LEMMA RefreshStatus ==
  ASSUME TypeOK, NEW c \in SUBSET Kinds,
         NEW s \in [Kinds -> {"unset", "raised", "clear"}],
         NEW h \in SUBSET Graced,
         Refresh(c, s, h),
         \A k \in Kinds : s[k] = "clear" => k \notin issues,
         ~removed => \A k \in Kinds : s[k] = "raised" => k \in issues
  PROVE  /\ ~removed => /\ \A k \in Kinds : status'[k] = "raised" => k \in issues'
                        /\ seen' \cap Direct \subseteq issues'
         /\ \A k \in Kinds : status'[k] = "clear" => k \notin issues'
         /\ issues' \subseteq seen'
<1>1. \A k \in Kinds : k \in issues' <=>
        (k \in issues \/ k \in Raise(c, s)) /\ (k \in c \/ s[k] = "clear")
  BY DEF Refresh, Cleared
<1>2. \A k \in Kinds : status'[k] = IF k \notin c THEN "clear"
                                    ELSE IF k \in Raise(c, s) THEN "raised"
                                    ELSE s[k]
  BY DEF Refresh
<1>3. issues' \subseteq Kinds /\ seen' = c
  BY DEF Refresh, TypeOK, Raise
<1>4. Raise(c, s) \subseteq c /\ c \cap Direct \subseteq Kinds
  BY DEF Raise
<1>5. \A k \in c \cap Direct : k \in Raise(c, s) \/ s[k] = "raised"
  BY DEF Raise
<1> QED BY <1>1, <1>2, <1>3, <1>4, <1>5

\* A refresh keeps the timers of what is still there; those it arms begin.
LEMMA RefreshTimers ==
  ASSUME TypeOK, NEW c \in SUBSET Kinds,
         NEW s \in [Kinds -> {"unset", "raised", "clear"}],
         NEW h \in SUBSET Graced,
         Refresh(c, s, h),
         h \subseteq seen, \A k \in h : timer[k] <= held[k]
  PROVE  handles' \subseteq seen' /\ \A k \in handles' : timer'[k] <= held'[k]
<1> DEFINE arm == {k \in c \cap Graced : s[k] # "raised" /\ k \notin h}
<1>1. /\ handles' = (h \cap c) \cup arm /\ seen' = c
      /\ \A k \in Kinds : timer'[k] = IF k \in arm THEN 0 ELSE timer[k]
      /\ \A k \in Kinds : held'[k] = IF k \in c \cap seen THEN held[k] ELSE 0
  BY DEF Refresh, Kept
<1>2. ASSUME NEW k \in arm PROVE timer'[k] <= held'[k]
  BY <1>1 DEF TypeOK, Kinds
<1>3. ASSUME NEW k \in h \cap c, k \notin arm PROVE timer'[k] <= held'[k]
  BY <1>1, <1>3
<1> QED BY <1>1, <1>2, <1>3

LEMMA RefreshTypes ==
  ASSUME TypeOK, NEW c \in SUBSET Kinds,
         NEW s \in [Kinds -> {"unset", "raised", "clear"}],
         NEW h \in SUBSET Graced,
         Refresh(c, s, h)
  PROVE  /\ issues' \subseteq Kinds /\ handles' \subseteq Graced
         /\ status' \in [Kinds -> {"unset", "raised", "clear"}]
         /\ timer' \in [Kinds -> 0..Grace] /\ held' \in [Kinds -> 0..Grace]
         /\ seen' \subseteq Kinds
  BY ConstantsAssumption DEF Refresh, TypeOK, Raise, Kept

LEMMA InvInit == Init => Inv
<1> SUFFICES ASSUME Init PROVE Inv
  OBVIOUS
<1>1. [k \in Kinds |-> 0] \in [Kinds -> 0..Grace] /\ 0 \in 0..MaxStarts
  BY ConstantsAssumption
<1>2. TypeOK
  BY <1>1 DEF Init, TypeOK
<1> QED BY <1>2 DEF Init, Inv, StatusInv, TimerInv

LEMMA NotifiedInv == ASSUME Inv, NEW c \in SUBSET Kinds, Notified(c) PROVE Inv'
<1>1. CASE phase = "on"
  <2>1. /\ Refresh(c, status, handles) /\ phase' = phase
        /\ conditions' = c /\ UNCHANGED <<refused, removed, starts>>
    BY <1>1 DEF Notified
  <2>2. /\ status \in [Kinds -> {"unset", "raised", "clear"}]
        /\ handles \in SUBSET Graced
    BY DEF Inv, TypeOK
  <2>3. TypeOK'
    BY <2>1, <2>2, RefreshTypes DEF Inv, TypeOK
  <2>4. StatusInv'
    BY <1>1, <2>1, <2>2, RefreshStatus DEF Inv, StatusInv
  <2>5. TimerInv'
    BY <1>1, <2>1, <2>2, RefreshTimers DEF Inv, TimerInv
  <2> QED BY <2>3, <2>4, <2>5 DEF Inv
<1>2. CASE phase # "on"
  BY <1>2 DEF Notified, Inv, TypeOK, StatusInv, TimerInv, manager
<1> QED BY <1>1, <1>2

LEMMA StartInv == ASSUME Inv, Start PROVE Inv'
<1> DEFINE s == [k \in Kinds |-> "unset"]
<1>1. /\ Refresh(conditions, s, {}) /\ phase' = "on" /\ ~removed
      /\ starts' \in 0..MaxStarts /\ UNCHANGED <<conditions, refused, removed>>
  BY ConstantsAssumption DEF Start, Inv, TypeOK
<1>2. /\ s \in [Kinds -> {"unset", "raised", "clear"}]
      /\ conditions \in SUBSET Kinds /\ {} \in SUBSET Graced
      /\ \A k \in Kinds : s[k] = "unset"
  BY DEF Inv, TypeOK
<1> HIDE DEF s
<1>3. TypeOK'
  BY <1>1, <1>2, RefreshTypes DEF Inv, TypeOK
<1>4. StatusInv'
  BY <1>1, <1>2, RefreshStatus DEF Inv, StatusInv
<1>5. TimerInv'
  BY <1>1, <1>2, RefreshTimers DEF Inv, TimerInv
<1> QED BY <1>3, <1>4, <1>5 DEF Inv

LEMMA TickInv == ASSUME Inv, Tick PROVE Inv'
<1>1. /\ timer \in [Kinds -> 0..Grace] /\ held \in [Kinds -> 0..Grace]
      /\ handles \subseteq Kinds /\ Grace \in Nat
  BY ConstantsAssumption DEF Inv, TypeOK, Kinds
<1>2. \A k \in Kinds :
        /\ timer'[k] = IF k \in handles THEN timer[k] + 1 ELSE timer[k]
        /\ held'[k] = IF k \in seen /\ held[k] < Grace THEN held[k] + 1
                                                        ELSE held[k]
  BY DEF Tick
<1>3. timer' \in [Kinds -> 0..Grace] /\ held' \in [Kinds -> 0..Grace]
  BY <1>1 DEF Tick
<1>4. \A k \in handles : timer[k] < Grace
  BY DEF Tick
<1>5. \A k \in handles : timer'[k] <= held'[k]
  BY <1>1, <1>2, <1>4 DEF Inv, TimerInv
<1>6. TimerInv'
  BY <1>5 DEF Tick, Inv, TimerInv
<1> QED BY <1>3, <1>6 DEF Tick, Inv, TypeOK, StatusInv

LEMMA TimerFiresInv == ASSUME Inv, NEW k \in Graced, TimerFires(k) PROVE Inv'
<1>1. k \in Kinds /\ k \in handles /\ k \in seen /\ phase # "off"
  BY DEF TimerFires, Inv, TimerInv, Kinds
<1>2. CASE StillThere(k)
  <2>1. /\ issues' = issues \cup {k}
        /\ \A j \in Kinds : status'[j] = IF j = k THEN "raised" ELSE status[j]
        /\ status' \in [Kinds -> {"unset", "raised", "clear"}]
    BY <1>1, <1>2 DEF TimerFires, Inv, TypeOK
  <2>2. StatusInv'
    BY <1>1, <2>1 DEF TimerFires, Inv, StatusInv
  <2> QED BY <1>1, <2>1, <2>2 DEF TimerFires, Inv, TypeOK, TimerInv
<1>3. CASE ~StillThere(k)
  BY <1>3 DEF TimerFires, Inv, TypeOK, StatusInv, TimerInv
<1> QED BY <1>2, <1>3

LEMMA InvStep == Inv /\ [Next]_vars => Inv'
<1> SUFFICES ASSUME Inv, [Next]_vars PROVE Inv'
  OBVIOUS
<1>1. ASSUME NEW c \in SUBSET Kinds, Notified(c) PROVE Inv'
  BY <1>1, NotifiedInv
<1>2. CASE Unnoticed
  BY <1>2, ConstantsAssumption
  DEF Unnoticed, Inv, TypeOK, StatusInv, TimerInv, manager, Kinds
<1>3. CASE Tick
  BY <1>3, TickInv
<1>4. ASSUME NEW k \in Graced, TimerFires(k) PROVE Inv'
  BY <1>4, TimerFiresInv
<1>5. CASE Start
  BY <1>5, StartInv
<1>6. CASE RuntimeStops
  BY <1>6 DEF RuntimeStops, Inv, TypeOK, StatusInv, TimerInv, manager
<1>7. CASE Shutdown
  BY <1>7, ConstantsAssumption
  DEF Shutdown, Left, Inv, TypeOK, StatusInv, TimerInv
<1>8. CASE UnloadRefused
  BY <1>8 DEF UnloadRefused, Inv, TypeOK, StatusInv, TimerInv, manager
<1>9. CASE Remove
  BY <1>9 DEF Remove, Inv, TypeOK, StatusInv, TimerInv, manager
<1>10. CASE UNCHANGED vars
  BY <1>10 DEF vars, Inv, TypeOK, StatusInv, TimerInv, manager
<1> QED BY <1>1, <1>2, <1>3, <1>4, <1>5, <1>6, <1>7, <1>8, <1>9, <1>10 DEF Next

LEMMA InvHolds == Spec => []Inv
  BY InvInit, InvStep, PTL DEF Spec

-----------------------------------------------------------------------------

\* Every variable keeps its type; in particular no timer of a manager outruns
\* its grace.
THEOREM RepairsTypeCorrect == Spec => []TypeOK
<1>1. Inv => TypeOK
  BY DEF Inv
<1> QED BY <1>1, InvHolds, PTL

\* While a manager listens, the registry shows nothing that its last refresh did
\* not see, and every condition that needs no grace.
THEOREM RegistryMirrors == Spec => []IssuesMirrorConditions
<1>1. Inv => IssuesMirrorConditions
  BY DEF Inv, StatusInv, IssuesMirrorConditions
<1> QED BY <1>1, InvHolds, PTL

\* A graced issue is raised only after a whole grace in which every refresh saw
\* its condition, and only if it is there.
THEOREM RaisedWithReason == Spec => RaisedAfterGrace
<1>1. Inv /\ [Next]_vars =>
        [\A k \in Graced : k \in issues' \ issues =>
           held[k] = Grace /\ k \in conditions]_vars
  <2> SUFFICES ASSUME Inv, Next, NEW k \in Graced, k \in issues' \ issues
               PROVE  held[k] = Grace /\ k \in conditions
    OBVIOUS
  <2>1. ASSUME NEW c \in SUBSET Kinds, Notified(c) PROVE FALSE
    BY <2>1, ConstantsAssumption DEF Notified, Refresh, Raise
  <2>2. ASSUME NEW j \in Graced, TimerFires(j)
        PROVE  held[k] = Grace /\ k \in conditions
    <3>1. k = j /\ k \in conditions /\ timer[k] = Grace /\ k \in handles
      BY <2>2 DEF TimerFires, StillThere
    <3>2. held[k] \in 0..Grace /\ Grace <= held[k] /\ Grace \in Nat
      BY <3>1, ConstantsAssumption DEF Inv, TypeOK, TimerInv, Kinds
    <3> QED BY <3>1, <3>2
  <2>3. ASSUME Start PROVE FALSE
    BY <2>3, ConstantsAssumption DEF Start, Refresh, Raise
  <2> QED BY <2>1, <2>2, <2>3 DEF Next, Unnoticed, Tick, RuntimeStops, Shutdown,
                                UnloadRefused, Remove
<1> QED BY <1>1, InvHolds, PTL DEF Spec, RaisedAfterGrace

\* An entry that is not loaded raises nothing: no timer survives the shutdown.
THEOREM UnloadedIsSilent == Spec => NothingRaisedUnloaded
<1>1. Inv /\ [Next]_vars =>
        [phase = "off" /\ phase' = "off" => issues' \subseteq issues]_vars
  BY DEF Inv, TimerInv, Next, Notified, Unnoticed, Tick, TimerFires, Start,
         RuntimeStops, Shutdown, UnloadRefused, Remove
<1> QED BY <1>1, InvHolds, PTL DEF Spec, NothingRaisedUnloaded

=============================================================================
