---------------------------- MODULE DurableCell ----------------------------
(***************************************************************************)
(* What the runtime may rely on from its private storage, whatever the     *)
(* envelope, the recovery copy and Home Assistant's Store do: one cell     *)
(* that holds an image.  A start without a latched fault finds the last    *)
(* image acknowledged or one whose write was never answered; anything else *)
(* latches.  Only a start that finds the cell damaged may give it up: it   *)
(* latches, but the starts after it know nothing of what was lost.         *)
(* Coordinator uses the rest of its variable "disk".                       *)
(***************************************************************************)
CONSTANTS Images, First

VARIABLES
  up,       \* the runtime is loaded
  mem,      \* the image the runtime works on
  latched,  \* persistence_fault_latched
  may,      \* the images an unlatched start could find
  intact    \* nothing outside the program has touched the cell
cell == <<up, mem, latched, may, intact>>

Init ==
  /\ up = FALSE /\ mem = First /\ latched = FALSE
  /\ may = {First} /\ intact = TRUE

Attempt(image) ==
  /\ up /\ ~latched
  /\ may' = may \cup {image}
  /\ UNCHANGED <<up, mem, latched, intact>>

\* Possibilities only go away; without interference one is left.
Narrow ==
  /\ may' \subseteq may
  /\ intact => intact'
  /\ intact' => may' # {}

\* A write that is under way reaches the cell or is known not to.
Settle == Narrow /\ UNCHANGED <<up, mem, latched>>

\* The runtime takes over an image only when a start would find that one.
Acknowledge ==
  /\ up /\ ~latched /\ intact
  /\ may = {mem'}
  /\ UNCHANGED <<up, latched, may, intact>>

Fail ==
  /\ up /\ latched' = TRUE
  /\ Narrow /\ UNCHANGED <<up, mem>>

Damage ==
  /\ intact' = FALSE /\ may' \subseteq may
  /\ UNCHANGED <<up, mem, latched>>

Stop ==
  /\ up /\ up' = FALSE
  /\ Narrow /\ UNCHANGED <<mem, latched>>

\* The cell is set aside, and the next start is a first one.
SetAside == may' = {First} /\ intact' = TRUE

Start ==
  /\ ~up /\ up' = TRUE
  /\ \/ mem' \in may /\ latched' = FALSE /\ UNCHANGED <<may, intact>>
     \/ /\ ~intact /\ mem' \in Images /\ latched' = TRUE
        /\ UNCHANGED <<may, intact>> \/ SetAside

Next ==
  \/ \E image \in Images : Attempt(image)
  \/ Settle \/ Acknowledge \/ Fail \/ Damage \/ Stop \/ Start

Spec == Init /\ [][Next]_cell
=============================================================================
