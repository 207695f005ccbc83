--------------------------- MODULE BaselineStore ---------------------------
(***************************************************************************)
(* NuveBaselineStore (storage.py) between the runtime and Home Assistant's *)
(* Store.  A save wraps the runtime's image in an envelope with the first  *)
(* settings ever captured and a copy of the image it replaces, hands it to *)
(* Store, which may swallow a failure or defer the write, and reads the    *)
(* file back before it is acknowledged.  A load falls back on the copy     *)
(* when the envelope is damaged, and the runtime then latches its writes   *)
(* off.  Hashes, schema and shape checks are one fact: a part of the file  *)
(* is valid or damaged.                                                    *)
(*                                                                         *)
(* A definition that starts with Wrong is a plausible mistake in the next  *)
(* one.                                                                    *)
(***************************************************************************)
EXTENDS Naturals

CONSTANTS
  Settings,   \* settings snapshots with their revisions
  Commands,   \* commands a journal can name
  Parts,      \* what storage can lose: "current", "previous", "file"
  MaxSaves,   \* bound of a run
  None        \* "nothing here"

ASSUME StoreConstants ==
  /\ Parts \subseteq {"current", "previous", "file"}
  /\ MaxSaves \in Nat
ASSUME StoreNone == None \notin Settings \cup Commands

\* persistent_baselines: the image the runtime wants to survive
Data  == [settings : Settings \cup {None}, journal : Commands \cup {None}]
Empty == [settings |-> None, journal |-> None]

\* An envelope without its previous_good; "id" is the commit identity.
Image    == [id : Nat, data : Data, initial : Settings \cup {None}]
Envelope == [image : Image, prev : Image \cup {None}]
Save     == [env : Envelope, step : {"write", "verify"}]
ASSUME EnvelopeNone == None \notin Image /\ None \notin Envelope /\ None \notin Save

VARIABLES
  file,      \* the envelope in the file, or None if there is no file
  damaged,   \* the parts of it that are no longer as they were written
  deferred,  \* Store._data: an envelope Store has taken but not written
  lastGood,  \* _last_good_envelope
  saving,    \* the async_save under way, suspended in Store or before the read-back
  mem,       \* the runtime's durable state
  up, latched, recovered, stopping,
  saves,     \* saves begun
  before,    \* history: mem when the envelope in the file was written
  acked      \* history: the last image known to be in the file

disk    == <<file, damaged, deferred>>
history == <<before, acked>>
runtime == <<mem, up, latched, recovered>>
vars    == <<disk, runtime, lastGood, saving, stopping, saves, history>>

TypeOK ==
  /\ file \in Envelope \cup {None} /\ damaged \subseteq Parts
  /\ deferred \in Envelope \cup {None}
  /\ lastGood \in Image \cup {None}
  /\ saving \in Save \cup {None}
  /\ mem \in Data /\ acked \in Data /\ before \in Data \cup {None}
  /\ up \in BOOLEAN /\ latched \in BOOLEAN /\ recovered \in BOOLEAN
  /\ stopping \in BOOLEAN
  /\ saves \in Nat

-----------------------------------------------------------------------------
(* async_save *)

WrongInitial(data) == data.settings

\* The first capture is carried over from the last good envelope for ever.
Initial(data) ==
  IF lastGood # None /\ lastGood.initial # None
  THEN lastGood.initial ELSE data.settings

\* _build_storage_envelope
Build(data) ==
  [image |-> [id |-> saves, data |-> data, initial |-> Initial(data)],
   prev  |-> lastGood]

\* A captured baseline is never given up.
Candidate(data) == data.settings = None => mem.settings = None

\* async_persist_and_commit refuses once latched; its lock admits one save.
BeginSave(data) ==
  /\ up /\ ~latched /\ saving = None
  /\ saves < MaxSaves /\ saves' = saves + 1
  /\ Candidate(data)
  /\ saving' = [env |-> Build(data), step |-> "write"]
  /\ UNCHANGED <<disk, runtime, lastGood, stopping, history>>

Writing == saving # None /\ saving.step = "write"
Land(env) == file' = env /\ damaged' = {} /\ before' = mem
NoLand == UNCHANGED <<file, damaged, before>>

\* Store writes at once and logs a failure it does not report.
StoreWrites ==
  /\ Writing /\ ~stopping
  /\ Land(saving.env) \/ NoLand
  /\ saving' = [saving EXCEPT !.step = "verify"]
  /\ UNCHANGED <<deferred, runtime, lastGood, stopping, saves, acked>>

\* While Core stops, Store keeps the data for its final write.
StoreDefers ==
  /\ Writing /\ stopping
  /\ deferred' = saving.env
  /\ saving' = [saving EXCEPT !.step = "verify"]
  /\ UNCHANGED <<file, damaged, runtime, lastGood, stopping, saves, history>>

WrongVerified == deferred = None \* a return is taken for an acknowledgement

\* The envelope in the file is, byte for byte, the one that was handed over.
Verified ==
  /\ deferred = None
  /\ damaged = {} /\ file = saving.env

\* Read back: the runtime commits, or latches if the commit itself fails;
\* without the proof it latches.
Verify ==
  /\ saving # None /\ saving.step = "verify"
  /\ \/ /\ Verified
        /\ lastGood' = saving.env.image /\ acked' = saving.env.image.data
        /\ \/ mem' = saving.env.image.data /\ latched' = latched
           \/ mem' = mem /\ latched' = TRUE
     \/ /\ ~Verified
        /\ latched' = TRUE /\ UNCHANGED <<mem, lastGood, acked>>
  /\ saving' = None
  /\ UNCHANGED <<disk, up, recovered, stopping, saves, before>>

\* The save raises or its task is cancelled; a write under way lands or not.
SaveRaises ==
  /\ saving # None
  /\ NoLand \/ (Writing /\ ~stopping /\ Land(saving.env))
  /\ latched' = TRUE /\ saving' = None
  /\ UNCHANGED <<deferred, mem, up, recovered, lastGood, stopping, saves, acked>>

-----------------------------------------------------------------------------
(* Home Assistant *)

CoreStops ==
  /\ up /\ ~stopping /\ stopping' = TRUE
  /\ UNCHANGED <<disk, runtime, lastGood, saving, saves, history>>

\* Store's final write, which may fail too
FinalWrite ==
  /\ deferred # None /\ deferred' = None
  /\ Land(deferred) \/ NoLand
  /\ UNCHANGED <<runtime, lastGood, saving, stopping, saves, acked>>

\* The process dies or the entry is unloaded; a replace is atomic.
Down ==
  /\ up /\ up' = FALSE
  /\ NoLand \/ (Writing /\ ~stopping /\ Land(saving.env))
  /\ saving' = None /\ deferred' = None /\ stopping' = FALSE
  /\ UNCHANGED <<mem, latched, recovered, lastGood, saves, acked>>

\* The storage medium or somebody with an editor changes part of the file.
Damage(part) ==
  /\ file # None /\ part \notin damaged
  /\ damaged' = damaged \cup {part}
  /\ UNCHANGED <<file, deferred, runtime, lastGood, saving, stopping, saves, history>>

-----------------------------------------------------------------------------
(* async_load and async_restore_persistent_baselines, in a new set-up *)

\* validate_stored_baselines, of the envelope and of its recovery copy
CurrentValid == damaged \cap {"file", "current"} = {}
PreviousValid == file.prev # None /\ "previous" \notin damaged

Restored(data, good, isRecovered, fault) ==
  /\ mem' = data /\ lastGood' = good
  /\ recovered' = isRecovered /\ latched' = (isRecovered \/ fault)

\* There is no file: a first start.
LoadNothing ==
  /\ file = None
  /\ Restored(Empty, None, FALSE, FALSE)
  /\ NoLand /\ acked' = acked

\* Store cannot parse the file; it sets it aside and returns nothing.
LoadUnreadable ==
  /\ file # None /\ "file" \in damaged
  /\ Restored(Empty, None, FALSE, TRUE)
  /\ file' = None /\ damaged' = {} /\ before' = None /\ acked' = acked

WrongLoadCurrent == \* no predecessor for the next save
  /\ file # None /\ CurrentValid
  /\ Restored(file.image.data, None, FALSE, FALSE)
  /\ NoLand /\ acked' = file.image.data

LoadCurrent ==
  /\ file # None /\ CurrentValid
  /\ Restored(file.image.data, file.image, FALSE, FALSE)
  /\ NoLand /\ acked' = file.image.data

LoadPrevious ==
  /\ file # None /\ "file" \notin damaged /\ ~CurrentValid
  /\ IF PreviousValid
     THEN Restored(file.prev.data, file.prev, TRUE, FALSE)
     ELSE Restored(Empty, None, FALSE, TRUE)
  /\ NoLand /\ acked' = acked

Start ==
  /\ ~up /\ up' = TRUE
  /\ LoadNothing \/ LoadUnreadable \/ LoadCurrent \/ LoadPrevious
  /\ UNCHANGED <<deferred, saving, stopping, saves>>

-----------------------------------------------------------------------------
Init ==
  /\ file = None /\ damaged = {} /\ deferred = None
  /\ lastGood = None /\ saving = None /\ mem = Empty
  /\ up = FALSE /\ latched = FALSE /\ recovered = FALSE /\ stopping = FALSE
  /\ saves = 0 /\ before = None /\ acked = Empty

Next ==
  \/ \E data \in Data : BeginSave(data)
  \/ StoreWrites \/ StoreDefers \/ Verify \/ SaveRaises
  \/ CoreStops \/ FinalWrite \/ Down
  \/ \E part \in Parts : Damage(part)
  \/ Start

Spec == Init /\ [][Next]_vars

-----------------------------------------------------------------------------
(* Properties *)

ImageData(image) == IF image = None THEN Empty ELSE image.data
Initially(env) == IF env = None THEN None ELSE env.image.initial

\* The copy inside the file is what the runtime worked on before the save
\* that wrote the file: over failed and deferred saves, restarts and
\* recoveries, a fallback is one transaction old and never more.
PreviousIsPredecessor == file # None => ImageData(file.prev) = before

\* The first capture in the file is never replaced by another, and settings
\* are never stored without one (a load would reject them).
InitialCaptureFixed ==
  [][/\ file # None /\ file' # None /\ Initially(file) # None
          => Initially(file') = Initially(file)
     /\ file' # None /\ file'.image.data.settings # None
          => Initially(file') # None]_vars

\* Only a loaded, unlatched runtime saves; what Store still holds belongs to
\* a save that is not yet read back or that latched; where there is no file
\* nothing is damaged.
LockInv ==
  /\ file = None => damaged = {}
  /\ saving # None => up /\ ~latched
  /\ deferred # None =>
       /\ up
       /\ \/ latched
          \/ saving # None /\ saving.step = "verify" /\ saving.env = deferred

\* Whatever may reach the file carries the runtime's state as its copy.
PredecessorInv ==
  /\ up /\ ~latched => ImageData(lastGood) = mem
  /\ saving # None => ImageData(saving.env.prev) = mem
  /\ deferred # None => ImageData(deferred.prev) = mem

ChainInv == LockInv /\ PredecessorInv /\ PreviousIsPredecessor

\* The first capture reaches every envelope that may reach the file.
Carries(env) ==
  /\ Initially(file) # None => Initially(env) = Initially(file)
  /\ env.image.data.settings # None => Initially(env) # None
CaptureInv ==
  /\ file # None => Carries(file)
  /\ saving # None => Carries(saving.env)
  /\ deferred # None => Carries(deferred)
  /\ up /\ ~latched /\ saving = None /\ Initially(file) # None =>
       lastGood # None /\ lastGood.initial = Initially(file)

\* What an unlatched start could find in the file or in a write under way
May ==
  (IF CurrentValid
   THEN {ImageData(IF file = None THEN None ELSE file.image)} ELSE {})
  \cup (IF Writing THEN {saving.env.image.data} ELSE {})
  \cup (IF deferred # None THEN {deferred.image.data} ELSE {})

\* Acknowledged means loadable: swallowed, deferred and failed writes,
\* crashes in any of them and damage never let the runtime work unlatched on
\* anything but the last acknowledged image or one in doubt.
Cell == INSTANCE DurableCell WITH
          Images <- Data, First <- Empty, may <- May,
          intact <- CurrentValid
CellSpec == Cell!Spec

\* What runtime.py says of a recovery: as long as a journal may have been
\* lost, writes stay off.
LostJournalLatches ==
  up /\ ~latched /\ acked.journal # None => mem.journal = acked.journal
=============================================================================
