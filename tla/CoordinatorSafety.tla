------------------------- MODULE CoordinatorSafety -------------------------
(***************************************************************************)
(* Theorems about Coordinator, for all values of its constants: its types; *)
(* then what follows from CommandInv, which is inductive given the types;  *)
(* then the queued body, by PayloadInv.                                    *)
(***************************************************************************)
EXTENDS CoordinatorInvariants, TLAPS


-----------------------------------------------------------------------------
(* Types *)

(* Whoever delivers a command has one, and every command has its history.  *)
Linked ==
  /\ txn # None /\ txn.op \in {"journal", "send", "boundary"} => pending # None
  /\ pending # None => truth # None
  /\ txn # None /\ txn.op = "monitor" /\ txn.shadow.pending # None => pending # None

TypeInv == TypeOK /\ Linked

(* A restricted function has the type of the function.                     *)
LEMMA PartType ==
  ASSUME NEW T, NEW S \in SUBSET T, NEW f \in [T -> Values]
  PROVE  Part(f, S) \in [S -> Values] /\ Part(f, S) \in Partial(T)
  BY DEF Part, Partial

(* Overlaying keeps the domain, and the values are values.                 *)
LEMMA OverlayType ==
  ASSUME NEW T, NEW f \in [T -> Values], NEW U, NEW g \in Partial(U)
  PROVE  Overlay(f, g) \in [T -> Values]
  BY DEF Overlay, Partial

LEMMA OverlayPartial ==
  ASSUME NEW T, NEW f \in Partial(T), NEW U, NEW g \in Partial(U)
  PROVE  Overlay(f, g) \in Partial(T)
<1>1. PICK S \in SUBSET T : f \in [S -> Values]
  BY DEF Partial
<1>2. Overlay(f, g) \in [S -> Values]
  BY <1>1, OverlayType
<1> QED  BY <1>2 DEF Partial

(* The first instant is one.                                               *)
LEMMA EpochType == Epoch \in Nat
  BY ConstantsAssumption DEF Epoch

(* A stamp of the thermostat is a natural number from then on.             *)
LEMMA StampType ==
  ASSUME NEW t \in Nat, Epoch =< t
  PROVE  /\ Second(t) \in Nat /\ Second(t) =< t /\ DeviceStamp(t) \in Nat
         /\ DeviceStamp(t) =< t + ClockOffset
<1>1. \A n \in Nat : n % TicksPerSecond \in 0 .. TicksPerSecond - 1
  BY ConstantsAssumption
<1>2. \A n \in Nat : n % TicksPerSecond =< n
  BY ConstantsAssumption
<1>3. t + ClockOffset \in Nat
  BY ConstantsAssumption DEF Epoch
<1> QED  BY <1>1, <1>2, <1>3, ConstantsAssumption DEF Second, DeviceStamp

(* What a report or an upload becomes when newer things happen.            *)
LEMMA AgedType ==
  /\ monitor \in Report \cup {None} => Aged(monitor) \in Report \cup {None}
  /\ upload \in Upload \cup {None} => Aged(upload) \in Upload \cup {None}
  BY DEF Aged, Report, Upload

(* Answering a caller gives it an outcome.                                 *)
LEMMA AnswerType ==
  ASSUME caller \in [Callers -> Waiting \cup Outcomes], NEW result \in Outcomes,
         Answer(result)
  PROVE  caller' \in [Callers -> Waiting \cup Outcomes]
  BY DEF Answer

LEMMA UndoneType ==
  ASSUME NEW result \in Outcomes
  PROVE  Undone(result) \in Outcomes
  BY DEF Undone, Outcomes

LEMMA WriteAheadType ==
  ASSUME TypeOK, pending # None, NEW at \in Times
  PROVE  /\ WriteAhead(at) \in Journal
         /\ [Persisted EXCEPT !.uncertain = WriteAhead(at)] \in Image
  BY DEF TypeOK, WriteAhead, Journal, Command, Persisted, Image

(* The values a report shows, in part, are values of monitor fields.       *)
LEMMA ShownType ==
  ASSUME NEW r \in Report, NEW S
  PROVE  Part(r.vals, Merged(r) \cap S) \in Partial(MonitorFields)
<1>1. PICK T \in SUBSET MonitorFields : r.vals \in [T -> Values]
  BY DEF Report, Partial
<1>2. Merged(r) \in SUBSET T
  BY <1>1 DEF Merged
<1>3. Merged(r) \cap S \in SUBSET T /\ Merged(r) \cap S \in SUBSET MonitorFields
  BY <1>2
<1>4. Part(r.vals, Merged(r) \cap S) \in [Merged(r) \cap S -> Values]
  BY <1>1, <1>3, PartType
<1> QED  BY <1>3, <1>4 DEF Partial

(* A command that is rendered anew is a command.                           *)
LEMMA RenderedType ==
  ASSUME NEW p \in Command, NEW r \in Report,
         NEW S, NEW news, news = Part(r.vals, Merged(r) \cap S)
  PROVE  Rendered(p, news) \in Command
<1>1. news \in Partial(MonitorFields) /\ p.payload \in Partial(Fields)
  BY ShownType DEF Command
<1>2. Overlay(p.payload, news) \in Partial(Fields)
  BY <1>1, OverlayPartial
<1> QED  BY <1>2 DEF Command, Rendered

(* The shadow copy of a monitor report is a state of the runtime.          *)
LEMMA ShadowType ==
  ASSUME TypeOK, NEW r \in Report
  PROVE  ShadowOf(r) \in Shadow
<1>1. r.vals \in Partial(MonitorFields) /\ r.stamp \in Nat /\ r.full \in BOOLEAN
      /\ r.schedule \in {"none", "active", "absent"}
  BY DEF Report
<1>2. Part(r.vals, Merged(r)) \in Partial(MonitorFields)
  <2>1. Merged(r) = Merged(r) \cap Merged(r)
    OBVIOUS
  <2> QED  BY ShownType, <2>1
<1>4. Overlay(baseline, Part(r.vals, Merged(r))) \in [Fields -> Values]
  BY <1>2, OverlayType DEF TypeOK
<1>5. Overlay(live.vals, r.vals) \in [MonitorFields -> Values]
  BY <1>1, OverlayType DEF TypeOK, Live
<1> DEFINE moved == {f \in Merged(r) : r.vals[f] # baseline[f]}
<1>7. (IF pending = None THEN None ELSE Rendered(pending, Part(r.vals, moved)))
         \in Command \cup {None}
  <2>1. moved = Merged(r) \cap moved
    OBVIOUS
  <2> HIDE DEF moved
  <2> QED  BY <2>1, RenderedType DEF TypeOK
<1>8. Reconciled(r) \in {"open", "confirmed", "state_changed"}
  BY DEF Reconciled
<1>9. [vals |-> Overlay(live.vals, r.vals), sample |-> r.stamp,
       schedule |-> IF r.schedule = "absent" THEN live.schedule ELSE r.schedule] \in Live
  BY <1>1, <1>5 DEF Live, Times, TypeOK
<1>10. (authority \/ r.full) \in BOOLEAN
  BY <1>1 DEF TypeOK
<1> HIDE DEF moved
<1>11. ShadowOf(r).pending \in Command \cup {None}
  BY <1>7 DEF ShadowOf, moved, TypeOK
<1> QED
  BY <1>4, <1>8, <1>9, <1>10, <1>11 DEF ShadowOf, Shadow, TypeOK

(* So is what an upload leads to.                                          *)
LEMMA UploadType ==
  ASSUME TypeOK, NEW u \in Upload
  PROVE  /\ AfterUpload(u) \in Image
         /\ Overlay(live.vals, u.vals) \in [MonitorFields -> Values]
         /\ UploadVerdict(u) \in Outcomes \cup {"open"}
<1>1. u.vals \in Partial(Fields)
  BY DEF Upload
<1>2. Overlay(baseline, u.vals) \in [Fields -> Values]
  BY <1>1, OverlayType DEF TypeOK
<1>3. Overlay(live.vals, u.vals) \in [MonitorFields -> Values]
  BY <1>1, OverlayType DEF TypeOK, Live
<1>4. Owned(u) \in {"open", "confirmed", "state_changed"}
  BY DEF Owned
<1>5. UploadVerdict(u) \in Outcomes \cup {"open"}
  BY <1>4 DEF UploadVerdict, Outcomes
<1> QED  BY <1>2, <1>3, <1>5 DEF AfterUpload, Image, TypeOK

(* A whole-snapshot body has values in the fields of its family.           *)
LEMMA PayloadType ==
  ASSUME NEW base \in [Fields -> Values], NEW f \in Fields, NEW v \in Values
  PROVE  CommandPayload(base, f, v) \in Partial(Fields)
<1>1. FieldsOf(KindOf(f)) \in SUBSET Fields
  BY DEF FieldsOf, KindOf, Fields, SettingsFields, MonitorFields
<1>2. Part(base, FieldsOf(KindOf(f))) \in Partial(Fields)
  BY <1>1, PartType
<1>3. [x \in {f} |-> v] \in Partial(Fields)
  <2>1. [x \in {f} |-> v] \in [{f} -> Values] /\ {f} \in SUBSET Fields
    OBVIOUS
  <2> QED  BY <2>1 DEF Partial
<1> QED  BY <1>2, <1>3, OverlayPartial DEF CommandPayload

(* What a write may leave on disk is an image.                             *)
LEMMA ImagesType ==
  ASSUME TypeInv, NEW image \in Images
  PROVE  image \in Image
<1>1. CASE image = disk
  BY <1>1 DEF TypeInv, TypeOK
<1>2. CASE Writing /\ image = Candidate
  <2>1. txn \in Transaction /\ txn # None /\ txn.op # "send"
    BY <1>2 DEF TypeInv, TypeOK, Writing
  <2>2. CASE txn.op = "journal"
    <3>1. pending # None /\ NoTime \in Times
      BY <2>1, <2>2 DEF TypeInv, Linked, Times, NoTime
    <3> QED  BY <1>2, <2>2, <3>1, WriteAheadType DEF Candidate, TypeInv
  <2>3. CASE txn.op = "boundary"
    <3>1. pending # None /\ txn.at \in Times
      BY <2>1, <2>3 DEF TypeInv, Linked, Times, Transaction
    <3> QED  BY <1>2, <2>3, <3>1, WriteAheadType DEF Candidate, TypeInv
  <2>4. CASE txn.op = "monitor"
    <3>1. txn.shadow \in Shadow
      BY <2>1, <2>4 DEF Transaction
    <3> QED  BY <1>2, <2>4, <3>1 DEF Candidate, Shadow, Image
  <2>5. CASE txn.op = "upload"
    <3>1. txn.report \in Upload
      BY <2>1, <2>5 DEF Transaction
    <3> QED  BY <1>2, <2>5, <3>1, UploadType DEF Candidate, TypeInv
  <2> QED  BY <2>1, <2>2, <2>3, <2>4, <2>5 DEF Transaction
<1> QED  BY <1>1, <1>2 DEF Images

-----------------------------------------------------------------------------
(* Type correctness *)

(* The initial state.                                                      *)
LEMMA TypeInit == Init => TypeInv
<1> SUFFICES ASSUME Init PROVE TypeInv
  OBVIOUS
<1>1. dev \in [Fields -> Values]
  BY DEF Init
<1>2. Part(dev, MonitorFields) \in [MonitorFields -> Values]
  BY <1>1, PartType DEF Fields
<1>3. live \in Live /\ disk \in Image
  BY <1>1, <1>2 DEF Init, Live, Times, Image, Persisted
<1>4. now \in Nat /\ Epoch =< now
  BY EpochType DEF Init
<1> QED  BY <1>1, <1>3, <1>4 DEF Init, TypeInv, TypeOK, Linked, Waiting, Outcomes

(* Transactions: the journal, the body and the boundary.                   *)
LEMMA TypeDelivery ==
  ASSUME TypeInv, NEW cancelled \in BOOLEAN, NEW arrives \in BOOLEAN, NEW raises \in BOOLEAN,
         \/ JournalCommit(cancelled) \/ BoundaryCommit(cancelled)
         \/ SendBody(arrives, raises)
  PROVE  TypeInv'
<1> USE NoneAssumption DEF TypeInv, TypeOK, Linked, device, network, gates, durable, failures
<1>1. CASE JournalCommit(cancelled)
  <2>1. pending \in Command /\ truth \in History /\ NoTime \in Times
    BY <1>1 DEF JournalCommit, Times, NoTime
  <2>2. uncertain' \in Journal /\ disk' \in Image
    BY <1>1, <2>1, WriteAheadType DEF JournalCommit
  <2>3. /\ pending' \in Command \cup {None} /\ truth' \in History
        /\ txn' # None => pending' \in Command
    BY <1>1, <2>1 DEF JournalCommit, Complete, Command, History
  <2>4. caller' \in [Callers -> Waiting \cup Outcomes]
    BY <1>1, AnswerType DEF JournalCommit, Complete, NoAnswer, Outcomes
  <2>5. monitor' \in Report \cup {None} /\ upload' \in Upload \cup {None}
    BY <1>1, AgedType DEF JournalCommit
  <2>6. txn' \in Transaction \cup {None}
    BY <1>1 DEF JournalCommit, Transaction
  <2> QED  BY <1>1, <2>1, <2>2, <2>3, <2>4, <2>5, <2>6 DEF JournalCommit, Complete
<1>2. CASE BoundaryCommit(cancelled)
  <2>1. pending \in Command /\ truth \in History /\ txn.at \in Times
    BY <1>2 DEF BoundaryCommit, Times, Transaction
  <2>2. uncertain' \in Journal /\ disk' \in Image
    BY <1>2, <2>1, WriteAheadType DEF BoundaryCommit
  <2>3. pending' \in Command \cup {None}
    BY <1>2, <2>1 DEF BoundaryCommit, Complete, Command
  <2>4. caller' \in [Callers -> Waiting \cup Outcomes]
    BY <1>2, AnswerType DEF BoundaryCommit, Complete, NoAnswer, Outcomes
  <2> QED  BY <1>2, <2>1, <2>2, <2>3, <2>4 DEF BoundaryCommit, Complete
<1>3. CASE SendBody(arrives, raises)
  <2>1. pending \in Command /\ truth \in History
    BY <1>3 DEF SendBody
  <2>2. body' \in Partial(Fields) \cup {None}
    BY <1>3, <2>1 DEF SendBody, Command
  <2>3. truth' \in History
    BY <1>3, <2>1 DEF SendBody, History
  <2>4. monitor' \in Report \cup {None} /\ upload' \in Upload \cup {None}
    BY <1>3, AgedType DEF SendBody
  <2>5. txn' \in Transaction \cup {None}
    BY <1>3 DEF SendBody, AfterSend, Transaction
  <2>6. pending' \in Command \cup {None} /\ caller' \in [Callers -> Waiting \cup Outcomes]
    BY <1>3, <2>1, AnswerType DEF SendBody, Complete, Outcomes
  <2>7. Linked'
    BY <1>3, <2>1, <2>3 DEF SendBody, AfterSend, Complete
  <2> QED  BY <1>3, <2>1, <2>2, <2>3, <2>4, <2>5, <2>6, <2>7 DEF SendBody
<1> QED  BY <1>1, <1>2, <1>3

(* Commits of monitor reports and uploads, and failed writes.              *)
LEMMA TypeCommit ==
  ASSUME TypeInv, MonitorCommit \/ UploadCommit \/ PersistFails
  PROVE  TypeInv'
<1> USE NoneAssumption DEF TypeInv, TypeOK, Linked, device, network, gates, durable, failures
<1>1. CASE MonitorCommit
  <2>1. txn.shadow \in Shadow
    BY <1>1 DEF MonitorCommit, Transaction
  <2>2. /\ live' \in Live /\ baseline' \in [Fields -> Values]
        /\ authority' \in BOOLEAN /\ pending' \in Command \cup {None}
        /\ uncertain' \in Journal \cup {None} /\ disk' \in Image
    BY <1>1, <2>1 DEF MonitorCommit, Install, Shadow, Image
  <2>3. caller' \in [Callers -> Waiting \cup Outcomes]
    BY <1>1, <2>1, AnswerType DEF MonitorCommit, Install, NoAnswer, Shadow, Outcomes
  <2>4. pending' # None => truth' \in History
    BY <1>1, <2>1 DEF MonitorCommit, Install
  <2> QED  BY <1>1, <2>2, <2>3, <2>4 DEF MonitorCommit, Install
<1>2. CASE UploadCommit
  <2>1. txn.report \in Upload
    BY <1>2 DEF UploadCommit, Transaction
  <2>2. AfterUpload(txn.report) \in Image
    BY <2>1, UploadType
  <2>3. baseline' \in [Fields -> Values] /\ uncertain' \in Journal \cup {None}
        /\ disk' \in Image
    BY <1>2, <2>2 DEF UploadCommit, Image
  <2>4. CASE txn.report.kind = "partial"
    <3>1. pending' \in Command \cup {None}
      BY <1>2, <2>2, <2>4, PayloadType, ConstantsAssumption
      DEF UploadCommit, PartialUploadAccept, Command, Image
    <3>2. pending' # None => pending # None
      BY <1>2, <2>4 DEF UploadCommit, PartialUploadAccept
    <3> QED  BY <1>2, <2>3, <2>4, <3>1, <3>2 DEF UploadCommit, PartialUploadAccept
  <2>5. CASE txn.report.kind # "partial"
    <3>1. live' \in Live /\ authority' \in BOOLEAN
      BY <1>2, <2>1, <2>5, UploadType DEF UploadCommit, FullUploadAccept, Live
    <3>2. pending' \in Command \cup {None} /\ (pending' # None => pending # None)
      BY <1>2, <2>1, <2>5 DEF UploadCommit, FullUploadAccept, Complete, EchoesCommand,
         Command, Upload, Times
    <3>3. caller' \in [Callers -> Waiting \cup Outcomes]
      BY <1>2, <2>1, <2>5, UploadType, AnswerType
      DEF UploadCommit, FullUploadAccept, Complete, NoAnswer
    <3> QED  BY <1>2, <2>3, <2>5, <3>1, <3>2, <3>3 DEF UploadCommit, FullUploadAccept
  <2> QED  BY <2>4, <2>5
<1>3. CASE PersistFails
  BY <1>3, ImagesType DEF PersistFails, LatchFault
<1> QED  BY <1>1, <1>2, <1>3

(* Callers and polls.                                                      *)
LEMMA TypeCaller ==
  ASSUME TypeInv, CallerStep \/ Poll
  PROVE  TypeInv'
<1> USE NoneAssumption DEF TypeInv, TypeOK, Linked, device, network, gates, durable, failures
<1>1. ASSUME NEW c \in Callers, NEW f \in CommandFields, NEW v \in Values, Request(c, f, v)
      PROVE  TypeInv'
  <2>1. pending' \in Command
    BY <1>1, PayloadType, ConstantsAssumption DEF Request, Command, Times, NoTime
  <2>2. truth' \in History
    BY <1>1 DEF Request, History
  <2>3. monitor' \in Report \cup {None} /\ upload' \in Upload \cup {None}
    BY <1>1, AgedType DEF Request
  <2>4. /\ caller' \in [Callers -> Waiting \cup Outcomes] /\ commands' \in Nat
        /\ txn' = None /\ body' = body /\ UNCHANGED <<device, gates, durable, latched, failures>>
    BY <1>1 DEF Request, Waiting
  <2> QED  BY <2>1, <2>2, <2>3, <2>4
<1>2. ASSUME NEW c \in Callers, NEW why \in {"expiring", "cancelling"}, GiveUp(c, why)
      PROVE  TypeInv'
  BY <1>2 DEF GiveUp, Waiting
<1>3. ASSUME NEW c \in Callers, Cleanup(c) PROVE TypeInv'
  <2>1. caller' \in [Callers -> Waiting \cup Outcomes]
    BY <1>3 DEF Cleanup, Undone, Outcomes
  <2> QED  BY <1>3, <2>1 DEF Cleanup
<1>4. ASSUME NEW c \in Callers, Abandon(c) PROVE TypeInv'
  BY <1>4 DEF Abandon, Outcomes
<1>5. CASE Poll
  <2>1. caller' \in [Callers -> Waiting \cup Outcomes]
    BY <1>5, UndoneType, AnswerType DEF Poll, Complete, Outcomes
  <2> QED  BY <1>5, <2>1 DEF Poll, Complete, Transaction
<1> QED  BY <1>1, <1>2, <1>3, <1>4, <1>5 DEF CallerStep

(* Arriving reports and uploads.                                           *)
LEMMA TypeReceived ==
  ASSUME TypeInv,
         \/ UploadReceived \/ MonitorRejected \/ MonitorWhileLatched \/ MonitorAccepted
  PROVE  TypeInv'
<1> USE NoneAssumption DEF TypeInv, TypeOK, Linked, device, network, gates, durable, failures
<1>1. CASE UploadReceived
  BY <1>1 DEF UploadReceived, Transaction, Learn, History
<1>2. CASE MonitorRejected
  BY <1>2 DEF MonitorRejected
<1>3. CASE MonitorWhileLatched
  BY <1>3, ShadowType DEF MonitorWhileLatched, Shadow
<1>4. CASE MonitorAccepted
  <2>1. ShadowOf(monitor) \in Shadow
    BY <1>4, ShadowType DEF MonitorAccepted
  <2>2. truth' \in History \cup {None} /\ (truth \in History => truth' \in History)
    BY <1>4 DEF MonitorAccepted, Learn, History
  <2>3. CASE txn' = txn /\ Install(ShadowOf(monitor))
    <3>1. caller' \in [Callers -> Waiting \cup Outcomes]
      BY <2>1, <2>3, AnswerType DEF Install, NoAnswer, Shadow, Outcomes
    <3>2. pending' # None => pending # None
      BY <2>3 DEF Install, ShadowOf
    <3> HIDE DEF Linked
    <3>3. Linked'
      BY <1>4, <2>1, <2>2, <2>3, <3>2 DEF Linked, MonitorAccepted, Install, Shadow
    <3> QED  BY <1>4, <2>1, <2>2, <2>3, <3>1, <3>3 DEF MonitorAccepted, Install, Shadow
  <2>4. CASE txn' = [op |-> "monitor", shadow |-> ShadowOf(monitor)]
             /\ UNCHANGED <<live, authority, fresh, baseline, pending, uncertain, caller>>
    <3>1. txn' \in Transaction
      BY <2>1, <2>4 DEF Transaction
    <3>2. ShadowOf(monitor).pending # None => pending # None
      BY DEF ShadowOf
    <3>3. Linked'
      BY <2>2, <2>4, <3>2
    <3>4. /\ monitor' = None /\ available' \in BOOLEAN
          /\ UNCHANGED <<device, body, upload, latched, disk, commands, failures>>
      BY <1>4, <2>4 DEF MonitorAccepted, Install, Shadow
    <3> QED  BY <2>2, <2>4, <3>1, <3>3, <3>4
  <2> QED  BY <1>4, <2>3, <2>4 DEF MonitorAccepted
<1> QED  BY <1>1, <1>2, <1>3, <1>4

(* The thermostat, the network, time and the timers.                       *)
LEMMA TypeOutside ==
  ASSUME TypeInv, UnlockedStep \/ DeviceStep
  PROVE  TypeInv'
<1> USE NoneAssumption DEF TypeInv, TypeOK, Linked, device, network, gates, durable, failures
<1>1. CASE Contact \/ MarkUnavailable \/ MonitorStale
  <2>1. /\ available' \in BOOLEAN /\ authority' \in BOOLEAN /\ fresh' \in BOOLEAN
        /\ lapses' \in Nat
    <3>1. CASE Contact
      BY <3>1 DEF Contact
    <3>2. CASE MarkUnavailable
      <4>1. lapses' \in Nat
        BY <3>2 DEF MarkUnavailable
      <4>2. available' = FALSE /\ authority' = FALSE /\ fresh' = fresh
        BY <3>2 DEF MarkUnavailable
      <4> QED  BY <4>1, <4>2
    <3>3. CASE MonitorStale
      <4>1. lapses' \in Nat
        BY <3>3 DEF MonitorStale
      <4>2. available' = available /\ authority' \in {authority, FALSE} /\ fresh' = FALSE
        BY <3>3 DEF MonitorStale
      <4> QED  BY <4>1, <4>2
    <3> QED  BY <1>1, <3>1, <3>2, <3>3
  <2>2. UNCHANGED <<device, network, live, durable, pending, latched, txn, caller,
                    truth, commands, restarts>>
    BY <1>1 DEF Contact, MarkUnavailable, MonitorStale
  <2>3. TypeOK'
    BY <2>1, <2>2
  <2>4. Linked'
    BY <2>2
  <2> QED  BY <2>3, <2>4
<1>9. CASE Tick
  <2>1. now' \in Nat /\ Epoch =< now'
    BY <1>9, EpochType DEF Tick
  <2> QED  BY <1>9, <2>1 DEF Tick
<1>2. ASSUME NEW f \in Fields, EditField(f) PROVE TypeInv'
  <2>0. PICK v \in Values : Holds([dev EXCEPT ![f] = v])
    BY <1>2 DEF EditField
  <2>1. dev' \in [Fields -> Values]
    BY <2>0 DEF Holds
  <2>5. truth' \in History \cup {None} /\ (truth # None => truth' # None)
    BY <2>0 DEF Holds, History
  <2> QED  BY <1>2, <2>1, <2>5 DEF EditField
<1>3. CASE EditSchedule \/ DropBody \/ LoseMonitor \/ LoseUpload
  BY <1>3 DEF EditSchedule, DropBody, LoseMonitor, LoseUpload
<1>4. CASE ApplyBody
  <2>1. Overlay(dev, body) \in [Fields -> Values]
    BY <1>4, OverlayType DEF ApplyBody
  <2>2. dev' \in [Fields -> Values] /\ truth' \in History \cup {None}
        /\ (truth # None => truth' # None)
    BY <1>4, <2>1 DEF ApplyBody, Holds, History
  <2> QED  BY <1>4, <2>2 DEF ApplyBody
<1>5. ASSUME NEW shown \in SUBSET (MonitorFields \cup {"schedule"}), NEW full \in BOOLEAN,
             CaptureMonitor(shown, full)
      PROVE  TypeInv'
  <2>1. Part(dev, shown \ {"schedule"}) \in Partial(MonitorFields)
    <3>1. shown \ {"schedule"} \in SUBSET MonitorFields
          /\ shown \ {"schedule"} \in SUBSET Fields
      BY DEF Fields
    <3>2. Part(dev, shown \ {"schedule"}) \in [shown \ {"schedule"} -> Values]
      BY <3>1, PartType
    <3> QED  BY <3>1, <3>2 DEF Partial
  <2>2. DeviceStamp(now) \in Nat
    BY StampType
  <2> QED  BY <1>5, <2>1, <2>2 DEF CaptureMonitor, Report
<1>6. ASSUME NEW kind \in Uploads, UploadArrives(kind) PROVE TypeInv'
  <2>1. (IF kind = "partial" THEN {"prefs"} ELSE FieldsOf(kind)) \in SUBSET Fields
    BY DEF Fields, FieldsOf, SettingsFields, MonitorFields
  <2>2. Part(dev, IF kind = "partial" THEN {"prefs"} ELSE FieldsOf(kind)) \in Partial(Fields)
    BY <2>1, PartType
  <2>3. upload' \in Upload
    BY <1>6, <2>2 DEF UploadArrives, Upload
  <2>4. /\ available' \in BOOLEAN
        /\ UNCHANGED <<device, body, monitor, live, authority, fresh, durable, pending,
                       latched, txn, caller, truth, commands, failures>>
    BY <1>6 DEF UploadArrives
  <2> QED  BY <2>3, <2>4
<1> QED
  BY <1>1, <1>2, <1>3, <1>4, <1>5, <1>6, <1>9, ConstantsAssumption
  DEF DeviceStep, UnlockedStep

(* Restarts.                                                               *)
LEMMA TypeRestart ==
  ASSUME TypeInv, Crash \/ Reload
  PROVE  TypeInv'
<1> USE NoneAssumption DEF TypeInv, TypeOK, Linked, device
<1>1. ASSUME NEW image \in Image, Restore(image)
      PROVE  /\ baseline' \in [Fields -> Values] /\ uncertain' \in Journal \cup {None}
             /\ live' \in Live
             /\ available' = FALSE /\ authority' = FALSE /\ fresh' = FALSE
             /\ latched' = FALSE /\ pending' = None /\ txn' = None /\ upload' = None
  <2>1. image.baseline \in [Fields -> Values]
    BY DEF Image
  <2>2. Part(image.baseline, MonitorFields) \in [MonitorFields -> Values]
    BY <2>1, PartType DEF Fields
  <2> QED  BY <1>1, <2>1, <2>2 DEF Restore, Image, Live, Times
<1>2. PICK image \in Image : Restore(image) /\ disk' = image
  <2>1. CASE Crash
    BY <2>1, ImagesType DEF Crash
  <2>2. CASE Reload
    BY <2>2 DEF Reload
  <2> QED  BY <2>1, <2>2
<1>3. caller' \in [Callers -> Waiting \cup Outcomes]
  <2>1. CASE Crash
    BY <2>1 DEF Crash, Outcomes
  <2>2. CASE Reload
    BY <2>2, AnswerType DEF Reload, NoAnswer, Outcomes
  <2> QED  BY <2>1, <2>2
<1>4. /\ restarts' \in Nat
      /\ UNCHANGED <<device, body, monitor, truth, commands, lapses>>
  BY DEF Crash, Reload
<1>5. /\ baseline' \in [Fields -> Values] /\ uncertain' \in Journal \cup {None}
      /\ live' \in Live
      /\ available' = FALSE /\ authority' = FALSE /\ fresh' = FALSE
      /\ latched' = FALSE /\ pending' = None /\ txn' = None /\ upload' = None
  BY <1>1, <1>2
<1>6. TypeOK'
  BY <1>2, <1>3, <1>4, <1>5
<1>7. Linked'
  BY <1>5
<1> QED  BY <1>6, <1>7

LEMMA TypeStep == TypeInv /\ [Next]_vars => TypeInv'
<1> SUFFICES ASSUME TypeInv, [Next]_vars PROVE TypeInv'
  OBVIOUS
<1>1. CASE UNCHANGED vars
  BY <1>1 DEF TypeInv, TypeOK, Linked, vars, device, network, gates, durable, failures
<1>2. CASE Next
  BY <1>2, TypeDelivery, TypeCommit, TypeCaller, TypeReceived, TypeOutside, TypeRestart
  DEF Next, TransactionStep, LockedStep
<1> QED  BY <1>1, <1>2

(* Every variable keeps its type.                                          *)
THEOREM TypeCorrect == Spec => []TypeOK
<1>1. TypeInv => TypeOK
  BY DEF TypeInv
<1> QED  BY TypeInit, TypeStep, <1>1, PTL DEF Spec

-----------------------------------------------------------------------------
(* The command *)

Inv == TypeInv /\ CommandInv

-----------------------------------------------------------------------------
(* What most steps have in common *)

(* A step that leaves the command and its records alone keeps the invariant. *)
LEMMA Frame ==
  ASSUME Inv, UNCHANGED <<durable, pending, latched, txn, caller>>,
         truth' = truth \/ (truth # None /\ truth'.sent = truth.sent)
  PROVE  CommandInv'
<1> USE DEF Inv, CommandInv, durable
<1>1. (latched => txn = None)' /\ (~latched => disk = Persisted)'
  BY DEF Persisted
<1>2. (pending # None /\ ~pending.delivered => pending.deliveredAt = NoTime)'
      /\ DeliveredIsJournaled'
  BY DEF DeliveredIsJournaled
<1>3. QueuedIsUnsent'
  BY DEF QueuedIsUnsent
<1>4. WaiterOwnsCommand'
  BY DEF WaiterOwnsCommand
<1>5. DeliveryHasCommand' /\ ShadowKeepsCommand'
  BY DEF DeliveryHasCommand, ShadowKeepsCommand, KeepsCommand
<1> QED  BY <1>1, <1>2, <1>3, <1>4, <1>5

(* Once its owner is answered, nobody waits for the command.               *)
LEMMA AnswerFrees ==
  ASSUME Inv, pending # None, NEW result \in Outcomes, Answer(result)
  PROVE  \A c \in Callers : caller'[c] \notin {"waiting", "expiring"}
<1>1. caller \in [Callers -> Waiting \cup Outcomes] /\ pending.owner \in Callers
  BY DEF Inv, TypeInv, TypeOK, Command
<1> SUFFICES ASSUME NEW c \in Callers
             PROVE  caller'[c] \notin {"waiting", "expiring"}
  OBVIOUS
<1>2. CASE c = pending.owner
  BY <1>1, <1>2 DEF Answer, Outcomes
<1>3. CASE c # pending.owner
  BY <1>1, <1>3 DEF Answer, Inv, CommandInv, WaiterOwnsCommand
<1> QED  BY <1>2, <1>3

(* A withdrawn command leaves nothing behind but its journal.              *)
LEMMA Withdrawn ==
  ASSUME Inv, pending # None, NEW result \in Outcomes, Complete(result),
         txn' = None, ~latched' => disk' = Persisted'
  PROVE  CommandInv'
<1>1. pending' = None /\ \A c \in Callers : caller'[c] \notin {"waiting", "expiring"}
  BY AnswerFrees DEF Complete
<1> QED
  BY <1>1 DEF CommandInv, DeliveredIsJournaled, QueuedIsUnsent, WaiterOwnsCommand,
              DeliveryHasCommand, ShadowKeepsCommand

-----------------------------------------------------------------------------
(* The initial state and the steps *)

LEMMA InvInit == Init => Inv
<1> SUFFICES ASSUME Init PROVE CommandInv
  BY TypeInit DEF Inv
<1>1. pending = None /\ txn = None /\ disk = Persisted /\ latched = FALSE
      /\ caller = [c \in Callers |-> "none"]
  BY DEF Init
<1> QED
  BY <1>1 DEF CommandInv, DeliveredIsJournaled, QueuedIsUnsent, WaiterOwnsCommand,
              DeliveryHasCommand, ShadowKeepsCommand

(* The thermostat, the network, time and the timers touch no record of the command. *)
LEMMA InvOutside ==
  ASSUME Inv, \/ UnlockedStep \/ DeviceStep \/ MonitorRejected \/ MonitorWhileLatched
  PROVE  CommandInv'
<1>1. UNCHANGED <<durable, pending, latched, txn, caller>>
  BY DEF UnlockedStep, DeviceStep, Contact, MarkUnavailable, MonitorStale, Tick,
         EditField, EditSchedule, ApplyBody, DropBody, LoseMonitor, LoseUpload,
         CaptureMonitor, UploadArrives, MonitorRejected, MonitorWhileLatched
<1>2. truth' = truth \/ (truth # None /\ truth'.sent = truth.sent)
  <2>1. ASSUME NEW d, Holds(d) PROVE <1>2!1 \/ <1>2!2
    BY <2>1 DEF Holds, Inv, TypeInv, TypeOK, History
  <2>2. CASE \E f \in Fields : EditField(f)
    BY <2>1, <2>2 DEF EditField
  <2>3. CASE ApplyBody
    BY <2>1, <2>3 DEF ApplyBody
  <2> QED
    BY <2>2, <2>3 DEF UnlockedStep, DeviceStep, Contact, MarkUnavailable, MonitorStale,
         Tick, EditSchedule, DropBody, LoseMonitor, LoseUpload,
         CaptureMonitor, UploadArrives, MonitorRejected, MonitorWhileLatched
<1> QED  BY <1>1, <1>2, Frame

(* Callers and polls.                                                      *)
LEMMA InvCaller ==
  ASSUME Inv, CallerStep \/ Poll
  PROVE  CommandInv'
<1> USE DEF durable, Inv
<1>1. ASSUME NEW c \in Callers, NEW f \in CommandFields, NEW v \in Values, Request(c, f, v)
      PROVE  CommandInv'
  <2>0. pending' \in Command
    BY <1>1, PayloadType, ConstantsAssumption
    DEF Request, Command, Times, NoTime, TypeInv, TypeOK
  <2>1. /\ pending = None /\ uncertain = None /\ txn = None /\ txn' = None
        /\ pending' # None /\ pending'.owner = c /\ pending'.delivered = FALSE
        /\ pending'.deliveredAt = NoTime /\ truth'.sent = FALSE
        /\ UNCHANGED <<baseline, uncertain, disk, latched>>
    BY <1>1, <2>0, NoneAssumption DEF Request, Ready
  <2>2. WaiterOwnsCommand'
    BY <1>1, <2>1 DEF Request, CommandInv, WaiterOwnsCommand, TypeInv, TypeOK
  <2>3. (~latched => disk = Persisted)'
    BY <2>1 DEF CommandInv, Persisted
  <2> QED
    BY <2>1, <2>2, <2>3 DEF CommandInv, DeliveredIsJournaled, QueuedIsUnsent,
                            DeliveryHasCommand, ShadowKeepsCommand
<1>2. ASSUME NEW c \in Callers, NEW why \in {"expiring", "cancelling"}, GiveUp(c, why)
      PROVE  CommandInv'
  <2>1. UNCHANGED <<durable, pending, latched, txn, truth>>
    BY <1>2 DEF GiveUp
  <2>2. WaiterOwnsCommand'
    BY <1>2, <2>1 DEF GiveUp, CommandInv, WaiterOwnsCommand, TypeInv, TypeOK
  <2> QED
    BY <2>1, <2>2 DEF CommandInv, DeliveredIsJournaled, QueuedIsUnsent, Persisted,
                      DeliveryHasCommand, ShadowKeepsCommand, KeepsCommand
<1>3. ASSUME NEW c \in Callers, Cleanup(c) PROVE CommandInv'
  <2>1. /\ UNCHANGED <<durable, latched, truth>> /\ txn' = None
        /\ pending' = None \/ pending' = pending
    BY <1>3 DEF Cleanup
  <2>2. WaiterOwnsCommand'
    BY <1>3 DEF Cleanup, Owns, Undone, CommandInv, WaiterOwnsCommand, TypeInv, TypeOK
  <2> QED
    BY <2>1, <2>2 DEF CommandInv, DeliveredIsJournaled, QueuedIsUnsent, Persisted,
                      DeliveryHasCommand, ShadowKeepsCommand
<1>4. ASSUME NEW c \in Callers, Abandon(c) PROVE CommandInv'
  <2>1. UNCHANGED <<durable, pending, latched, txn, truth>>
    BY <1>4 DEF Abandon
  <2>2. WaiterOwnsCommand'
    BY <1>4, <2>1 DEF Abandon, CommandInv, WaiterOwnsCommand, TypeInv, TypeOK
  <2> QED
    BY <2>1, <2>2 DEF CommandInv, DeliveredIsJournaled, QueuedIsUnsent, Persisted,
                      DeliveryHasCommand, ShadowKeepsCommand, KeepsCommand
<1>5. CASE Poll
  <2>1. CASE Blocked
    <3>1. (~latched => disk = Persisted)'
      BY <1>5 DEF Poll, CommandInv, Persisted
    <3>2. Undone("not_ready") \in Outcomes
      BY UndoneType DEF Outcomes
    <3> QED  BY <1>5, <2>1, <3>1, <3>2, Withdrawn DEF Poll
  <2>2. CASE ~Blocked
    <3>1. /\ UNCHANGED <<durable, pending, latched, truth, caller>> /\ pending # None /\ ~latched
          /\ txn' = [op |-> IF pending.delivered THEN "send" ELSE "journal"]
      BY <1>5, <2>2 DEF Poll, CanonicalSafe
    <3>2. DeliveryHasCommand' /\ ShadowKeepsCommand'
      BY <3>1 DEF DeliveryHasCommand, ShadowKeepsCommand
    <3> QED
      BY <3>1, <3>2 DEF CommandInv, DeliveredIsJournaled, QueuedIsUnsent, Persisted,
                        WaiterOwnsCommand
  <2> QED  BY <2>1, <2>2
<1> QED  BY <1>1, <1>2, <1>3, <1>4, <1>5 DEF CallerStep

(* The journal, the body and the boundary.                                 *)
LEMMA InvDelivery ==
  ASSUME Inv, NEW cancelled \in BOOLEAN, NEW arrives \in BOOLEAN, NEW raises \in BOOLEAN,
         \/ JournalCommit(cancelled) \/ BoundaryCommit(cancelled)
         \/ SendBody(arrives, raises)
  PROVE  CommandInv'
<1> USE DEF Inv, durable
<1>0. "outcome_uncertain" \in Outcomes
  BY DEF Outcomes
<1>1. CASE JournalCommit(cancelled)
  <2>1. /\ pending # None /\ pending \in Command /\ ~pending.delivered
        /\ pending.deliveredAt = NoTime /\ txn # None /\ latched = FALSE
        /\ truth # None /\ truth \in History
    BY <1>1 DEF JournalCommit, CommandInv, DeliveryHasCommand, TypeInv, TypeOK, Linked
  <2>2. UNCHANGED <<baseline, latched>> /\ uncertain' = WriteAhead(NoTime)
        /\ disk' = [Persisted EXCEPT !.uncertain = WriteAhead(NoTime)]
    BY <1>1 DEF JournalCommit
  <2>3. disk' = Persisted'
    BY <2>2 DEF Persisted
  <2>4. CASE BlockedNow /\ ~cancelled
    BY <1>0, <1>1, <2>1, <2>3, <2>4, Withdrawn DEF JournalCommit
  <2>5. CASE ~(BlockedNow /\ ~cancelled)
    <3>1. /\ pending' = [pending EXCEPT !.delivered = TRUE] /\ caller' = caller
          /\ txn' = None \/ txn' = [op |-> "send"]
      BY <1>1, <2>5 DEF JournalCommit, NoAnswer
    <3>2. /\ pending' \in Command /\ pending' # None /\ pending'.delivered
          /\ pending'.owner = pending.owner /\ pending'.deliveredAt = NoTime
          /\ pending'.field = pending.field /\ pending'.want = pending.want
      BY <2>1, <3>1, NoneAssumption DEF Command
    <3>3. WaiterOwnsCommand'
      BY <2>1, <3>1, <3>2 DEF CommandInv, WaiterOwnsCommand
    <3>4. DeliveredIsJournaled'
      BY <2>1, <2>2, <3>2 DEF DeliveredIsJournaled, WriteAhead
    <3>5. DeliveryHasCommand' /\ ShadowKeepsCommand'
      <4>1. CASE txn' = None
        BY <4>1 DEF DeliveryHasCommand, ShadowKeepsCommand
      <4>2. CASE txn' = [op |-> "send"]
        BY <3>2, <4>2 DEF DeliveryHasCommand, ShadowKeepsCommand
      <4> QED  BY <3>1, <4>1, <4>2
    <3> QED
      BY <2>1, <2>2, <2>3, <3>2, <3>3, <3>4, <3>5 DEF CommandInv, QueuedIsUnsent
  <2> QED  BY <2>4, <2>5
<1>2. CASE BoundaryCommit(cancelled)
  <2>1. /\ pending # None /\ pending \in Command /\ pending.delivered
        /\ txn # None /\ latched = FALSE /\ txn.at \in Times
    BY <1>2 DEF BoundaryCommit, CommandInv, DeliveryHasCommand, TypeInv, TypeOK, Times,
                Transaction
  <2>2. UNCHANGED <<baseline, latched>> /\ uncertain' = WriteAhead(txn.at) /\ txn' = None
        /\ disk' = [Persisted EXCEPT !.uncertain = WriteAhead(txn.at)]
    BY <1>2 DEF BoundaryCommit
  <2>3. disk' = Persisted'
    BY <2>2 DEF Persisted
  <2>4. CASE Blocked /\ ~cancelled
    BY <1>0, <1>2, <2>1, <2>2, <2>3, <2>4, Withdrawn DEF BoundaryCommit
  <2>5. CASE ~(Blocked /\ ~cancelled)
    <3>1. pending' = [pending EXCEPT !.deliveredAt = txn.at] /\ caller' = caller
      BY <1>2, <2>5 DEF BoundaryCommit, NoAnswer
    <3>2. /\ pending' \in Command /\ pending' # None /\ pending'.delivered
          /\ pending'.owner = pending.owner /\ pending'.deliveredAt = txn.at
          /\ pending'.field = pending.field /\ pending'.want = pending.want
      BY <2>1, <3>1, NoneAssumption DEF Command
    <3>3. WaiterOwnsCommand'
      BY <2>1, <3>1, <3>2 DEF CommandInv, WaiterOwnsCommand
    <3>4. DeliveredIsJournaled'
      BY <2>1, <2>2, <3>2 DEF DeliveredIsJournaled, WriteAhead
    <3> QED
      BY <2>1, <2>2, <2>3, <3>2, <3>3, <3>4
      DEF CommandInv, QueuedIsUnsent, DeliveryHasCommand, ShadowKeepsCommand
  <2> QED  BY <2>4, <2>5
<1>3. CASE SendBody(arrives, raises)
  <2>1. /\ pending # None /\ pending \in Command /\ pending.delivered
        /\ txn # None /\ latched = FALSE
        /\ UNCHANGED <<baseline, uncertain, disk, latched>>
        /\ txn' = AfterSend(raises)
    BY <1>3 DEF SendBody, CommandInv, DeliveryHasCommand, TypeInv, TypeOK
  <2>2. disk' = Persisted'
    BY <2>1 DEF CommandInv, Persisted
  <2>3. CASE ~raises /\ pending.deliveredAt # NoTime /\ Blocked
    BY <1>0, <1>3, <2>1, <2>2, <2>3, Withdrawn DEF SendBody, AfterSend
  <2>4. CASE ~(~raises /\ pending.deliveredAt # NoTime /\ Blocked)
    <3>1. UNCHANGED <<pending, caller>>
      BY <1>3, <2>4 DEF SendBody
    <3>2. DeliveryHasCommand' /\ ShadowKeepsCommand'
      BY <2>1, <3>1 DEF AfterSend, DeliveryHasCommand, ShadowKeepsCommand
    <3> QED
      BY <2>1, <2>2, <3>1, <3>2 DEF CommandInv, DeliveredIsJournaled, QueuedIsUnsent,
                                    WaiterOwnsCommand
  <2> QED  BY <2>3, <2>4
<1> QED  BY <1>1, <1>2, <1>3

(* What the shadow of a report does with the command.                      *)
LEMMA ShadowCommand ==
  ASSUME Inv, NEW r \in Report
  PROVE  KeepsCommand(ShadowOf(r))
<1> DEFINE news == Part(r.vals, {f \in Merged(r) : r.vals[f] # baseline[f]})
           verdict == IF Confirms(r) THEN "confirmed" ELSE Reconciled(r)
<1>1. /\ ShadowOf(r).verdict = verdict
      /\ ShadowOf(r).pending = IF verdict # "open" THEN None
                               ELSE IF pending = None THEN None
                               ELSE Rendered(pending, news)
      /\ ShadowOf(r).uncertain = IF Confirms(r) \/ Resolves(r) THEN None ELSE uncertain
  BY DEF ShadowOf
<1>2. verdict # "open" => pending # None
  BY DEF Confirms, Reconciled, PostQueue
<1>3. ASSUME pending # None
      PROVE  LET p == Rendered(pending, news)
             IN /\ p.owner = pending.owner /\ p.field = pending.field
                /\ p.want = pending.want /\ p.delivered = pending.delivered
                /\ p.deliveredAt = pending.deliveredAt /\ p.echoAt = pending.echoAt
                /\ p.queuedAt = pending.queuedAt
                /\ pending.delivered => p = pending
                /\ p # None
  <2>1. pending \in Command
    BY <1>3 DEF Inv, TypeInv, TypeOK
  <2>2. pending.delivered \in BOOLEAN
    BY <2>1 DEF Command
  <2>3. CASE pending.delivered
    BY <1>3, <2>3 DEF Rendered
  <2>4. CASE ~pending.delivered
    <3>1. {f \in Merged(r) : r.vals[f] # baseline[f]}
            = Merged(r) \cap {f \in Merged(r) : r.vals[f] # baseline[f]}
      OBVIOUS
    <3>4. Rendered(pending, news) \in Command
      BY <2>1, <3>1, RenderedType
    <3>2. Rendered(pending, news) = [pending EXCEPT !.payload = Overlay(@, news)]
      BY <2>4 DEF Rendered
    <3> HIDE DEF news
    <3>3. Rendered(pending, news) # None
      BY <3>4, NoneAssumption
    <3> QED  BY <2>1, <2>4, <3>2, <3>3 DEF Command
  <2> QED  BY <2>2, <2>3, <2>4
<1>4. pending # None /\ verdict = "open" => ~Confirms(r) /\ ~Resolves(r)
  BY DEF Resolves, Inv, CommandInv, QueuedIsUnsent
<1> HIDE DEF news, verdict
<1> QED  BY <1>1, <1>2, <1>3, <1>4 DEF KeepsCommand

(* Installing a shadow keeps the invariant.                                *)
LEMMA Installed ==
  ASSUME Inv, NEW shadow \in Shadow, KeepsCommand(shadow), Install(shadow),
         ~latched, txn' = None, truth' # None => truth # None /\ truth'.sent = truth.sent,
         truth # None => truth' # None, latched' = latched, disk' = Persisted'
  PROVE  CommandInv'
<1>0. /\ pending' = shadow.pending /\ uncertain' = shadow.uncertain
      /\ IF shadow.verdict = "open" THEN caller' = caller ELSE Answer(shadow.verdict)
  BY DEF Install, NoAnswer
<1>1. CASE shadow.pending # None
  <2>1. /\ pending # None /\ pending' # None /\ uncertain' = uncertain /\ caller' = caller
        /\ pending'.owner = pending.owner /\ pending'.field = pending.field
        /\ pending'.want = pending.want /\ pending'.delivered = pending.delivered
        /\ pending'.deliveredAt = pending.deliveredAt /\ truth # None
    BY <1>0, <1>1 DEF KeepsCommand, Inv, TypeInv, Linked
  <2> QED
    BY <2>1 DEF Inv, CommandInv, DeliveredIsJournaled, QueuedIsUnsent, WaiterOwnsCommand,
                DeliveryHasCommand, ShadowKeepsCommand
<1>2. CASE shadow.pending = None /\ pending # None
  <2>1. shadow.verdict \in Outcomes /\ Answer(shadow.verdict)
    BY <1>0, <1>2 DEF KeepsCommand, Shadow, Outcomes
  <2>2. \A c \in Callers : caller'[c] \notin {"waiting", "expiring"}
    BY <1>2, <2>1, AnswerFrees
  <2> QED
    BY <1>0, <1>2, <2>2
    DEF CommandInv, DeliveredIsJournaled, QueuedIsUnsent, WaiterOwnsCommand,
        DeliveryHasCommand, ShadowKeepsCommand
<1>3. CASE shadow.pending = None /\ pending = None
  <2>1. caller' = caller
    BY <1>0, <1>3 DEF KeepsCommand
  <2> QED
    BY <1>0, <1>3, <2>1
    DEF Inv, CommandInv, DeliveredIsJournaled, QueuedIsUnsent, WaiterOwnsCommand,
        DeliveryHasCommand, ShadowKeepsCommand
<1> QED  BY <1>1, <1>2, <1>3

(* Monitor reports.                                                        *)
LEMMA InvMonitor ==
  ASSUME Inv, MonitorAccepted \/ MonitorCommit
  PROVE  CommandInv'
<1>1. CASE MonitorAccepted
  <2> DEFINE shadow == ShadowOf(monitor)
  <2>1. /\ monitor # None /\ monitor \in Report /\ ~latched /\ txn = None
        /\ UNCHANGED <<latched, disk>>
    BY <1>1 DEF MonitorAccepted, Inv, TypeInv, TypeOK
  <2>2. shadow \in Shadow /\ KeepsCommand(shadow)
    BY <2>1, ShadowType, ShadowCommand DEF Inv, TypeInv
  <2>3. /\ truth' # None => truth # None /\ truth'.sent = truth.sent
        /\ truth # None => truth' # None
    <3>1. CASE truth = None
      BY <1>1, <3>1 DEF MonitorAccepted, Learn
    <3>2. CASE truth \in History
      <4>1. truth' \in History /\ truth'.sent = truth.sent
        BY <1>1, <3>2 DEF MonitorAccepted, Learn, History
      <4> QED  BY <3>2, <4>1, NoneAssumption
    <3> QED  BY <3>1, <3>2 DEF Inv, TypeInv, TypeOK
  <2>4. CASE shadow.baseline = baseline /\ shadow.uncertain = uncertain
    <3>1. Install(shadow) /\ txn' = txn
      BY <1>1, <2>4 DEF MonitorAccepted
    <3>2. disk' = Persisted'
      BY <2>1, <2>4, <3>1 DEF Inv, CommandInv, Install, Persisted
    <3> HIDE DEF shadow
    <3> QED  BY <2>1, <2>2, <2>3, <3>1, <3>2, Installed
  <2>5. CASE ~(shadow.baseline = baseline /\ shadow.uncertain = uncertain)
    <3>1. /\ txn' = [op |-> "monitor", shadow |-> shadow]
          /\ UNCHANGED <<baseline, pending, uncertain, caller>>
      BY <1>1, <2>5 DEF MonitorAccepted
    <3> HIDE DEF shadow
    <3>2. DeliveryHasCommand' /\ ShadowKeepsCommand'
      BY <2>2, <3>1 DEF DeliveryHasCommand, ShadowKeepsCommand, KeepsCommand
    <3>3. QueuedIsUnsent' /\ DeliveredIsJournaled' /\ WaiterOwnsCommand'
      BY <2>3, <3>1 DEF Inv, TypeInv, Linked, CommandInv, QueuedIsUnsent,
                        DeliveredIsJournaled, WaiterOwnsCommand
    <3> QED  BY <2>1, <3>1, <3>2, <3>3 DEF Inv, CommandInv, Persisted
  <2> QED  BY <2>4, <2>5
<1>2. CASE MonitorCommit
  <2>1. /\ txn # None /\ txn.op = "monitor" /\ txn' = None /\ Install(txn.shadow)
        /\ UNCHANGED <<latched, truth>>
        /\ disk' = [baseline |-> txn.shadow.baseline, uncertain |-> txn.shadow.uncertain]
    BY <1>2 DEF MonitorCommit
  <2>2. txn.shadow \in Shadow /\ KeepsCommand(txn.shadow) /\ ~latched
    BY <2>1 DEF Inv, TypeInv, TypeOK, Transaction, CommandInv, ShadowKeepsCommand
  <2>3. disk' = Persisted'
    BY <2>1 DEF Install, Persisted
  <2> QED  BY <2>1, <2>2, <2>3, Installed
<1> QED  BY <1>1, <1>2

(* Uploads and failed writes.                                              *)
LEMMA InvUpload ==
  ASSUME Inv, UploadReceived \/ UploadCommit \/ PersistFails
  PROVE  CommandInv'
<1> USE DEF Inv, durable
<1>1. CASE UploadReceived
  <2>1. /\ UNCHANGED <<durable, pending, latched, caller>> /\ txn = None
        /\ txn' # None => ~latched /\ txn'.op = "upload"
    BY <1>1 DEF UploadReceived
  <2>2. pending # None => truth # None /\ truth'.sent = truth.sent
    BY <1>1 DEF UploadReceived, Learn, TypeInv, TypeOK, Linked, History
  <2> QED
    BY <2>1, <2>2 DEF CommandInv, DeliveredIsJournaled, QueuedIsUnsent, WaiterOwnsCommand,
                      DeliveryHasCommand, ShadowKeepsCommand, Persisted
<1>2. CASE UploadCommit
  <2> DEFINE u == txn.report
  <2>1. /\ txn # None /\ txn.op = "upload" /\ txn' = None /\ ~latched /\ u \in Upload
        /\ UNCHANGED <<latched, truth>>
        /\ uncertain' = AfterUpload(u).uncertain /\ disk' = AfterUpload(u)
        /\ baseline' = AfterUpload(u).baseline
    BY <1>2 DEF UploadCommit, TypeInv, TypeOK, Transaction, CommandInv
  <2> HIDE DEF u
  <2>2. disk' = Persisted'
    BY <2>1 DEF AfterUpload, Persisted
  <2>3. CASE u.kind # "partial" /\ UploadVerdict(u) # "open"
    <3>1. Complete(UploadVerdict(u)) /\ pending # None
      BY <1>2, <2>3 DEF UploadCommit, FullUploadAccept, UploadVerdict, u
    <3>2. UploadVerdict(u) \in Outcomes
      BY <2>1, <2>3, UploadType DEF TypeInv
    <3> QED  BY <2>1, <2>2, <3>1, <3>2, Withdrawn
  <2>4. CASE u.kind = "partial" \/ UploadVerdict(u) = "open"
    <3>1. pending # None => Owned(u) = "open"
      BY <2>4 DEF Owned, UploadVerdict, KindOf, CommandInv, DeliveredIsJournaled,
                  QueuedIsUnsent
    <3>2. /\ caller' = caller
          /\ pending = None => pending' = None
          /\ pending # None =>
               /\ pending' \in Command /\ uncertain' = uncertain
               /\ pending'.owner = pending.owner /\ pending'.field = pending.field
               /\ pending'.want = pending.want /\ pending'.delivered = pending.delivered
               /\ pending'.deliveredAt = pending.deliveredAt
      <4>1. caller' = caller
        BY <1>2, <2>4 DEF UploadCommit, FullUploadAccept, PartialUploadAccept, NoAnswer, u
      <4>2. pending = None => pending' = None
        BY <1>2, <2>4 DEF UploadCommit, FullUploadAccept, PartialUploadAccept,
                          EchoesCommand, u
      <4>3. ASSUME pending # None PROVE uncertain' = uncertain
        BY <2>1, <3>1, <4>3 DEF AfterUpload
      <4>4. ASSUME pending # None
            PROVE  /\ pending' \in Command
                   /\ pending'.owner = pending.owner /\ pending'.field = pending.field
                   /\ pending'.want = pending.want
                   /\ pending'.delivered = pending.delivered
                   /\ pending'.deliveredAt = pending.deliveredAt
        <5>1. pending \in Command
          BY <4>4 DEF TypeInv, TypeOK
        <5>2. CASE u.kind = "partial"
          <6>1. CommandPayload(AfterUpload(u).baseline, pending.field, pending.want)
                  \in Partial(Fields)
            BY <2>1, <5>1, UploadType, PayloadType, ConstantsAssumption
            DEF TypeInv, Image, Command
          <6>2. \/ pending' = pending
                \/ pending' = [pending EXCEPT !.payload =
                      CommandPayload(AfterUpload(u).baseline, pending.field, pending.want)]
            BY <1>2, <5>2 DEF UploadCommit, PartialUploadAccept, u
          <6> QED  BY <5>1, <6>1, <6>2 DEF Command
        <5>3. CASE u.kind # "partial"
          <6>1. pending' = pending \/ pending' = [pending EXCEPT !.echoAt = u.at]
            BY <1>2, <2>4, <5>3 DEF UploadCommit, FullUploadAccept, u
          <6>2. u.at \in Times
            BY <2>1 DEF Upload, Times
          <6> QED  BY <5>1, <6>1, <6>2 DEF Command
        <5> QED  BY <5>2, <5>3
      <4> QED  BY <4>1, <4>2, <4>3, <4>4
    <3>3. pending # None => pending' # None /\ truth # None
      BY <3>2, NoneAssumption DEF TypeInv, Linked
    <3> QED
      BY <2>1, <2>2, <3>2, <3>3
      DEF CommandInv, DeliveredIsJournaled, QueuedIsUnsent, WaiterOwnsCommand,
          DeliveryHasCommand, ShadowKeepsCommand
  <2> QED  BY <2>3, <2>4
<1>3. CASE PersistFails
  <2>1. /\ latched' /\ txn' = None
        /\ UNCHANGED <<pending, uncertain, caller, truth>>
    BY <1>3 DEF PersistFails, LatchFault
  <2> QED
    BY <2>1 DEF CommandInv, DeliveredIsJournaled, QueuedIsUnsent, WaiterOwnsCommand,
                DeliveryHasCommand, ShadowKeepsCommand
<1> QED  BY <1>1, <1>2, <1>3

(* Restarts.                                                               *)
LEMMA InvRestart ==
  ASSUME Inv, Crash \/ Reload
  PROVE  CommandInv'
<1>1. PICK image \in Image : Restore(image) /\ disk' = image
  <2>1. CASE Crash
    BY <2>1, ImagesType DEF Crash, Inv
  <2>2. CASE Reload
    BY <2>2 DEF Reload, Inv, TypeInv, TypeOK
  <2> QED  BY <2>1, <2>2
<1>2. pending' = None /\ txn' = None /\ latched' = FALSE /\ disk' = Persisted'
  BY <1>1 DEF Restore, Persisted, Image
<1>3. \A c \in Callers : caller'[c] \notin {"waiting", "expiring"}
  <2>1. CASE Crash
    BY <2>1 DEF Crash, Waiting
  <2>2. CASE Reload /\ pending # None
    <3>1. Answer("stopped") /\ "stopped" \in Outcomes
      BY <2>2 DEF Reload, Outcomes
    <3> QED  BY <2>2, <3>1, AnswerFrees
  <2>3. CASE Reload /\ pending = None
    BY <2>3 DEF Reload, NoAnswer, Inv, CommandInv, WaiterOwnsCommand
  <2> QED  BY <2>1, <2>2, <2>3
<1> QED
  BY <1>2, <1>3 DEF CommandInv, DeliveredIsJournaled, QueuedIsUnsent, WaiterOwnsCommand,
                    DeliveryHasCommand, ShadowKeepsCommand

-----------------------------------------------------------------------------
(* The theorems *)

LEMMA InvStep == Inv /\ [Next]_vars => Inv'
<1> SUFFICES ASSUME Inv, [Next]_vars PROVE Inv'
  OBVIOUS
<1>1. TypeInv'
  BY TypeStep DEF Inv
<1>2. CommandInv'
  <2>1. CASE UNCHANGED vars
    BY <2>1, Frame DEF vars
  <2>2. CASE Next
    BY <2>2, InvOutside, InvCaller, InvDelivery, InvMonitor, InvUpload, InvRestart
    DEF Next, TransactionStep, LockedStep
  <2> QED  BY <2>1, <2>2
<1> QED  BY <1>1, <1>2 DEF Inv

LEMMA Invariance == Spec => []Inv
  BY InvInit, InvStep, PTL DEF Spec

(* One command at a time goes from queued to delivered to bounded, and its
   journal, its caller, memory and disk go with it.                        *)
THEOREM CommandCorrect == Spec => []CommandInv
<1>1. Inv => CommandInv
  BY DEF Inv
<1> QED  BY <1>1, Invariance, PTL

(* Without a write under way or a fault, memory and disk agree.            *)
THEOREM DiskCorrect == Spec => []DiskMatchesMemory
<1>1. Inv => DiskMatchesMemory
  BY DEF Inv, CommandInv, DiskMatchesMemory
<1> QED  BY <1>1, Invariance, PTL

(* A delivered command is in the journal, with its boundary.               *)
THEOREM JournalCorrect == Spec => []DeliveredIsJournaled
<1>1. Inv => DeliveredIsJournaled
  BY DEF Inv, CommandInv
<1> QED  BY <1>1, Invariance, PTL

(* Nothing of a queued command was sent, and no earlier one is open.       *)
THEOREM QueueCorrect == Spec => []QueuedIsUnsent
<1>1. Inv => QueuedIsUnsent
  BY DEF Inv, CommandInv
<1> QED  BY <1>1, Invariance, PTL

(* Every caller that waits for an answer owns the command.                 *)
THEOREM WaiterCorrect == Spec => []WaiterOwnsCommand
<1>1. Inv => WaiterOwnsCommand
  BY DEF Inv, CommandInv
<1> QED  BY <1>1, Invariance, PTL

-----------------------------------------------------------------------------
(* What a step may never do *)

(* A step that only answers the owner of the command changes no other caller. *)
LEMMA AnswerOnly ==
  ASSUME Inv, pending # None, NEW result \in Outcomes, Answer(result),
         NEW c \in Callers, NEW outcomes, Becomes(c, outcomes)
  PROVE  result \in outcomes
<1>1. caller \in [Callers -> Waiting \cup Outcomes] /\ pending.owner \in Callers
  BY DEF Inv, TypeInv, TypeOK, Command
<1> QED  BY <1>1 DEF Answer, Becomes

(* "No change was delivered" is only said of a command of which no body was
   written.                                                                *)
THEOREM TimeoutCorrect == Spec => TimeoutMeansUnsent
<1> DEFINE Unsent == \A c \in Callers : Becomes(c, {"timeout", "not_ready"}) => ~truth.sent
<1>1. Inv /\ [Next]_vars => Unsent
  <2> SUFFICES ASSUME Inv, [Next]_vars, NEW c \in Callers,
                      Becomes(c, {"timeout", "not_ready"})
               PROVE  ~truth.sent
    OBVIOUS
  <2>0. caller' # caller /\ caller \in [Callers -> Waiting \cup Outcomes]
    BY DEF Becomes, Inv, TypeInv, TypeOK
  <2>1. ASSUME NEW result \in Outcomes, pending # None, Answer(result),
               result \in {"timeout", "not_ready"} => ~truth.sent
        PROVE  ~truth.sent
    <3>1. result \in {"timeout", "not_ready"}
      BY <2>1, AnswerOnly
    <3> QED  BY <2>1, <3>1
  <2>2. CASE \E d \in Callers : Cleanup(d)
    <3>1. PICK d \in Callers : Cleanup(d)
      BY <2>2
    <3>2. c = d /\ Owns(c) /\ Undone("timeout") = "timeout"
      BY <2>0, <3>1 DEF Cleanup, Becomes, Undone
    <3>3. pending # None /\ ~pending.delivered
      BY <3>2 DEF Owns, Undone
    <3> QED  BY <3>3 DEF Inv, CommandInv, QueuedIsUnsent
  <2>3. CASE Poll
    <3>1. pending # None /\ Answer(Undone("not_ready"))
      BY <2>0, <2>3 DEF Poll, Complete
    <3>2. Undone("not_ready") \in Outcomes
      BY UndoneType DEF Outcomes
    <3>3. Undone("not_ready") \in {"timeout", "not_ready"} => ~truth.sent
      BY <3>1 DEF Undone, Inv, CommandInv, QueuedIsUnsent
    <3> QED  BY <2>1, <3>1, <3>2, <3>3
  <2>4. CASE \E cancelled \in BOOLEAN : JournalCommit(cancelled) \/ BoundaryCommit(cancelled)
    <3>1. Answer("outcome_uncertain") /\ "outcome_uncertain" \in Outcomes /\ pending # None
      BY <2>0, <2>4 DEF JournalCommit, BoundaryCommit, Complete, NoAnswer, Outcomes, Inv,
                        CommandInv, DeliveryHasCommand
    <3> QED  BY <2>1, <3>1
  <2>5. CASE \E arrives, raises \in BOOLEAN : SendBody(arrives, raises)
    <3>1. Answer("outcome_uncertain") /\ "outcome_uncertain" \in Outcomes /\ pending # None
      BY <2>0, <2>5 DEF SendBody, Complete, Outcomes, Inv, CommandInv, DeliveryHasCommand
    <3> QED  BY <2>1, <3>1
  <2>6. ASSUME NEW shadow \in Shadow, KeepsCommand(shadow), Install(shadow) PROVE ~truth.sent
    <3>1. shadow.verdict \in Outcomes \ {"timeout", "not_ready"}
          /\ Answer(shadow.verdict) /\ pending # None
      BY <2>0, <2>6 DEF Install, NoAnswer, KeepsCommand, Shadow, Outcomes
    <3> QED  BY <2>1, <3>1
  <2>7. CASE MonitorAccepted
    <3>1. ShadowOf(monitor) \in Shadow /\ KeepsCommand(ShadowOf(monitor))
      BY <2>7, ShadowType, ShadowCommand DEF MonitorAccepted, Inv, TypeInv, TypeOK
    <3>2. Install(ShadowOf(monitor))
      BY <2>0, <2>7 DEF MonitorAccepted
    <3> QED  BY <2>6, <3>1, <3>2
  <2>8. CASE MonitorCommit
    <3>1. txn.shadow \in Shadow /\ KeepsCommand(txn.shadow) /\ Install(txn.shadow)
      BY <2>8 DEF MonitorCommit, Inv, TypeInv, TypeOK, Transaction, CommandInv,
                  ShadowKeepsCommand
    <3> QED  BY <2>6, <3>1
  <2>9. CASE UploadCommit
    <3>1. Answer(UploadVerdict(txn.report)) /\ UploadVerdict(txn.report) # "open"
      BY <2>0, <2>9 DEF UploadCommit, FullUploadAccept, PartialUploadAccept, Complete, NoAnswer
    <3>2. UploadVerdict(txn.report) \in {"confirmed", "state_changed"} /\ pending # None
      BY <3>1 DEF UploadVerdict, Owned
    <3> QED  BY <2>1, <3>1, <3>2 DEF Outcomes
  <2>10. CASE Reload
    <3>1. Answer("stopped") /\ "stopped" \in Outcomes /\ pending # None
      BY <2>0, <2>10 DEF Reload, NoAnswer, Outcomes
    <3> QED  BY <2>1, <3>1
  <2>11. CASE Crash
    BY <2>11 DEF Crash, Becomes
  <2>12. CASE \E d \in Callers : (\E f \in CommandFields, v \in Values : Request(d, f, v))
                                  \/ GiveUp(d, "expiring") \/ GiveUp(d, "cancelling")
                                  \/ Abandon(d)
    BY <2>0, <2>12 DEF Request, GiveUp, Abandon, Becomes
  <2>13. ~(UNCHANGED vars \/ UnlockedStep \/ DeviceStep \/ UploadReceived
           \/ MonitorRejected \/ MonitorWhileLatched \/ PersistFails)
    BY <2>0 DEF vars, UnlockedStep, DeviceStep, Contact, MarkUnavailable, MonitorStale, Tick,
         EditField, EditSchedule, ApplyBody, DropBody, LoseMonitor, LoseUpload,
         CaptureMonitor, UploadArrives, UploadReceived, MonitorRejected,
         MonitorWhileLatched, PersistFails
  <2> QED
    BY <2>2, <2>3, <2>4, <2>5, <2>7, <2>8, <2>9, <2>10, <2>11, <2>12, <2>13
    DEF Next, TransactionStep, CallerStep, LockedStep
<1>2. Inv /\ [Next]_vars => [Unsent]_vars
  BY <1>1
<1> QED  BY <1>2, Invariance, PTL DEF Spec, TimeoutMeansUnsent

(* No body starts to be written through a closed gate.                     *)
THEOREM SendCorrect == Spec => SendStartsUnblocked
<1> DEFINE Unblocked == txn' # txn /\ txn' = [op |-> "send"] => ~Blocked
<1>1. [Next]_vars => Unblocked
  <2> SUFFICES ASSUME [Next]_vars, txn' # txn, txn' = [op |-> "send"]
               PROVE  ~Blocked
    OBVIOUS
  <2>1. txn'.op = "send"
    OBVIOUS
  <2>2. CASE Poll
    BY <2>1, <2>2 DEF Poll
  <2>3. CASE \E cancelled \in BOOLEAN : JournalCommit(cancelled)
    <3>1. ~BlockedNow \/ txn' = None
      BY <2>3 DEF JournalCommit
    <3>2. txn' # None
      BY NoneAssumption DEF Transaction
    <3> QED  BY <3>1, <3>2 DEF BlockedNow
  <2>4. ~\E arrives, raises \in BOOLEAN : SendBody(arrives, raises)
    BY NoneAssumption, <2>1 DEF SendBody, AfterSend, Transaction
  <2>5. ~\E cancelled \in BOOLEAN : BoundaryCommit(cancelled)
    BY NoneAssumption DEF BoundaryCommit, Transaction
  <2>6. ~(MonitorCommit \/ UploadCommit \/ PersistFails \/ Crash \/ Reload)
    BY NoneAssumption DEF MonitorCommit, UploadCommit, PersistFails, Crash, Reload, Restore,
                          Transaction
  <2>7. ~(UploadReceived \/ MonitorAccepted)
    BY <2>1 DEF UploadReceived, MonitorAccepted
  <2>8. ~(UNCHANGED vars \/ CallerStep \/ UnlockedStep \/ DeviceStep
          \/ MonitorRejected \/ MonitorWhileLatched)
    BY DEF vars, UnlockedStep, DeviceStep, Contact, MarkUnavailable, MonitorStale, Tick,
         EditField, EditSchedule, ApplyBody, DropBody, LoseMonitor, LoseUpload,
         CaptureMonitor, UploadArrives, MonitorRejected, MonitorWhileLatched,
         CallerStep, Request, GiveUp, Cleanup, Abandon
  <2> QED
    BY <2>2, <2>3, <2>4, <2>5, <2>6, <2>7, <2>8 DEF Next, TransactionStep, LockedStep
<1>2. [Next]_vars => [Unblocked]_vars
  BY <1>1
<1> QED  BY <1>2, PTL DEF Spec, SendStartsUnblocked

(* After a fault nothing durable changes and no body leaves, until a restart. *)
THEOREM LatchedCorrect == Spec => LatchedIsFrozen
<1> DEFINE Frozen == latched /\ latched' => UNCHANGED durable /\ (body' = body \/ body' = None)
<1>1. Inv /\ [Next]_vars => Frozen
  <2> SUFFICES ASSUME Inv, [Next]_vars, latched, latched'
               PROVE  UNCHANGED durable /\ (body' = body \/ body' = None)
    OBVIOUS
  <2>1. txn = None
    BY DEF Inv, CommandInv
  <2>2. ~TransactionStep
    BY <2>1 DEF TransactionStep, JournalCommit, BoundaryCommit, SendBody, MonitorCommit,
                UploadCommit, PersistFails, Writing
  <2>3. ~Poll /\ ~MonitorAccepted
    BY DEF Poll, CanonicalSafe, MonitorAccepted
  <2>4. ~Crash /\ ~Reload
    BY DEF Crash, Reload, Restore
  <2>5. CASE UNCHANGED vars \/ CallerStep
    BY <2>5 DEF vars, network, CallerStep, Request, GiveUp, Cleanup, Abandon
  <2>6. CASE UploadReceived \/ MonitorRejected \/ MonitorWhileLatched \/ UnlockedStep
    BY <2>6 DEF UploadReceived, MonitorRejected, MonitorWhileLatched, UnlockedStep, network,
                Contact, MarkUnavailable, MonitorStale, Tick
  <2>7. CASE DeviceStep
    BY <2>7 DEF DeviceStep, network, EditField, EditSchedule, ApplyBody, DropBody,
                LoseMonitor, LoseUpload, CaptureMonitor, UploadArrives
  <2> QED  BY <2>2, <2>3, <2>4, <2>5, <2>6, <2>7 DEF Next, LockedStep
<1>2. Inv /\ [Next]_vars => [Frozen]_vars
  BY <1>1
<1> QED  BY <1>2, Invariance, PTL DEF Spec, LatchedIsFrozen

(* A redelivery repeats the body: what may be on the wire is not rewritten. *)
THEOREM BodyCorrect == Spec => DeliveredIsFixed
<1> DEFINE Fixed == pending # None /\ pending' # None /\ pending.delivered =>
                      pending'.payload = pending.payload /\ pending'.want = pending.want
<1>1. Inv /\ [Next]_vars => Fixed
  <2> SUFFICES ASSUME Inv, [Next]_vars, pending # None, pending' # None, pending.delivered,
                      pending' # pending
               PROVE  pending'.payload = pending.payload /\ pending'.want = pending.want
    OBVIOUS
  <2>1. pending \in Command
    BY DEF Inv, TypeInv, TypeOK
  <2>2. CASE \E cancelled \in BOOLEAN : JournalCommit(cancelled) \/ BoundaryCommit(cancelled)
    <3>1. pending' = [pending EXCEPT !.deliveredAt = txn.at]
      BY <2>2 DEF JournalCommit, BoundaryCommit, Complete, Inv, CommandInv, DeliveryHasCommand
    <3> QED  BY <2>1, <3>1 DEF Command
  <2>3. ASSUME NEW shadow, KeepsCommand(shadow), Install(shadow) PROVE FALSE
    BY <2>3 DEF KeepsCommand, Install
  <2>4. ~MonitorAccepted
    <3>1. SUFFICES ASSUME MonitorAccepted PROVE FALSE
      OBVIOUS
    <3>2. KeepsCommand(ShadowOf(monitor)) /\ Install(ShadowOf(monitor))
      BY <3>1, ShadowCommand DEF MonitorAccepted, Inv, TypeInv, TypeOK
    <3> QED  BY <2>3, <3>2
  <2>5. ~MonitorCommit
    BY <2>3 DEF MonitorCommit, Inv, CommandInv, ShadowKeepsCommand
  <2>6. CASE UploadCommit
    <3>1. pending' = [pending EXCEPT !.echoAt = txn.report.at]
      BY <2>6 DEF UploadCommit, PartialUploadAccept, FullUploadAccept, Complete
    <3> QED  BY <2>1, <3>1 DEF Command
  <2>7. ~(CallerStep \/ Poll \/ \E arrives, raises \in BOOLEAN : SendBody(arrives, raises))
    BY DEF CallerStep, Request, Ready, GiveUp, Cleanup, Abandon, Poll,
           SendBody, Complete
  <2>8. ~(Crash \/ Reload \/ PersistFails \/ UploadReceived)
    BY DEF Crash, Reload, Restore, PersistFails, UploadReceived
  <2>9. ~(UNCHANGED vars \/ UnlockedStep \/ DeviceStep \/ MonitorRejected
          \/ MonitorWhileLatched)
    BY DEF vars, UnlockedStep, DeviceStep, Contact, MarkUnavailable, MonitorStale, Tick,
         EditField, EditSchedule, ApplyBody, DropBody, LoseMonitor, LoseUpload,
         CaptureMonitor, UploadArrives, MonitorRejected, MonitorWhileLatched
  <2> QED
    BY <2>2, <2>4, <2>5, <2>6, <2>7, <2>8, <2>9 DEF Next, TransactionStep, LockedStep
<1>2. Inv /\ [Next]_vars => [Fixed]_vars
  BY <1>1
<1> QED  BY <1>2, Invariance, PTL DEF Spec, DeliveredIsFixed

-----------------------------------------------------------------------------
(* The queued body *)

(* The body a command has over a baseline, field by field.                 *)
LEMMA PayloadValue ==
  ASSUME NEW base \in [Fields -> Values], NEW f \in Fields, NEW v
  PROVE  /\ f \in FieldsOf(KindOf(f)) /\ FieldsOf(KindOf(f)) \subseteq Fields
         /\ CommandPayload(base, f, v) =
              [x \in FieldsOf(KindOf(f)) |-> IF x = f THEN v ELSE base[x]]
  BY DEF CommandPayload, Overlay, Part, FieldsOf, KindOf, Fields, SettingsFields,
         MonitorFields

(* A report that leaves a queued command open re-renders it over what it    *)
(* makes of the baseline.                                                   *)
LEMMA ShadowTracks ==
  ASSUME Inv, PayloadInv, NEW r \in Report
  PROVE  Tracks(ShadowOf(r).pending, ShadowOf(r).baseline)
<1> DEFINE moved   == {f \in Merged(r) : r.vals[f] # baseline[f]}
           news    == Part(r.vals, moved)
           seen    == Overlay(baseline, Part(r.vals, Merged(r)))
           verdict == IF Confirms(r) THEN "confirmed" ELSE Reconciled(r)
<1>1. /\ ShadowOf(r).baseline = seen
      /\ ShadowOf(r).pending = IF verdict # "open" THEN None
                               ELSE IF pending = None THEN None
                               ELSE Rendered(pending, news)
  BY DEF ShadowOf
<1>2. SUFFICES ASSUME verdict = "open", pending # None, ~pending.delivered
               PROVE  Tracks(Rendered(pending, news), seen)
  BY <1>1 DEF Tracks, Rendered
<1> DEFINE k == FieldsOf(KindOf(pending.field))
<1>3. /\ pending \in Command /\ baseline \in [Fields -> Values] /\ pending.field \in Fields
      /\ DOMAIN r.vals \subseteq MonitorFields
  BY <1>2, ConstantsAssumption DEF Inv, TypeInv, TypeOK, Command, Report, Partial
<1>4. /\ pending.field \in k /\ k \subseteq Fields
      /\ pending.payload = [x \in k |-> IF x = pending.field THEN pending.want
                                        ELSE baseline[x]]
      /\ pending.field \in MonitorFields => pending.from = baseline[pending.field]
  BY <1>2, <1>3, PayloadValue DEF PayloadInv, Tracks
<1>5. seen = [x \in Fields |-> IF x \in Merged(r) THEN r.vals[x] ELSE baseline[x]]
  BY <1>3 DEF Overlay, Part
<1>6. seen \in [Fields -> Values]
  BY <1>3, ShadowType, <1>1 DEF Shadow, Inv, TypeInv
<1>7. pending.field \in Merged(r) =>
        pending.field \in MonitorFields /\ r.vals[pending.field] = pending.from
  BY <1>2, <1>3 DEF Merged, Confirms, Reconciled, Shows
<1>8. Rendered(pending, news) =
        [pending EXCEPT !.payload =
           [x \in k |-> IF x \in moved THEN r.vals[x]
                        ELSE IF x = pending.field THEN pending.want ELSE baseline[x]]]
  BY <1>2, <1>4 DEF Rendered, Overlay, Part
<1>9. pending.field \notin moved
  BY <1>4, <1>7
<1>10. [x \in k |-> IF x \in moved THEN r.vals[x]
                    ELSE IF x = pending.field THEN pending.want ELSE baseline[x]]
         = [x \in k |-> IF x = pending.field THEN pending.want ELSE seen[x]]
  BY <1>4, <1>5, <1>9
<1>11. CommandPayload(seen, pending.field, pending.want)
         = [x \in k |-> IF x = pending.field THEN pending.want ELSE seen[x]]
  <2> HIDE DEF seen
  <2> QED  BY <1>3, <1>6, PayloadValue
<1>12. pending.field \in MonitorFields => seen[pending.field] = pending.from
  BY <1>3, <1>4, <1>5, <1>7
<1> HIDE DEF seen, news, moved, verdict, k
<1>13. /\ Rendered(pending, news).payload = CommandPayload(seen, pending.field, pending.want)
       /\ Rendered(pending, news).field = pending.field
       /\ Rendered(pending, news).want = pending.want
       /\ Rendered(pending, news).from = pending.from
  BY <1>3, <1>8, <1>10, <1>11 DEF Command
<1> QED  BY <1>12, <1>13 DEF Tracks

(* An upload ends a queued command of its family, re-renders it, or leaves  *)
(* its fields alone.                                                        *)
LEMMA UploadTracks ==
  ASSUME Inv, PayloadInv, UploadCommit
  PROVE  Tracks(pending', baseline')
<1> DEFINE u == txn.report
<1>1. /\ u \in Upload /\ Shaped(u) /\ baseline' = Overlay(baseline, u.vals)
      /\ baseline \in [Fields -> Values] /\ pending \in Command \cup {None}
      /\ IF u.kind = "partial" THEN PartialUploadAccept(u) ELSE FullUploadAccept(u)
  BY DEF UploadCommit, AfterUpload, Inv, TypeInv, TypeOK, Transaction, PayloadInv
<1>2. baseline' \in [Fields -> Values]
  BY <1>1, OverlayType DEF Upload
<1>3. SUFFICES ASSUME pending' # None, ~pending'.delivered
               PROVE  Tracks(pending', baseline')
  BY DEF Tracks
<1> HIDE DEF u
<1>4. pending # None /\ pending \in Command /\ ~pending.delivered
      /\ (u.kind # "partial" => pending' = pending)
  BY <1>1, <1>3 DEF FullUploadAccept, PartialUploadAccept, Complete, EchoesCommand, Command
<1>5. pending.field \in Fields
  BY <1>4, ConstantsAssumption DEF Command
<1>6. ASSUME pending' = pending, \A x \in FieldsOf(KindOf(pending.field)) : x \notin DOMAIN u.vals
      PROVE  Tracks(pending', baseline')
  <2>1. \A x \in FieldsOf(KindOf(pending.field)) : baseline'[x] = baseline[x]
    BY <1>1, <1>5, <1>6, PayloadValue DEF Overlay
  <2>2. CommandPayload(baseline', pending.field, pending.want)
          = CommandPayload(baseline, pending.field, pending.want)
    BY <1>1, <1>2, <1>5, <2>1, PayloadValue
  <2> QED
    BY <1>1, <1>4, <1>5, <1>6, <2>1, <2>2, PayloadValue DEF Tracks, PayloadInv
<1>7. CASE u.kind # "partial"
  <2>1. UploadVerdict(u) = "open"
    BY <1>1, <1>3, <1>7 DEF FullUploadAccept, Complete
  <2>2. u.kind # KindOf(pending.field)
    BY <1>4, <2>1 DEF UploadVerdict
  <2>3. u.kind \in {"settings", "auto"}
    BY <1>1, <1>7, ConstantsAssumption DEF Upload
  <2>4. \A x \in FieldsOf(KindOf(pending.field)) : x \notin DOMAIN u.vals
    BY <1>1, <1>7, <2>2, <2>3 DEF Shaped, FieldsOf, KindOf, SettingsFields
  <2> QED  BY <1>4, <1>6, <1>7, <2>4
<1>8. CASE u.kind = "partial" /\ KindOf(pending.field) # "settings"
  <2>1. pending' = pending /\ FieldsOf(KindOf(pending.field)) = {"auto"}
    BY <1>1, <1>8 DEF PartialUploadAccept, FieldsOf, KindOf
  <2> QED  BY <1>1, <1>6, <1>8, <2>1 DEF Shaped
<1>9. CASE u.kind = "partial" /\ KindOf(pending.field) = "settings"
  <2>1. pending' = [pending EXCEPT !.payload =
                      CommandPayload(baseline', pending.field, pending.want)]
    BY <1>1, <1>4, <1>9 DEF PartialUploadAccept, AfterUpload
  <2>2. /\ pending'.field = pending.field /\ pending'.want = pending.want
        /\ pending'.from = pending.from
        /\ pending'.payload = CommandPayload(baseline', pending.field, pending.want)
    BY <1>4, <2>1 DEF Command
  <2>3. pending.field \in MonitorFields => baseline'[pending.field] = baseline[pending.field]
    BY <1>1, <1>5, <1>9 DEF Shaped, Overlay, MonitorFields
  <2> QED  BY <1>4, <2>2, <2>3 DEF Tracks, PayloadInv
<1> QED  BY <1>7, <1>8, <1>9

LEMMA PayloadInit == Init => PayloadInv
  BY DEF Init, PayloadInv, Tracks

(* Steps that neither move the baseline nor render a body.                  *)
LEMMA PayloadFrame ==
  ASSUME Inv, PayloadInv,
         \/ pending' = None
         \/ pending' = pending /\ baseline' = baseline
         \/ pending'.delivered,
         txn' = None \/ txn' = txn \/ txn'.op \in {"journal", "send", "boundary"},
         upload' = None \/ upload' = upload \/ upload' = Aged(upload)
  PROVE  PayloadInv'
<1>1. Tracks(pending', baseline')
  BY DEF Tracks, PayloadInv
<1>2. upload' # None => Shaped(upload')
  BY DEF PayloadInv, Shaped, Aged, Inv, TypeInv, TypeOK, Upload
<1> QED  BY <1>1, <1>2 DEF PayloadInv

LEMMA PayloadStep == Inv /\ PayloadInv /\ [Next]_vars => PayloadInv'
<1> SUFFICES ASSUME Inv, PayloadInv, [Next]_vars PROVE PayloadInv'
  OBVIOUS
<1>1. CASE \E c \in Callers, f \in CommandFields, v \in Values : Request(c, f, v)
  <2>1. PICK c \in Callers, f \in CommandFields, v \in Values : Request(c, f, v)
    BY <1>1
  <2>2. /\ pending'.payload = CommandPayload(baseline, f, v) /\ pending'.field = f
        /\ pending'.want = v /\ pending'.from = baseline[f]
        /\ baseline' = baseline /\ txn' = txn /\ txn = None /\ upload' = Aged(upload)
    BY <2>1 DEF Request, durable
  <2>3. Tracks(pending', baseline')
    BY <2>2 DEF Tracks
  <2>4. upload' # None => Shaped(upload')
    BY <2>2 DEF PayloadInv, Shaped, Aged, Inv, TypeInv, TypeOK, Upload
  <2> QED  BY <2>2, <2>3, <2>4 DEF PayloadInv
<1>2. CASE \/ \E c \in Callers : GiveUp(c, "expiring") \/ GiveUp(c, "cancelling") \/ Cleanup(c)
                              \/ Abandon(c)
           \/ Poll
  BY <1>2, PayloadFrame DEF GiveUp, Abandon, Cleanup, Poll, Complete, durable, network
<1>3. CASE \E cancelled \in BOOLEAN : JournalCommit(cancelled) \/ BoundaryCommit(cancelled)
  <2>1. pending \in Command
    BY <1>3 DEF JournalCommit, BoundaryCommit, Inv, TypeInv, Linked, TypeOK
  <2>2. pending' = None \/ pending'.delivered
    BY <1>3, <2>1 DEF JournalCommit, BoundaryCommit, Complete, Inv, CommandInv,
                      DeliveryHasCommand, Command
  <2>3. txn' = None \/ txn'.op = "send"
    BY <1>3 DEF JournalCommit, BoundaryCommit
  <2>4. upload' = upload \/ upload' = Aged(upload)
    BY <1>3 DEF JournalCommit, BoundaryCommit, network
  <2> QED  BY <2>2, <2>3, <2>4, PayloadFrame
<1>4. CASE \E arrives, raises \in BOOLEAN : SendBody(arrives, raises)
  <2>1. pending' = None \/ pending' = pending
    BY <1>4 DEF SendBody, Complete
  <2>2. /\ txn' = None \/ txn'.op = "boundary"
        /\ upload' = upload \/ upload' = Aged(upload)
        /\ baseline' = baseline
    BY <1>4 DEF SendBody, AfterSend, durable
  <2> QED  BY <2>1, <2>2, PayloadFrame
<1>5. CASE MonitorAccepted
  <2>1. ShadowOf(monitor) \in Shadow
        /\ Tracks(ShadowOf(monitor).pending, ShadowOf(monitor).baseline)
    BY <1>5, ShadowTracks, ShadowType DEF MonitorAccepted, Inv, TypeInv, TypeOK
  <2> DEFINE shadow == ShadowOf(monitor)
  <2>2. upload' = upload /\ txn = None
    BY <1>5 DEF MonitorAccepted
  <2>3. \/ Install(shadow) /\ txn' = txn
        \/ /\ txn' = [op |-> "monitor", shadow |-> shadow]
           /\ UNCHANGED <<pending, baseline>>
    BY <1>5 DEF MonitorAccepted
  <2> HIDE DEF shadow
  <2>4. Tracks(pending', baseline')
    BY <2>1, <2>3 DEF Install, PayloadInv, shadow
  <2> QED  BY <2>1, <2>2, <2>3, <2>4 DEF PayloadInv, shadow
<1>6. CASE MonitorCommit
  <2>1. Tracks(pending', baseline') /\ txn' = None /\ upload' = upload
    BY <1>6 DEF MonitorCommit, Install, PayloadInv, network
  <2> QED  BY <2>1 DEF PayloadInv
<1>7. CASE UploadCommit
  <2>1. txn' = None /\ upload' = upload
    BY <1>7 DEF UploadCommit, network
  <2> QED  BY <1>7, <2>1, UploadTracks DEF PayloadInv
<1>8. CASE UploadReceived
  <2>1. /\ upload' = None /\ UNCHANGED <<pending, baseline>>
        /\ txn' = txn \/ txn' = [op |-> "upload", report |-> upload]
        /\ upload # None
    BY <1>8 DEF UploadReceived, durable
  <2> QED  BY <2>1 DEF PayloadInv
<1>9. CASE \E kind \in Uploads : UploadArrives(kind)
  <2>1. PICK kind \in Uploads : UploadArrives(kind)
    BY <1>9
  <2>2. Shaped(upload') /\ UNCHANGED <<pending, baseline, txn>>
    BY <2>1 DEF UploadArrives, Shaped, Part, durable
  <2> QED  BY <2>2 DEF PayloadInv
<1>10. CASE Crash \/ Reload
  BY <1>10, PayloadFrame DEF Crash, Reload, Restore
<1>11. CASE PersistFails \/ MonitorRejected \/ MonitorWhileLatched \/ UnlockedStep
  BY <1>11, PayloadFrame
  DEF PersistFails, MonitorRejected, MonitorWhileLatched, UnlockedStep, Contact,
      MarkUnavailable, MonitorStale, Tick, durable, network
<1>12. CASE DeviceStep /\ ~\E kind \in Uploads : UploadArrives(kind)
  BY <1>12, PayloadFrame
  DEF DeviceStep, EditField, EditSchedule, ApplyBody, DropBody, LoseMonitor, LoseUpload,
      CaptureMonitor, durable, network
<1>13. CASE UNCHANGED vars
  BY <1>13, PayloadFrame DEF vars, durable, network
<1> QED
  BY <1>1, <1>2, <1>3, <1>4, <1>5, <1>6, <1>7, <1>8, <1>9, <1>10, <1>11, <1>12, <1>13
  DEF Next, TransactionStep, CallerStep, LockedStep

(* However many reports and uploads moved the baseline, a queued body is the *)
(* baseline with the command's own field changed.                            *)
THEOREM PayloadCorrect == Spec => []PayloadTracksBaseline
<1>1. PayloadInv => PayloadTracksBaseline
  BY DEF PayloadInv, PayloadTracksBaseline, Tracks, CommandPayload
<1> QED
  BY <1>1, PayloadInit, PayloadStep, Invariance, PTL DEF Spec

=============================================================================
