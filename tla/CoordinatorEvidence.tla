------------------------ MODULE CoordinatorEvidence ------------------------
(***************************************************************************)
(* The journal and the evidence: the theorems about what a thermostat said *)
(* and when, and that the coordinator keeps its contract.  A theorem that  *)
(* needs a thermostat whose clock is not ahead of the server's says so.    *)
(***************************************************************************)
EXTENDS CoordinatorSafety

Evident == Inv /\ EvidenceInv

-----------------------------------------------------------------------------
(* What most steps have in common *)

(* The records are few.                                                    *)
LEMMA RecordsAre ==
  Records = {disk, Persisted} \cup (IF Writing THEN {Candidate} ELSE {})
  BY DEF Records, Images

LEMMA RecordsWithout ==
  txn' = None \/ txn' = [op |-> "send"] => Records' = {disk', Persisted'}
  BY DEF Records, Images, Writing

(* Without a new record, all records still name the latest command.        *)
LEMMA NoNewRecord ==
  ASSUME EvidenceInv, Records' \subseteq Records, truth' = truth
  PROVE  JournalsNameLatest' /\ WireCovered'
  BY DEF EvidenceInv, JournalsNameLatest, WireCovered, Named, Bounded

(* Nor does time date anything.                                            *)
LEMMA StillDated ==
  ASSUME Records' \subseteq Records, now \in Nat, now' = now \/ now' = now + 1,
         NEW stamp \in Int, NEW post, Dated(stamp, post)
  PROVE  /\ stamp =< now'
         /\ ~post => \A image \in Records' :
                       Bounded(image) => stamp =< image.uncertain.deliveredAt
<1>1. stamp =< now'
  BY DEF Dated
<1> QED  BY <1>1 DEF Dated

(* A command that is neither changed nor replaced keeps its records.       *)
LEMMA SameRecords ==
  UNCHANGED <<durable, pending, txn>> => Records' = Records
  BY DEF Records, Images, Writing, Candidate, Persisted, WriteAhead, AfterUpload, Owned,
         IsLater, durable

(* The thermostat's clock is ahead by a number of ticks, within the skew.    *)
LEMMA AheadType ==
  /\ Ahead \in Nat /\ Ahead =< FutureSkew /\ ClockOffset =< Ahead /\ Ahead' = Ahead
  /\ ClockOffset =< 0 => Ahead = 0
  BY ConstantsAssumption DEF Ahead

(* A record with a boundary has a time, and reports and uploads have stamps. *)
LEMMA StampTypes ==
  ASSUME Inv
  PROVE  /\ now \in Nat
         /\ monitor # None => monitor.stamp \in Nat /\ monitor \in Report
         /\ upload # None => upload.at \in Nat /\ upload \in Upload
         /\ txn # None /\ txn.op = "upload" => txn.report.at \in Nat /\ txn.report \in Upload
         /\ txn # None /\ txn.op = "boundary" => txn.at \in Nat
         /\ txn # None /\ txn.op = "monitor" => txn.shadow \in Shadow
  BY DEF Inv, TypeInv, TypeOK, Report, Upload, Transaction

-----------------------------------------------------------------------------
(* The initial state and the steps *)

LEMMA EvidenceInit == Init => Evident
<1> SUFFICES ASSUME Init PROVE EvidenceInv
  BY InvInit DEF Evident
<1>1. /\ truth = None /\ pending = None /\ monitor = None /\ upload = None /\ txn = None
      /\ disk = Persisted /\ Persisted.uncertain = None
  BY DEF Init, Persisted
<1>2. Records = {Persisted}
  BY <1>1, RecordsAre DEF Writing
<1> QED
  BY <1>1, <1>2 DEF EvidenceInv, JournalsNameLatest, CommandIsLatest, WireCovered, StampsTell,
                    ValuesTell, Named, Bounded

(* The thermostat may hold other settings now: held only grows.            *)
LEMMA HoldsTruth ==
  ASSUME Inv, NEW d, Holds(d)
  PROVE  /\ truth = None => truth' = None
         /\ truth # None => /\ truth' # None
                            /\ truth'.field = truth.field /\ truth'.want = truth.want
                            /\ truth'.sent = truth.sent /\ truth'.shown = truth.shown
                            /\ truth.held => truth'.held
                            /\ dev'[truth.field] = truth.want => truth'.held
<1>1. CASE truth = None
  BY <1>1 DEF Holds
<1>2. CASE truth \in History
  <2>1. truth' \in History
    BY <1>2 DEF Holds, History
  <2> QED  BY <1>2, <2>1, NoneAssumption DEF Holds, History
<1> QED  BY <1>1, <1>2 DEF Inv, TypeInv, TypeOK

LEMMA EvidenceEdits ==
  ASSUME Evident, NEW d, Holds(d), monitor' = monitor, upload' = upload, now' = now,
         UNCHANGED <<durable, pending, txn>>
  PROVE  EvidenceInv'
<1> USE DEF Evident, EvidenceInv
<1>1. Records' = Records
  BY SameRecords
<1>2. JournalsNameLatest' /\ WireCovered' /\ CommandIsLatest'
  BY <1>1, HoldsTruth DEF JournalsNameLatest, WireCovered, CommandIsLatest
<1>3. StampsTell'
  BY <1>1 DEF StampsTell, Dated
<1>4. ValuesTell'
  BY HoldsTruth DEF ValuesTell, ShowsHeld, Whole, Telling
<1> QED  BY <1>2, <1>3, <1>4

(* A new report shows what the thermostat has now.                         *)
LEMMA EvidenceCapture ==
  ASSUME Evident,
         NEW shown \in SUBSET (MonitorFields \cup {"schedule"}), NEW full \in BOOLEAN,
         CaptureMonitor(shown, full)
  PROVE  EvidenceInv'
<1> USE DEF Evident, EvidenceInv
<1>1. Records' = Records /\ truth' = truth /\ UNCHANGED <<device, upload, pending, txn>>
  BY SameRecords DEF CaptureMonitor
<1>2. JournalsNameLatest' /\ WireCovered' /\ CommandIsLatest'
  BY <1>1, NoNewRecord DEF CommandIsLatest
<1>3. /\ monitor'.stamp - Ahead =< now /\ monitor'.post /\ monitor'.full = full
      /\ monitor'.vals = Part(dev, shown \ {"schedule"})
  <2>1. DeviceStamp(now) - Ahead =< now /\ DeviceStamp(now) \in Nat
    BY StampType, AheadType, ConstantsAssumption DEF Inv, TypeInv, TypeOK
  <2> QED  BY <2>1 DEF CaptureMonitor
<1>4. full => DOMAIN monitor'.vals = MonitorFields
  BY <1>3 DEF CaptureMonitor, Part, MonitorFields
<1>5. StampsTell'
  BY <1>1, <1>3, <1>4 DEF StampsTell, Dated, device
<1>6. ShowsHeld(monitor.vals, monitor.post)'
  BY <1>1, <1>3 DEF ShowsHeld, ValuesTell, Part
<1>7. ValuesTell'
  BY <1>1, <1>6 DEF ValuesTell, ShowsHeld, Telling, device
<1> QED  BY <1>2, <1>5, <1>7

LEMMA EvidenceArrives ==
  ASSUME Evident, NEW kind \in Uploads, UploadArrives(kind)
  PROVE  EvidenceInv'
<1> USE DEF Evident, EvidenceInv
<1>1. Records' = Records /\ truth' = truth /\ UNCHANGED <<device, monitor, pending, txn>>
  BY SameRecords DEF UploadArrives
<1>2. JournalsNameLatest' /\ WireCovered' /\ CommandIsLatest'
  BY <1>1, NoNewRecord DEF CommandIsLatest
<1>3. /\ upload'.at = now /\ upload'.post /\ upload'.kind = kind
      /\ upload'.vals = Part(dev, IF kind = "partial" THEN {"prefs"} ELSE FieldsOf(kind))
  BY DEF UploadArrives
<1>4. StampsTell'
  BY <1>1, <1>3, StampTypes DEF StampsTell, Dated, device
<1>5. Whole(upload)' /\ ShowsHeld(upload.vals, upload.post)'
  BY <1>1, <1>3 DEF ShowsHeld, ValuesTell, Part, Whole
<1>6. ValuesTell'
  BY <1>1, <1>5 DEF ValuesTell, ShowsHeld, Whole, Telling, device
<1> QED  BY <1>2, <1>4, <1>6

(* Steps that add no record, keep the command in its phase, and only let time
   pass or forget.                                                         *)
LEMMA EvidenceKept ==
  ASSUME Evident, Records' \subseteq Records, truth' = truth, dev' = dev,
         now' = now \/ now' = now + 1, CommandIsLatest',
         pending' # None => /\ pending # None /\ pending'.delivered = pending.delivered
                            /\ pending'.queuedAt = pending.queuedAt,
         (txn' = txn /\ (pending' = pending \/ pending' = None)) \/ txn' = None,
         monitor' = monitor \/ monitor' = None, upload' = upload \/ upload' = None
  PROVE  EvidenceInv'
<1> USE DEF Evident, EvidenceInv
<1>1. JournalsNameLatest' /\ WireCovered'
  BY NoNewRecord
<1>2. StampsTell'
  <2>1. now =< now'
    BY StampTypes
  <2>2. ASSUME NEW stamp \in Int, NEW post, Dated(stamp, post)
        PROVE  /\ stamp =< now'
               /\ ~post => \A image \in Records' :
                             Bounded(image) => stamp =< image.uncertain.deliveredAt
    BY <2>2, StillDated, StampTypes
  <2>3. monitor' # None => (Dated(monitor.stamp - Ahead, monitor.post))'
    <3>1. monitor # None => monitor.stamp - Ahead \in Int
      BY StampTypes, AheadType
    <3> QED  BY <2>2, <3>1, AheadType DEF StampsTell, Dated
  <2>4. upload' # None => (Dated(upload.at, upload.post))'
    BY <2>2, StampTypes DEF StampsTell, Dated
  <2>5. txn' # None /\ txn'.op = "upload" => (Dated(txn.report.at, txn.report.post))'
    BY <2>2, StampTypes DEF StampsTell, Dated
  <2>6. txn' # None /\ txn'.op = "boundary" => txn'.at =< now'
    BY <2>1, StampTypes DEF StampsTell
  <2>7. monitor' # None =>
          /\ pending' # None /\ ~pending'.delivered /\ ~monitor'.post =>
               monitor'.stamp - Ahead =< pending'.queuedAt
          /\ monitor'.full => MonitorFields \subseteq DOMAIN monitor'.vals
    BY DEF StampsTell
  <2> QED  BY <2>3, <2>4, <2>5, <2>6, <2>7 DEF StampsTell
<1>3. ValuesTell'
  <2>1. txn' # None /\ txn'.op = "monitor" /\ txn'.shadow.verdict = "confirmed" /\ Telling'
          => truth' # None /\ truth'.held /\ truth'.shown # {}
    BY DEF ValuesTell, Telling
  <2> QED  BY <2>1 DEF ValuesTell, ShowsHeld, Whole
<1> QED  BY <1>1, <1>2, <1>3

LEMMA EvidenceLess ==
  ASSUME Evident, Records' \subseteq Records, truth' = truth, dev' = dev,
         now' = now \/ now' = now + 1,
         pending' = pending \/ pending' = None, txn' = txn \/ txn' = None,
         monitor' = monitor \/ monitor' = None, upload' = upload \/ upload' = None
  PROVE  EvidenceInv'
<1>1. CommandIsLatest'
  BY DEF CommandIsLatest, Evident, EvidenceInv
<1> QED  BY <1>1, EvidenceKept

LEMMA EvidenceOutside ==
  ASSUME Evident, UnlockedStep \/ DeviceStep
  PROVE  EvidenceInv'
<1>1. CASE UnlockedStep
  <2>1. UNCHANGED <<durable, pending, txn, truth, monitor, upload, dev>>
        /\ (now' = now \/ now' = now + 1)
    BY <1>1 DEF UnlockedStep, Contact, MarkUnavailable, MonitorStale, Tick, network, device
  <2> QED  BY <2>1, SameRecords, EvidenceLess
<1>2. CASE EditSchedule \/ DropBody \/ LoseMonitor \/ LoseUpload
  <2>1. /\ UNCHANGED <<durable, pending, txn, truth, dev, now>>
        /\ monitor' = monitor \/ monitor' = None
        /\ upload' = upload \/ upload' = None
    BY <1>2 DEF EditSchedule, DropBody, LoseMonitor, LoseUpload, network, device
  <2> QED  BY <2>1, SameRecords, EvidenceLess
<1>3. ASSUME NEW f \in Fields, EditField(f) PROVE EvidenceInv'
  <2>1. PICK d : Holds(d)
    BY <1>3 DEF EditField
  <2> QED  BY <1>3, <2>1, EvidenceEdits DEF EditField, network
<1>4. CASE ApplyBody
  BY <1>4, EvidenceEdits DEF ApplyBody
<1>5. ASSUME NEW item \in SparseItems, CaptureMonitor({item}, FALSE) PROVE EvidenceInv'
  <2>1. {item} \in SUBSET (MonitorFields \cup {"schedule"})
    BY ConstantsAssumption
  <2> QED  BY <1>5, <2>1, EvidenceCapture
<1>6. CASE CaptureMonitor(MonitorFields \cup {"schedule"}, TRUE)
  BY <1>6, EvidenceCapture
<1>7. ASSUME NEW kind \in Uploads, UploadArrives(kind) PROVE EvidenceInv'
  BY <1>7, EvidenceArrives
<1> QED  BY <1>1, <1>2, <1>3, <1>4, <1>5, <1>6, <1>7 DEF DeviceStep

(* Failed writes and restarts find a record that was there.                *)
LEMMA EvidenceFailure ==
  ASSUME Evident, PersistFails \/ Crash \/ Reload
  PROVE  EvidenceInv'
<1>1. /\ txn' = None /\ truth' = truth /\ dev' = dev /\ now' = now /\ monitor' = monitor
      /\ pending' = pending \/ pending' = None
      /\ upload' = upload \/ upload' = None
  BY DEF PersistFails, Crash, Reload, Restore, device, network
<1>2. disk' \in Images /\ (Persisted' = Persisted \/ Persisted' = disk')
  <2>1. CASE PersistFails
    BY <2>1 DEF PersistFails, Persisted
  <2>2. CASE Crash
    <3>1. PICK image \in Images : Restore(image) /\ disk' = image
      BY <2>2 DEF Crash
    <3>2. image \in Image
      BY ImagesType DEF Evident, Inv
    <3> QED  BY <3>1, <3>2 DEF Restore, Persisted, Image
  <2>3. CASE Reload
    <3>1. disk \in Image
      BY DEF Evident, Inv, TypeInv, TypeOK
    <3> QED  BY <2>3, <3>1 DEF Reload, Restore, Persisted, Image, Images
  <2> QED  BY <2>1, <2>2, <2>3
<1>3. Records' \subseteq Records
  BY <1>1, <1>2, RecordsWithout DEF Records
<1> QED  BY <1>1, <1>3, EvidenceLess

(* Callers and polls.                                                      *)
LEMMA EvidenceCaller ==
  ASSUME Evident, CallerStep \/ Poll
  PROVE  EvidenceInv'
<1> USE DEF Evident
<1>1. ASSUME NEW c \in Callers, NEW f \in CommandFields, NEW v \in Values, Request(c, f, v)
      PROVE  EvidenceInv'
  <2>1. /\ txn = None /\ txn' = None /\ uncertain = None /\ ~latched /\ dev' = dev /\ now' = now
        /\ UNCHANGED <<baseline, uncertain, disk>>
    BY <1>1 DEF Request, Ready, Blocked, CanEnableControl, CanonicalSafe, durable, device
  <2>2. Records' = {Persisted'} /\ Persisted'.uncertain = None
    BY <2>1, RecordsWithout DEF Inv, CommandInv, Persisted
  <2>3. /\ pending'.field = f /\ pending'.want = v /\ pending'.echoAt = NoTime
        /\ pending'.queuedAt = now
        /\ truth' = [field |-> f, want |-> v, sent |-> FALSE, held |-> dev[f] = v,
                     shown |-> {}]
    BY <1>1 DEF Request
  <2>4. truth' # None
    <3>1. truth' \in History
      BY <1>1 DEF Request, History
    <3> QED  BY <3>1, NoneAssumption
  <2>5. \/ monitor = None /\ monitor' = None
        \/ /\ monitor # None /\ monitor'.stamp = monitor.stamp /\ ~monitor'.post
           /\ monitor'.full = monitor.full /\ monitor'.vals = monitor.vals
    BY <1>1, StampTypes DEF Request, Aged, Report
  <2>6. \/ upload = None /\ upload' = None
        \/ /\ upload # None /\ upload'.at = upload.at /\ ~upload'.post
           /\ upload'.kind = upload.kind /\ upload'.vals = upload.vals
    BY <1>1, StampTypes DEF Request, Aged, Upload
  <2>7. JournalsNameLatest' /\ WireCovered' /\ CommandIsLatest'
    BY <2>2, <2>3, <2>4 DEF JournalsNameLatest, WireCovered, CommandIsLatest, Named, Bounded
  <2>8. StampsTell'
    BY <2>1, <2>2, <2>3, <2>5, <2>6
    DEF StampsTell, Dated, Named, Bounded, EvidenceInv
  <2>9. ValuesTell'
    BY <2>1, <2>3, <2>5, <2>6 DEF ValuesTell, ShowsHeld, Whole, EvidenceInv
  <2> QED  BY <2>7, <2>8, <2>9 DEF EvidenceInv
<1>2. ASSUME NEW c \in Callers, NEW why \in {"expiring", "cancelling"}, GiveUp(c, why)
      PROVE  EvidenceInv'
  <2>1. UNCHANGED <<durable, pending, txn, truth, monitor, upload, dev, now>>
    BY <1>2 DEF GiveUp, network, device
  <2> QED  BY <2>1, SameRecords, EvidenceLess
<1>4. ASSUME NEW c \in Callers, Abandon(c) PROVE EvidenceInv'
  <2>1. UNCHANGED <<durable, pending, txn, truth, monitor, upload, dev, now>>
    BY <1>4 DEF Abandon, network, device
  <2> QED  BY <2>1, SameRecords, EvidenceLess
<1>3. ASSUME NEW c \in Callers, Cleanup(c) PROVE EvidenceInv'
  <2>1. /\ UNCHANGED <<durable, truth, monitor, upload, dev, now>> /\ txn' = txn
        /\ txn' = None /\ (pending' = pending \/ pending' = None)
    BY <1>3 DEF Cleanup, network, device
  <2>2. Records' \subseteq Records
    BY <2>1, RecordsWithout DEF Records, Images, Persisted, durable
  <2> QED  BY <2>1, <2>2, EvidenceLess
<1>5. CASE Poll
  <2>1. /\ UNCHANGED <<durable, truth, monitor, upload, dev, now>> /\ txn = None /\ pending # None
    BY <1>5 DEF Poll, network, device
  <2>2. CASE Blocked
    <3>1. txn' = txn /\ pending' = None
      BY <1>5, <2>2 DEF Poll, Complete
    <3>2. Records' \subseteq Records
      BY <2>1, <3>1, RecordsWithout DEF Records, Images, Persisted, durable
    <3> QED  BY <2>1, <3>1, <3>2, EvidenceLess
  <2>3. CASE ~Blocked
    <3>1. pending' = pending /\ (txn' = [op |-> "send"] \/ txn' = [op |-> "journal"])
      BY <1>5, <2>3 DEF Poll
    <3>2. \A image \in Records' :
            image \in Records \/ (image.uncertain = WriteAhead(NoTime))
      BY <2>1, <3>1 DEF Records, Images, Writing, Candidate, Persisted, WriteAhead, durable
    <3>3. /\ WriteAhead(NoTime) # None /\ WriteAhead(NoTime).deliveredAt = NoTime
          /\ WriteAhead(NoTime).field = pending.field /\ WriteAhead(NoTime).want = pending.want
      <4>1. WriteAhead(NoTime) \in Journal
        BY <2>1, WriteAheadType DEF Inv, TypeInv, Times
      <4> QED  BY <4>1, NoneAssumption DEF WriteAhead
    <3>4. JournalsNameLatest' /\ WireCovered' /\ CommandIsLatest'
      BY <2>1, <3>1, <3>2, <3>3
      DEF JournalsNameLatest, WireCovered, CommandIsLatest, Named, Bounded, EvidenceInv
    <3>5. StampsTell'
      BY <2>1, <3>1, <3>2, <3>3 DEF StampsTell, Dated, Named, Bounded, EvidenceInv
    <3>6. ValuesTell'
      BY <2>1, <3>1 DEF ValuesTell, ShowsHeld, Whole, EvidenceInv
    <3> QED  BY <3>4, <3>5, <3>6 DEF EvidenceInv
  <2> QED  BY <2>2, <2>3
<1> QED  BY <1>1, <1>2, <1>3, <1>4, <1>5 DEF CallerStep

(* What was on its way before keeps its stamp and is no evidence any more.  *)
LEMMA AgedTells ==
  ASSUME Inv, monitor' = Aged(monitor), upload' = Aged(upload)
  PROVE  /\ \/ monitor = None /\ monitor' = None
            \/ /\ monitor # None /\ monitor'.stamp = monitor.stamp /\ ~monitor'.post
               /\ monitor'.full = monitor.full /\ monitor'.vals = monitor.vals
         /\ \/ upload = None /\ upload' = None
            \/ /\ upload # None /\ upload'.at = upload.at /\ ~upload'.post
               /\ upload'.kind = upload.kind /\ upload'.vals = upload.vals
  BY StampTypes DEF Aged, Report, Upload

(* A written-ahead record names the command.                               *)
LEMMA WriteAheadNames ==
  ASSUME Inv, pending # None, NEW at \in Times
  PROVE  /\ WriteAhead(at) # None /\ WriteAhead(at).deliveredAt = at
         /\ WriteAhead(at).field = pending.field /\ WriteAhead(at).want = pending.want
<1>1. WriteAhead(at) \in Journal
  BY WriteAheadType DEF Inv, TypeInv
<1> QED  BY <1>1, NoneAssumption DEF WriteAhead

LEMMA AgedValues ==
  ASSUME Evident, monitor' = Aged(monitor), upload' = Aged(upload),
         txn' = None \/ txn'.op \in {"send", "boundary"},
         truth' # None,
         dev'[truth'.field] = truth'.want => truth'.held
  PROVE  ValuesTell'
<1>1. ASSUME monitor' # None PROVE ShowsHeld(monitor.vals, monitor.post)'
  BY <1>1, AgedTells DEF ShowsHeld, Evident
<1>2. ASSUME upload' # None PROVE (Whole(upload) /\ ShowsHeld(upload.vals, upload.post))'
  <2>1. ~upload'.post /\ upload'.kind = upload.kind /\ upload'.vals = upload.vals /\ upload # None
    BY <1>2, AgedTells DEF Evident
  <2> QED  BY <2>1 DEF ShowsHeld, Whole, Evident, EvidenceInv, ValuesTell
<1> QED  BY <1>1, <1>2 DEF ValuesTell

LEMMA EvidenceJournal ==
  ASSUME Evident, NEW cancelled \in BOOLEAN, JournalCommit(cancelled)
  PROVE  EvidenceInv'
<1> USE DEF Evident
<1>1. /\ pending # None /\ ~pending.delivered /\ pending.deliveredAt = NoTime
      /\ pending.echoAt = NoTime /\ ~truth.sent /\ truth \in History
      /\ truth.field = pending.field /\ truth.want = pending.want /\ pending \in Command
  BY DEF JournalCommit, Inv, CommandInv, DeliveryHasCommand, QueuedIsUnsent, EvidenceInv,
         CommandIsLatest, TypeInv, TypeOK, Linked
<1>2. truth' \in History /\ truth' = [truth EXCEPT !.shown = {}]
  BY <1>1 DEF JournalCommit, History
<1>3. /\ truth' # None /\ truth'.field = truth.field /\ truth'.want = truth.want
      /\ truth'.sent = truth.sent /\ truth'.held = truth.held
  BY <1>1, <1>2, NoneAssumption DEF History
<1>4. /\ pending' = None \/ /\ pending'.delivered /\ pending'.echoAt = NoTime
                            /\ pending'.field = pending.field /\ pending'.want = pending.want
      /\ txn' = None \/ txn' = [op |-> "send"]
      /\ dev' = dev /\ now' = now
  BY <1>1 DEF JournalCommit, Complete, Command, device
<1>5. Records' = {Persisted'} /\ Persisted'.uncertain = WriteAhead(NoTime)
  <2>1. disk' = Persisted' /\ Persisted'.uncertain = WriteAhead(NoTime)
    BY DEF JournalCommit, Persisted
  <2> QED  BY <1>4, <2>1, RecordsWithout
<1>6. JournalsNameLatest' /\ WireCovered' /\ CommandIsLatest'
  <2>1. NoTime \in Times
    BY DEF Times
  <2> QED
    BY <1>1, <1>3, <1>4, <1>5, <2>1, WriteAheadNames
    DEF JournalsNameLatest, WireCovered, CommandIsLatest, Named, Bounded
<1>7. monitor' = Aged(monitor) /\ upload' = Aged(upload)
  BY DEF JournalCommit
<1>8. StampsTell'
  <2>1. WriteAhead(NoTime).deliveredAt = NoTime
    BY DEF WriteAhead
  <2> QED
    BY <1>4, <1>5, <1>7, <2>1, AgedTells DEF StampsTell, Dated, Bounded, EvidenceInv
<1>9. ValuesTell'
  <2>1. dev'[truth'.field] = truth'.want => truth'.held
    BY <1>1, <1>3, <1>4, NoneAssumption DEF EvidenceInv, ValuesTell
  <2>2. txn' = None \/ txn'.op \in {"send", "boundary"}
    BY <1>4
  <2> QED  BY <1>3, <1>7, <2>1, <2>2, AgedValues
<1> QED  BY <1>6, <1>8, <1>9 DEF EvidenceInv

LEMMA EvidenceSend ==
  ASSUME Evident, NEW arrives \in BOOLEAN, NEW raises \in BOOLEAN, SendBody(arrives, raises)
  PROVE  EvidenceInv'
<1> USE DEF Evident
<1>1. /\ pending # None /\ pending.delivered /\ pending \in Command /\ truth \in History
      /\ txn # None /\ txn.op = "send" /\ ~latched /\ disk = Persisted
      /\ truth.field = pending.field /\ truth.want = pending.want
      /\ UNCHANGED <<durable, dev, now>>
  BY DEF SendBody, Inv, CommandInv, DeliveryHasCommand, EvidenceInv, CommandIsLatest,
         TypeInv, TypeOK, Linked, device
<1>2. /\ Named(Persisted) /\ Persisted.uncertain.deliveredAt = pending.deliveredAt
      /\ uncertain # None
  <2>1. uncertain = WriteAhead(pending.deliveredAt) /\ pending.deliveredAt \in Times
    BY <1>1 DEF Inv, CommandInv, DeliveredIsJournaled, WriteAhead, Command
  <2> QED  BY <1>1, <2>1, WriteAheadNames DEF Named, Persisted
<1>3. /\ txn' = None \/ (txn' = [op |-> "boundary", at |-> now] /\ pending' = pending)
      /\ pending' = pending \/ pending' = None
  BY DEF SendBody, AfterSend, Complete
<1>4. \A image \in Records' :
        image = Persisted \/ (pending' # None /\ image.uncertain = WriteAhead(now)')
  BY <1>1, <1>3 DEF Records, Images, Writing, Candidate, Persisted, durable, WriteAhead
<1>5. Persisted \in Records
  BY DEF Records
<1>6. CASE truth.sent
  <2>1. UNCHANGED <<truth, monitor, upload>>
    BY <1>6 DEF SendBody
  <2>2. pending' # None => /\ WriteAhead(now)' # None /\ WriteAhead(now)'.deliveredAt = now
                           /\ WriteAhead(now)'.field = pending.field
                           /\ WriteAhead(now)'.want = pending.want
    <3>1. now \in Times
      BY StampTypes DEF Times
    <3>2. pending' # None => WriteAhead(now)' = WriteAhead(now)
      BY <1>1, <1>3 DEF WriteAhead
    <3> QED  BY <1>1, <3>1, <3>2, WriteAheadNames
  <2>3. JournalsNameLatest' /\ WireCovered' /\ CommandIsLatest'
    BY <1>1, <1>2, <1>3, <1>4, <1>5, <1>6, <2>1, <2>2, NoneAssumption
    DEF JournalsNameLatest, WireCovered, CommandIsLatest, Named, Bounded, EvidenceInv
  <2>4. StampsTell'
    <3>1. ASSUME NEW stamp, NEW post, Dated(stamp, post)
          PROVE  /\ stamp =< now'
                 /\ ~post => \A image \in Records' :
                               Bounded(image) => stamp =< image.uncertain.deliveredAt
      BY <1>1, <1>4, <1>5, <2>2, <3>1 DEF Dated
    <3>2. /\ monitor # None => Dated(monitor.stamp - Ahead, monitor.post)
          /\ upload # None => Dated(upload.at, upload.post)
      BY DEF EvidenceInv, StampsTell
    <3>3. /\ monitor' # None => Dated(monitor.stamp - Ahead, monitor.post)'
          /\ upload' # None => Dated(upload.at, upload.post)'
      BY <2>1, <3>1, <3>2 DEF Dated
    <3>4. /\ pending' # None => pending'.delivered
          /\ monitor' # None /\ monitor'.full => MonitorFields \subseteq DOMAIN monitor'.vals
      BY <1>1, <1>3, <2>1 DEF EvidenceInv, StampsTell
    <3>5. txn' = None \/ (txn'.op = "boundary" /\ txn'.at =< now')
      BY <1>1, <1>3, StampTypes
    <3> QED  BY <3>3, <3>4, <3>5 DEF StampsTell
  <2>5. ValuesTell'
    BY <1>1, <1>3, <2>1 DEF ValuesTell, ShowsHeld, Whole, EvidenceInv
  <2> QED  BY <2>3, <2>4, <2>5 DEF EvidenceInv
<1>7. CASE ~truth.sent
  <2>1. /\ truth' = [truth EXCEPT !.sent = TRUE, !.shown = {},
                                  !.held = dev[truth.field] = truth.want]
        /\ monitor' = Aged(monitor) /\ upload' = Aged(upload)
    BY <1>7 DEF SendBody
  <2>2. truth' \in History
    BY <1>1, <2>1 DEF History
  <2>3. /\ truth' # None /\ truth'.field = truth.field /\ truth'.want = truth.want
        /\ truth'.sent /\ truth'.held = (dev[truth.field] = truth.want)
    BY <1>1, <2>1, <2>2, NoneAssumption DEF History
  <2>4. ~Bounded(Persisted) /\ pending.deliveredAt = NoTime /\ pending.echoAt = NoTime
    BY <1>1, <1>2, <1>5, <1>7
    DEF EvidenceInv, JournalsNameLatest, CommandIsLatest, Bounded
  <2>5. pending' # None => /\ WriteAhead(now)' # None /\ WriteAhead(now)'.deliveredAt = now
                           /\ WriteAhead(now)'.field = pending.field
                           /\ WriteAhead(now)'.want = pending.want
    <3>1. now \in Times
      BY StampTypes DEF Times
    <3>2. pending' # None => WriteAhead(now)' = WriteAhead(now)
      BY <1>1, <1>3 DEF WriteAhead
    <3> QED  BY <1>1, <3>1, <3>2, WriteAheadNames
  <2>6. JournalsNameLatest' /\ WireCovered' /\ CommandIsLatest'
    BY <1>1, <1>2, <1>3, <1>4, <1>5, <2>3, <2>4, <2>5
    DEF JournalsNameLatest, WireCovered, CommandIsLatest, Named, Bounded, EvidenceInv
  <2>7. StampsTell'
    <3>1. ASSUME NEW stamp, stamp =< now
          PROVE  /\ stamp =< now'
                 /\ \A image \in Records' :
                      Bounded(image) => stamp =< image.uncertain.deliveredAt
      BY <1>1, <1>4, <2>4, <2>5, <3>1
    <3>2. /\ monitor # None => monitor.stamp - Ahead =< now
          /\ upload # None => upload.at =< now
      BY DEF EvidenceInv, StampsTell, Dated
    <3>3. /\ monitor' # None => Dated(monitor.stamp - Ahead, monitor.post)'
          /\ upload' # None => Dated(upload.at, upload.post)'
      BY <2>1, <3>1, <3>2, AgedTells DEF Dated
    <3>4. /\ pending' # None => pending'.delivered
          /\ monitor' # None /\ monitor'.full => MonitorFields \subseteq DOMAIN monitor'.vals
      BY <1>1, <1>3, <2>1, AgedTells DEF EvidenceInv, StampsTell
    <3>5. txn' = None \/ (txn'.op = "boundary" /\ txn'.at =< now')
      BY <1>1, <1>3, StampTypes
    <3> QED  BY <3>3, <3>4, <3>5 DEF StampsTell
  <2>8. ValuesTell'
    <3>1. dev'[truth'.field] = truth'.want => truth'.held
      BY <1>1, <2>3
    <3>2. txn' = None \/ txn'.op \in {"send", "boundary"}
      BY <1>3
    <3> QED  BY <2>1, <2>3, <3>1, <3>2, AgedValues
  <2> QED  BY <2>6, <2>7, <2>8 DEF EvidenceInv
<1> QED  BY <1>6, <1>7

LEMMA EvidenceBoundary ==
  ASSUME Evident, NEW cancelled \in BOOLEAN, BoundaryCommit(cancelled)
  PROVE  EvidenceInv'
<1> USE DEF Evident
<1>1. /\ pending # None /\ pending.delivered /\ pending \in Command
      /\ txn # None /\ txn.op = "boundary" /\ txn.at \in Nat
      /\ pending.deliveredAt = NoTime /\ pending.echoAt = NoTime
      /\ UNCHANGED <<truth, monitor, upload, dev, now>> /\ txn' = None
  BY StampTypes DEF BoundaryCommit, Inv, CommandInv, DeliveryHasCommand, EvidenceInv,
     CommandIsLatest, TypeInv, TypeOK, network, device
<1>2. Records' \subseteq Records
  <2>1. Persisted' = [Persisted EXCEPT !.uncertain = WriteAhead(txn.at)] /\ disk' = Persisted'
    BY DEF BoundaryCommit, Persisted
  <2>2. Candidate = [Persisted EXCEPT !.uncertain = WriteAhead(txn.at)] /\ Writing
    BY <1>1 DEF Candidate, Writing
  <2> QED  BY <1>1, <2>1, <2>2, RecordsWithout DEF Records, Images
<1>3. JournalsNameLatest' /\ WireCovered'
  BY <1>1, <1>2, NoNewRecord
<1>4. pending' = None \/ /\ pending'.delivered /\ pending'.echoAt = NoTime
                         /\ pending'.field = pending.field /\ pending'.want = pending.want
  BY <1>1 DEF BoundaryCommit, Complete, Command
<1>5. CommandIsLatest'
  BY <1>1, <1>4 DEF CommandIsLatest, EvidenceInv
<1>6. StampsTell'
  BY <1>1, <1>2, <1>4 DEF StampsTell, Dated, EvidenceInv
<1>7. ValuesTell'
  BY <1>1 DEF ValuesTell, ShowsHeld, Whole, EvidenceInv
<1> QED  BY <1>3, <1>5, <1>6, <1>7 DEF EvidenceInv

(* What the server learns adds to what it has seen.                        *)
LEMMA LearnAdds ==
  ASSUME Inv, NEW r, NEW tag \in {"full", "sparse", "upload"}, Learn(r, tag)
  PROVE  /\ truth = None => truth' = None
         /\ truth # None =>
              /\ truth' # None /\ truth'.field = truth.field /\ truth'.want = truth.want
              /\ truth'.sent = truth.sent /\ truth'.held = truth.held
              /\ truth.shown \subseteq truth'.shown
              /\ r.post /\ truth.field \in DOMAIN r.vals => truth'.shown # {}
<1>1. CASE truth = None
  BY <1>1 DEF Learn
<1>2. CASE truth \in History
  <2>1. truth' \in History
    BY <1>2 DEF Learn, History
  <2> QED  BY <1>2, <2>1, NoneAssumption DEF Learn, History
<1> QED  BY <1>1, <1>2 DEF Inv, TypeInv, TypeOK

(* A report or upload later than the boundary of a record was captured after the
   command was sent.                                                       *)
LEMMA LaterIsPost ==
  ASSUME Evident, NEW stamp \in Int, NEW post, Dated(stamp, post),
         uncertain # None, uncertain.deliveredAt # NoTime, stamp > uncertain.deliveredAt
  PROVE  /\ post
         /\ truth # None /\ truth.field = uncertain.field /\ truth.want = uncertain.want
<1>1. Persisted \in Records /\ Persisted.uncertain = uncertain
  BY DEF Records, Persisted
<1>2. uncertain \in Journal
  BY DEF Evident, Inv, TypeInv, TypeOK
<1>3. Bounded(Persisted) /\ uncertain.deliveredAt \in Nat
  BY <1>1, <1>2 DEF Bounded, Named, Journal, Times
<1>4. ~post => stamp =< uncertain.deliveredAt
  BY <1>1, <1>3 DEF Dated
<1> QED
  BY <1>1, <1>3, <1>4 DEF Evident, EvidenceInv, JournalsNameLatest, Bounded

(* A delivered command and the journal have one boundary.                  *)
LEMMA OneBoundary ==
  ASSUME Inv, pending # None, pending.delivered
  PROVE  /\ uncertain # None /\ uncertain.field = pending.field
         /\ uncertain.want = pending.want /\ uncertain.deliveredAt = pending.deliveredAt
<1>1. uncertain = WriteAhead(pending.deliveredAt) /\ pending.deliveredAt \in Times
  BY DEF Inv, CommandInv, DeliveredIsJournaled, WriteAhead, TypeInv, TypeOK, Command
<1> QED  BY <1>1, WriteAheadNames

(* An upload that decides a command was captured after it was sent.        *)
LEMMA DecidesIsPost ==
  ASSUME Evident, NEW u \in Upload, Dated(u.at, u.post), Whole(u), Owned(u) # "open"
  PROVE  /\ u.post /\ u.kind = "settings" /\ truth # None /\ truth.field = "prefs"
         /\ truth.field \in DOMAIN u.vals
         /\ Owned(u) = "confirmed" => u.vals[truth.field] = truth.want
<1> DEFINE cmd == IF pending # None /\ pending.delivered /\ pending.field = "prefs"
                  THEN pending ELSE uncertain
<1>1. /\ u.kind = "settings" /\ cmd # None /\ cmd.field = "prefs" /\ IsLater(u, cmd)
      /\ Owned(u) = IF u.vals["prefs"] = cmd.want THEN "confirmed" ELSE "state_changed"
  BY DEF Owned
<1>2. /\ uncertain # None /\ uncertain.field = "prefs" /\ uncertain.want = cmd.want
      /\ uncertain.deliveredAt = cmd.deliveredAt
  BY <1>1, OneBoundary DEF Evident
<1> HIDE DEF cmd
<1>3. uncertain.deliveredAt # NoTime /\ u.at > uncertain.deliveredAt /\ u.at \in Nat
  BY <1>1, <1>2 DEF IsLater, Upload
<1>4. u.post /\ truth # None /\ truth.field = uncertain.field /\ truth.want = uncertain.want
  BY <1>2, <1>3, LaterIsPost
<1>5. "prefs" \in DOMAIN u.vals
  BY <1>1 DEF Whole, FieldsOf, SettingsFields
<1> QED  BY <1>1, <1>2, <1>4, <1>5

(* Uploads.                                                                *)
LEMMA EvidenceReceived ==
  ASSUME Evident, UploadReceived
  PROVE  EvidenceInv'
<1> USE DEF Evident
<1>1. /\ upload # None /\ upload \in Upload /\ txn = None /\ upload' = None
      /\ UNCHANGED <<durable, pending, monitor, dev, now>>
      /\ Dated(upload.at, upload.post) /\ Whole(upload)
      /\ ShowsHeld(upload.vals, upload.post)
  BY StampTypes DEF UploadReceived, device, EvidenceInv, StampsTell, ValuesTell
<1>2. CASE latched
  <2>1. UNCHANGED <<txn, truth>>
    BY <1>2 DEF UploadReceived
  <2> QED  BY <1>1, <2>1, SameRecords, EvidenceLess
<1>3. CASE ~latched
  <2>1. /\ txn' = [op |-> "upload", report |-> upload]
        /\ IF upload.kind = "partial" THEN truth' = truth ELSE Learn(upload, "upload")
    BY <1>3 DEF UploadReceived
  <2>2. /\ truth = None => truth' = None
        /\ truth # None =>
             /\ truth' # None /\ truth'.field = truth.field /\ truth'.want = truth.want
             /\ truth'.sent = truth.sent /\ truth'.held = truth.held
             /\ truth.shown \subseteq truth'.shown
             /\ upload.kind # "partial" /\ upload.post /\ truth.field \in DOMAIN upload.vals
                  => truth'.shown # {}
    BY <2>1, LearnAdds
  <2>3. /\ Records' = {disk, Persisted, AfterUpload(upload)}
    <3>1. Writing' /\ Candidate' = AfterUpload(upload)
      <4>1. txn' # None
        BY <1>1, <2>1, NoneAssumption DEF Transaction
      <4> QED
        BY <1>1, <2>1, <4>1 DEF Writing, Candidate, AfterUpload, Owned, IsLater, durable
    <3> QED  BY <1>1, <3>1 DEF Records, Images, Persisted, durable
  <2>4. disk \in Records /\ Persisted \in Records /\ Persisted.uncertain = uncertain
    BY DEF Records, Images, Persisted
  <2>5. /\ AfterUpload(upload).uncertain = uncertain \/ AfterUpload(upload).uncertain = None
        /\ AfterUpload(upload).uncertain # uncertain => Owned(upload) # "open"
    BY DEF AfterUpload
  <2>6. Owned(upload) # "open" => truth # None /\ truth'.shown # {}
    BY <1>1, <2>2, DecidesIsPost
  <2>7. JournalsNameLatest' /\ CommandIsLatest' /\ WireCovered'
    <3>1. JournalsNameLatest'
      BY <2>2, <2>3, <2>4, <2>5 DEF EvidenceInv, JournalsNameLatest, Named, Bounded
    <3>2. CommandIsLatest'
      BY <1>1, <2>2 DEF EvidenceInv, CommandIsLatest
    <3>3. WireCovered'
      BY <2>2, <2>3, <2>4, <2>5, <2>6 DEF EvidenceInv, WireCovered, Named
    <3> QED  BY <3>1, <3>2, <3>3
  <2>8. StampsTell'
    <3>1. ASSUME NEW stamp, NEW post, Dated(stamp, post)
          PROVE  /\ stamp =< now'
                 /\ ~post => \A image \in Records' :
                               Bounded(image) => stamp =< image.uncertain.deliveredAt
      BY <1>1, <2>3, <2>4, <2>5, <3>1 DEF Dated, Bounded, Named
    <3>2. monitor' # None => Dated(monitor.stamp - Ahead, monitor.post)'
      BY <1>1, <3>1 DEF EvidenceInv, StampsTell, Dated
    <3>3. Dated(txn.report.at, txn.report.post)'
      BY <1>1, <2>1, <3>1 DEF Dated
    <3>4. monitor' # None =>
            /\ pending' # None /\ ~pending'.delivered /\ ~monitor'.post =>
                 monitor'.stamp - Ahead =< pending'.queuedAt
            /\ monitor'.full => MonitorFields \subseteq DOMAIN monitor'.vals
      BY <1>1 DEF EvidenceInv, StampsTell
    <3> QED  BY <1>1, <2>1, <3>2, <3>3, <3>4 DEF StampsTell
  <2>9. ValuesTell'
    <3>1. truth' # None /\ dev'[truth'.field] = truth'.want => truth'.held
      BY <1>1, <2>2 DEF EvidenceInv, ValuesTell
    <3>2. monitor' # None => ShowsHeld(monitor.vals, monitor.post)'
      BY <1>1, <2>2 DEF EvidenceInv, ValuesTell, ShowsHeld
    <3>3. Whole(txn.report)' /\ ShowsHeld(txn.report.vals, txn.report.post)'
      BY <1>1, <2>1, <2>2 DEF Whole, ShowsHeld
    <3>4. truth' # None /\ txn'.report.post /\ txn'.report.kind # "partial"
          /\ truth'.field \in FieldsOf(txn'.report.kind) => truth'.shown # {}
      BY <1>1, <2>1, <2>2 DEF Whole
    <3> QED  BY <1>1, <2>1, <3>1, <3>2, <3>3, <3>4 DEF ValuesTell
  <2> QED  BY <2>7, <2>8, <2>9 DEF EvidenceInv
<1> QED  BY <1>2, <1>3

(* A command that an upload echoes was sent, held and seen.                *)
LEMMA EchoIsSeen ==
  ASSUME Evident, txn # None, txn.op = "upload", EchoesCommand(txn.report)
  PROVE  /\ pending # None /\ pending.delivered /\ pending.deliveredAt # NoTime
         /\ truth # None /\ truth.held /\ truth.shown # {}
<1> USE DEF Evident
<1> DEFINE u == txn.report
<1>1. /\ u \in Upload /\ u.at \in Nat /\ Dated(u.at, u.post) /\ Whole(u)
      /\ ShowsHeld(u.vals, u.post)
      /\ truth # None /\ u.post /\ u.kind # "partial" /\ truth.field \in FieldsOf(u.kind)
           => truth.shown # {}
  BY StampTypes DEF EvidenceInv, StampsTell, ValuesTell
<1>2. /\ pending # None /\ pending.delivered /\ u.kind = KindOf(pending.field)
      /\ pending.deliveredAt # NoTime /\ u.at > pending.deliveredAt
      /\ u.vals[pending.field] = pending.want
  BY DEF EchoesCommand, IsLater
<1> HIDE DEF u
<1>3. /\ u.post /\ truth # None /\ truth.field = pending.field /\ truth.want = pending.want
  BY <1>1, <1>2, OneBoundary, LaterIsPost
<1>4. u.kind # "partial" /\ pending.field \in FieldsOf(u.kind)
  <2>1. pending.field \in Fields
    BY <1>2, ConstantsAssumption DEF Inv, TypeInv, TypeOK, Command
  <2> QED
    BY <1>2, <2>1 DEF KindOf, FieldsOf, Fields, SettingsFields, MonitorFields
<1> QED  BY <1>1, <1>2, <1>3, <1>4 DEF ShowsHeld, Whole

LEMMA EvidenceUpload ==
  ASSUME Evident, UploadCommit
  PROVE  EvidenceInv'
<1> USE DEF Evident
<1> DEFINE u == txn.report
<1>1. /\ txn # None /\ txn.op = "upload" /\ u \in Upload /\ txn' = None
      /\ UNCHANGED <<truth, dev, now, monitor, upload>>
      /\ baseline' = AfterUpload(u).baseline /\ uncertain' = AfterUpload(u).uncertain
      /\ disk' = AfterUpload(u)
  BY StampTypes DEF UploadCommit, device, network
<1>2. Records' \subseteq Records
  <2>1. disk' = AfterUpload(u) /\ Persisted' = AfterUpload(u)
    BY <1>1 DEF AfterUpload, Persisted
  <2>2. Candidate = AfterUpload(u) /\ Writing
    BY <1>1 DEF Candidate, Writing
  <2> QED  BY <1>1, <2>1, <2>2, RecordsWithout DEF Records, Images
<1>3. /\ pending' # None =>
           /\ pending # None /\ pending'.delivered = pending.delivered
           /\ pending'.queuedAt = pending.queuedAt /\ pending'.field = pending.field
           /\ pending'.want = pending.want /\ pending'.deliveredAt = pending.deliveredAt
           /\ pending'.echoAt = pending.echoAt \/ EchoesCommand(u)
  <2>1. pending = None => pending' = None
    BY DEF UploadCommit, FullUploadAccept, PartialUploadAccept, EchoesCommand, UploadVerdict
  <2>2. ASSUME pending # None, pending' # None
        PROVE  \/ pending' = pending
               \/ EchoesCommand(u) /\ pending' = [pending EXCEPT !.echoAt = u.at]
               \/ \E p : pending' = [pending EXCEPT !.payload = p]
    BY <2>2 DEF UploadCommit, FullUploadAccept, PartialUploadAccept, Complete
  <2>3. pending # None => pending \in Command
    BY DEF Inv, TypeInv, TypeOK
  <2> HIDE DEF u
  <2> QED  BY <2>1, <2>2, <2>3 DEF Command
<1>4. CommandIsLatest'
  BY <1>1, <1>3, EchoIsSeen DEF EvidenceInv, CommandIsLatest
<1> QED  BY <1>1, <1>2, <1>3, <1>4, EvidenceKept

(* Monitor reports.  A report that confirms, or ends the uncertainty, was
   captured after the command was sent, or comes after an upload that was. *)
LEMMA ConfirmsIsSeen ==
  ASSUME Evident, Telling, monitor # None, Confirms(monitor), NEW tag \in {"full", "sparse"},
         Learn(monitor, tag)
  PROVE  truth' # None /\ truth'.held /\ truth'.shown # {}
<1> USE DEF Evident
<1>1. /\ pending # None /\ pending.delivered /\ pending.deliveredAt # NoTime
      /\ pending.field \in DOMAIN monitor.vals /\ monitor.vals[pending.field] = pending.want
      /\ pending.deliveredAt \in Nat /\ pending.echoAt \in Times
      /\ PostDelivery(monitor)
  BY DEF Confirms, Shows, Inv, TypeInv, TypeOK, Command, Times
<1>2. /\ monitor.stamp \in Nat /\ Dated(monitor.stamp - Ahead, monitor.post)
      /\ ShowsHeld(monitor.vals, monitor.post)
  BY StampTypes DEF EvidenceInv, StampsTell, ValuesTell
<1>3. truth # None /\ truth.field = pending.field /\ truth.want = pending.want
  BY <1>1 DEF EvidenceInv, CommandIsLatest
<1>4. CASE monitor.stamp > pending.deliveredAt /\ Ahead = 0
  <2>1. monitor.post
    BY <1>1, <1>2, <1>4, OneBoundary, LaterIsPost
  <2>2. truth.held
    BY <1>1, <1>2, <1>3, <2>1 DEF ShowsHeld
  <2> QED  BY <1>1, <1>3, <2>1, <2>2, LearnAdds
<1>5. CASE pending.echoAt # NoTime
  <2>1. truth.held /\ truth.shown # {}
    BY <1>1, <1>5 DEF EvidenceInv, CommandIsLatest
  <2> QED  BY <1>3, <2>1, LearnAdds
<1>6. pending.echoAt > pending.deliveredAt => pending.echoAt # NoTime
  BY <1>1 DEF NoTime
<1>7. truth.sent
  <2>1. Persisted \in Records /\ Bounded(Persisted)
    BY <1>1, OneBoundary DEF Records, Persisted, Bounded, Named
  <2> QED  BY <2>1 DEF EvidenceInv, JournalsNameLatest
<1>8. truth.field # "prefs"
  <2>1. DOMAIN monitor.vals \subseteq MonitorFields
    BY StampTypes DEF Report, Partial
  <2> QED  BY <1>1, <1>3, <2>1 DEF MonitorFields
<1> QED  BY <1>1, <1>4, <1>5, <1>6, <1>7, <1>8 DEF PostDelivery, Telling

LEMMA ReconciledIsSeen ==
  ASSUME Evident, monitor # None, Reconciled(monitor) = "confirmed",
         NEW tag \in {"full", "sparse"}, Learn(monitor, tag)
  PROVE  truth' # None /\ truth'.held /\ truth'.shown # {}
<1> USE DEF Evident
<1>1. PostQueue(monitor) /\ Shows(monitor, pending.field, pending.want)
  BY DEF Reconciled
<1>2. /\ pending # None /\ ~pending.delivered /\ pending.queuedAt \in Nat
      /\ pending.field \in DOMAIN monitor.vals /\ monitor.vals[pending.field] = pending.want
      /\ monitor.stamp > pending.queuedAt + FutureSkew /\ monitor.stamp \in Nat
  BY <1>1, StampTypes DEF PostQueue, Shows, Inv, TypeInv, TypeOK, Command
<1>3. ~(monitor.stamp - Ahead =< pending.queuedAt)
  BY <1>2, AheadType, ConstantsAssumption
<1>4. monitor.post
  BY <1>2, <1>3 DEF EvidenceInv, StampsTell
<1>5. truth # None /\ truth.field = pending.field /\ truth.want = pending.want
  BY <1>2 DEF EvidenceInv, CommandIsLatest
<1>6. truth.held
  BY <1>2, <1>4, <1>5 DEF EvidenceInv, ValuesTell, ShowsHeld
<1> QED  BY <1>2, <1>4, <1>5, <1>6, LearnAdds

LEMMA ResolvesIsSeen ==
  ASSUME Evident, Ahead = 0, monitor # None, Resolves(monitor), NEW tag \in {"full", "sparse"},
         Learn(monitor, tag)
  PROVE  truth' # None /\ truth'.shown # {}
<1> USE DEF Evident
<1>1. /\ uncertain # None /\ uncertain.deliveredAt # NoTime /\ monitor.full
      /\ monitor.stamp > uncertain.deliveredAt /\ uncertain.field \in MonitorFields
  BY DEF Resolves
<1>2. /\ monitor.stamp \in Nat /\ Dated(monitor.stamp - Ahead, monitor.post)
      /\ MonitorFields \subseteq DOMAIN monitor.vals
  BY <1>1, StampTypes DEF EvidenceInv, StampsTell
<1>3. monitor.post /\ truth # None /\ truth.field = uncertain.field
  BY <1>1, <1>2, LaterIsPost
<1> QED  BY <1>1, <1>2, <1>3, LearnAdds

LEMMA EvidenceAccepted ==
  ASSUME Evident, MonitorAccepted
  PROVE  EvidenceInv'
<1> USE DEF Evident
<1> DEFINE shadow == ShadowOf(monitor)
<1>1. /\ monitor # None /\ monitor \in Report /\ monitor' = None /\ txn = None /\ ~latched
      /\ UNCHANGED <<upload, dev, now, disk>> /\ disk = Persisted
  BY StampTypes DEF MonitorAccepted, device, Inv, CommandInv
<1>2. PICK tag \in {"full", "sparse"} : Learn(monitor, tag)
  BY DEF MonitorAccepted
<1>3. shadow \in Shadow /\ KeepsCommand(shadow)
  BY <1>1, ShadowType, ShadowCommand DEF Inv, TypeInv
<1>4. /\ \/ shadow.uncertain = uncertain
         \/ /\ shadow.uncertain = None
            /\ Ahead = 0 => truth' # None /\ truth'.shown # {}
      /\ shadow.verdict = "confirmed" /\ Telling =>
           truth' # None /\ truth'.held /\ truth'.shown # {}
  <2>1. /\ shadow.uncertain = IF Confirms(monitor) \/ Resolves(monitor) THEN None
                              ELSE uncertain
        /\ shadow.verdict = IF Confirms(monitor) THEN "confirmed" ELSE Reconciled(monitor)
    BY DEF ShadowOf
  <2>2. Confirms(monitor) /\ Telling => truth' # None /\ truth'.held /\ truth'.shown # {}
    BY <1>1, <1>2, ConfirmsIsSeen
  <2>3. Resolves(monitor) /\ Ahead = 0 => truth' # None /\ truth'.shown # {}
    BY <1>1, <1>2, ResolvesIsSeen
  <2>4. Reconciled(monitor) = "confirmed" =>
          truth' # None /\ truth'.held /\ truth'.shown # {}
    BY <1>1, <1>2, ReconciledIsSeen
  <2> HIDE DEF shadow
  <2>5. \/ shadow.uncertain = uncertain
        \/ /\ shadow.uncertain = None
           /\ Ahead = 0 => truth' # None /\ truth'.shown # {}
    BY <2>1, <2>2, <2>3 DEF Telling
  <2>6. shadow.verdict = "confirmed" /\ Telling =>
          truth' # None /\ truth'.held /\ truth'.shown # {}
    BY <2>1, <2>2, <2>4
  <2> QED  BY <2>5, <2>6
<1>5. \/ /\ Install(shadow) /\ txn' = None
         /\ shadow.baseline = baseline /\ shadow.uncertain = uncertain
      \/ /\ txn' = [op |-> "monitor", shadow |-> shadow]
         /\ UNCHANGED <<baseline, pending, uncertain>>
  BY <1>1 DEF MonitorAccepted
<1> HIDE DEF shadow
<1>6. /\ truth = None => truth' = None
      /\ truth # None =>
           /\ truth' # None /\ truth'.field = truth.field /\ truth'.want = truth.want
           /\ truth'.sent = truth.sent /\ truth'.held = truth.held
           /\ truth.shown \subseteq truth'.shown
  BY <1>2, LearnAdds
<1>7. pending' # None =>
        /\ pending # None /\ pending'.field = pending.field /\ pending'.want = pending.want
        /\ pending'.deliveredAt = pending.deliveredAt /\ pending'.echoAt = pending.echoAt
  BY <1>3, <1>5 DEF Install, KeepsCommand
<1>8. \A image \in Records' :
        \/ image.uncertain = uncertain
        \/ /\ image.uncertain = None
           /\ Ahead = 0 => truth' # None /\ truth'.shown # {}
  <2>1. CASE txn' = None
    <3>1. Records' = {disk, Persisted'} /\ Persisted'.uncertain = uncertain
      BY <1>1, <1>5, <2>1, RecordsWithout, NoneAssumption
      DEF Install, Persisted, Transaction
    <3> QED  BY <1>1, <3>1 DEF Persisted
  <2>2. CASE txn' # None
    <3>1. txn' = [op |-> "monitor", shadow |-> shadow] /\ UNCHANGED <<baseline, uncertain>>
      BY <1>5, <2>2
    <3>2. Candidate' = [baseline |-> shadow.baseline, uncertain |-> shadow.uncertain]
      BY <3>1 DEF Candidate
    <3>3. Records' \subseteq {disk', Persisted', Candidate'}
      BY DEF Records, Images
    <3> QED  BY <1>1, <1>4, <3>1, <3>2, <3>3 DEF Persisted
  <2> QED  BY <2>1, <2>2
<1>9. Persisted \in Records /\ Persisted.uncertain = uncertain
  BY DEF Records, Persisted
<1>10. JournalsNameLatest'
  BY <1>6, <1>8, <1>9 DEF EvidenceInv, JournalsNameLatest, Named, Bounded
<1>11. CommandIsLatest'
  BY <1>6, <1>7 DEF EvidenceInv, CommandIsLatest
<1>12. WireCovered'
  BY <1>6, <1>8, <1>9 DEF EvidenceInv, WireCovered, Named
<1>13. StampsTell'
  <2>1. upload' # None => Dated(upload.at, upload.post)'
    BY <1>1, <1>8, <1>9 DEF EvidenceInv, StampsTell, Dated, Bounded, Named
  <2> QED  BY <1>1, <1>5, <2>1 DEF StampsTell
<1>14. ValuesTell'
  <2>1. truth' # None /\ dev'[truth'.field] = truth'.want => truth'.held
    BY <1>1, <1>6 DEF EvidenceInv, ValuesTell
  <2>2. upload' # None => (Whole(upload) /\ ShowsHeld(upload.vals, upload.post))'
    BY <1>1, <1>6 DEF EvidenceInv, ValuesTell, ShowsHeld, Whole
  <2>3. txn' # None =>
          /\ txn'.shadow = shadow /\ txn'.op = "monitor" /\ pending' = pending
    BY <1>1, <1>5
  <2>4. truth' # None /\ Telling' /\ pending' = pending => Telling
    BY <1>6, AheadType DEF Telling
  <2>5. truth' = None => shadow.verdict # "confirmed"
    <3>1. truth' = None => pending = None
      BY <1>6 DEF Inv, TypeInv, Linked
    <3> QED  BY <1>3, <3>1 DEF KeepsCommand
  <2> QED  BY <1>1, <1>4, <2>1, <2>2, <2>3, <2>4, <2>5 DEF ValuesTell
<1> QED  BY <1>10, <1>11, <1>12, <1>13, <1>14 DEF EvidenceInv

LEMMA EvidenceInstalled ==
  ASSUME Evident, MonitorCommit
  PROVE  EvidenceInv'
<1> USE DEF Evident
<1>1. /\ txn # None /\ txn.op = "monitor" /\ txn' = None /\ Install(txn.shadow)
      /\ UNCHANGED <<truth, dev, now, monitor, upload>>
      /\ disk' = [baseline |-> txn.shadow.baseline, uncertain |-> txn.shadow.uncertain]
  BY DEF MonitorCommit, device, network
<1>2. KeepsCommand(txn.shadow)
  BY <1>1 DEF Inv, CommandInv, ShadowKeepsCommand
<1>3. Records' \subseteq Records
  <2>1. disk' = Persisted' /\ disk' = Candidate /\ Writing
    BY <1>1 DEF Install, Persisted, Candidate, Writing
  <2> QED  BY <1>1, <2>1, RecordsWithout DEF Records, Images
<1>4. pending' # None =>
        /\ pending # None /\ pending'.field = pending.field /\ pending'.want = pending.want
        /\ pending'.delivered = pending.delivered /\ pending'.queuedAt = pending.queuedAt
        /\ pending'.deliveredAt = pending.deliveredAt /\ pending'.echoAt = pending.echoAt
  BY <1>1, <1>2 DEF Install, KeepsCommand
<1>5. CommandIsLatest'
  BY <1>1, <1>4 DEF EvidenceInv, CommandIsLatest
<1> QED  BY <1>1, <1>3, <1>4, <1>5, EvidenceKept

LEMMA EvidenceMonitor ==
  ASSUME Evident, MonitorRejected \/ MonitorWhileLatched
  PROVE  EvidenceInv'
<1>1. /\ UNCHANGED <<durable, pending, txn, truth, dev, now, upload>> /\ monitor' = None
  BY DEF MonitorRejected, MonitorWhileLatched, device
<1> QED  BY <1>1, SameRecords, EvidenceLess

-----------------------------------------------------------------------------
(* The theorems *)

LEMMA EvidenceStep == Evident /\ [Next]_vars => Evident'
<1> SUFFICES ASSUME Evident, [Next]_vars PROVE Evident'
  OBVIOUS
<1>1. Inv'
  BY InvStep DEF Evident
<1>2. EvidenceInv'
  <2>1. CASE UNCHANGED vars
    <3>1. UNCHANGED <<durable, pending, txn, truth, dev, now, monitor, upload>>
      BY <2>1 DEF vars, device, network
    <3> QED  BY <3>1, SameRecords, EvidenceLess
  <2>2. CASE Next
    BY <2>2, EvidenceOutside, EvidenceCaller, EvidenceJournal, EvidenceSend,
       EvidenceBoundary, EvidenceReceived, EvidenceUpload, EvidenceAccepted,
       EvidenceInstalled, EvidenceMonitor, EvidenceFailure
    DEF Next, TransactionStep, LockedStep
  <2> QED  BY <2>1, <2>2
<1> QED  BY <1>1, <1>2 DEF Evident

LEMMA EvidenceInvariance == Spec => []Evident
<1>1. Evident /\ [Next]_vars => Evident'
  BY EvidenceStep
<1> QED  BY <1>1, EvidenceInit, PTL DEF Spec

(* While a body may have reached the thermostat and nothing was seen of its
   result, the disk names the command, over every failure and restart.     *)
THEOREM JournalKept ==
  ASSUME ClockOffset =< 0
  PROVE  Spec => []JournalCoversWire
<1>1. Evident => JournalCoversWire
  <2>1. disk \in Records
    BY DEF Records, Images
  <2> QED
    BY <2>1, AheadType DEF Evident, EvidenceInv, WireCovered, JournalsNameLatest, Named,
                JournalCoversWire
<1> QED  BY <1>1, EvidenceInvariance, PTL

(* A call succeeds on evidence, where a report tells.                      *)
LEMMA SuccessSeen ==
  ASSUME Evident, [Next]_vars, NEW c \in Callers, Becomes(c, {"confirmed"}), Telling
  PROVE  truth'.held /\ truth'.shown # {}
<1> USE DEF Evident
<1>0. /\ caller' # caller /\ caller \in [Callers -> Waiting \cup Outcomes]
      /\ caller[c] # "confirmed" /\ caller'[c] = "confirmed"
  BY DEF Becomes, Inv, TypeInv, TypeOK
<1>1. ASSUME NEW result \in Outcomes, pending # None, Answer(result)
      PROVE  result = "confirmed"
  BY <1>1, AnswerOnly
<1>2. CASE MonitorAccepted
  <2>1. PICK tag \in {"full", "sparse"} : Learn(monitor, tag)
    BY <1>2 DEF MonitorAccepted
  <2>2. /\ ShadowOf(monitor) \in Shadow /\ KeepsCommand(ShadowOf(monitor))
        /\ Install(ShadowOf(monitor)) /\ monitor # None
    BY <1>0, <1>2, ShadowType, ShadowCommand DEF MonitorAccepted, Inv, TypeInv, TypeOK
  <2>3. ShadowOf(monitor).verdict = "confirmed"
    BY <1>0, <1>1, <2>2 DEF Install, NoAnswer, KeepsCommand, Shadow, Outcomes
  <2>4. Confirms(monitor) \/ Reconciled(monitor) = "confirmed"
    BY <2>3 DEF ShadowOf
  <2> QED  BY <2>1, <2>2, <2>4, ConfirmsIsSeen, ReconciledIsSeen
<1>3. CASE MonitorCommit
  <2>1. /\ txn # None /\ txn.op = "monitor" /\ txn.shadow \in Shadow
        /\ KeepsCommand(txn.shadow) /\ Install(txn.shadow) /\ truth' = truth
    BY <1>3, StampTypes DEF MonitorCommit, Inv, CommandInv, ShadowKeepsCommand
  <2>2. txn.shadow.verdict = "confirmed"
    BY <1>0, <1>1, <2>1 DEF Install, NoAnswer, KeepsCommand, Shadow, Outcomes
  <2> QED  BY <2>1, <2>2 DEF EvidenceInv, ValuesTell
<1>4. CASE UploadCommit
  <2> DEFINE u == txn.report
  <2>1. /\ u \in Upload /\ truth' = truth
        /\ u.kind # "partial" => FullUploadAccept(u)
        /\ u.kind = "partial" => PartialUploadAccept(u)
        /\ Dated(u.at, u.post) /\ Whole(u) /\ ShowsHeld(u.vals, u.post)
        /\ truth # None /\ u.post /\ u.kind # "partial"
           /\ truth.field \in FieldsOf(u.kind) => truth.shown # {}
    BY <1>4, StampTypes DEF UploadCommit, EvidenceInv, StampsTell, ValuesTell
  <2>2. UploadVerdict(u) # "open" /\ Answer(UploadVerdict(u))
    BY <1>0, <2>1 DEF FullUploadAccept, PartialUploadAccept, Complete, NoAnswer
  <2>3. UploadVerdict(u) \in {"confirmed", "state_changed"} /\ pending # None
    BY <2>2 DEF UploadVerdict, Owned
  <2> HIDE DEF u
  <2>4. UploadVerdict(u) = "confirmed"
    BY <1>1, <2>2, <2>3 DEF Outcomes
  <2>5. Owned(u) = "confirmed"
    BY <2>4 DEF UploadVerdict
  <2>6. /\ u.post /\ u.kind = "settings" /\ truth # None /\ truth.field = "prefs"
        /\ truth.field \in DOMAIN u.vals /\ u.vals[truth.field] = truth.want
    BY <2>1, <2>5, DecidesIsPost
  <2> QED  BY <2>1, <2>6 DEF ShowsHeld, FieldsOf, SettingsFields
<1>5. ~\E d \in Callers : Cleanup(d)
  BY <1>0, UndoneType DEF Cleanup, Undone
<1>6. ~Poll
  <2>1. SUFFICES ASSUME Poll PROVE FALSE
    OBVIOUS
  <2>2. pending # None /\ Answer(Undone("not_ready"))
    BY <1>0, <2>1 DEF Poll, Complete
  <2>3. Undone("not_ready") \in Outcomes /\ Undone("not_ready") # "confirmed"
    BY DEF Undone, Outcomes
  <2> QED  BY <1>1, <2>2, <2>3
<1>7. ~\E cancelled \in BOOLEAN : JournalCommit(cancelled) \/ BoundaryCommit(cancelled)
  BY <1>0, <1>1 DEF JournalCommit, BoundaryCommit, Complete, NoAnswer, Outcomes, Inv,
                    CommandInv, DeliveryHasCommand
<1>8. ~\E arrives, raises \in BOOLEAN : SendBody(arrives, raises)
  BY <1>0, <1>1 DEF SendBody, Complete, Outcomes, Inv, CommandInv, DeliveryHasCommand
<1>9. ~Reload
  BY <1>0, <1>1 DEF Reload, NoAnswer, Outcomes
<1>10. ~Crash
  BY <1>0 DEF Crash
<1>11. ~\E d \in Callers : (\E f \in CommandFields, v \in Values : Request(d, f, v))
                            \/ GiveUp(d, "expiring") \/ GiveUp(d, "cancelling")
                            \/ Abandon(d)
  BY <1>0 DEF Request, GiveUp, Abandon
<1>12. ~(UNCHANGED vars \/ UnlockedStep \/ DeviceStep \/ UploadReceived
         \/ MonitorRejected \/ MonitorWhileLatched \/ PersistFails)
  BY <1>0 DEF vars, UnlockedStep, DeviceStep, Contact, MarkUnavailable, MonitorStale, Tick,
       EditField, EditSchedule, ApplyBody, DropBody, LoseMonitor, LoseUpload,
       CaptureMonitor, UploadArrives, UploadReceived, MonitorRejected,
       MonitorWhileLatched, PersistFails
<1> QED
  BY <1>2, <1>3, <1>4, <1>5, <1>6, <1>7, <1>8, <1>9, <1>10, <1>11, <1>12
  DEF Next, TransactionStep, CallerStep, LockedStep

(* A call succeeds only if the thermostat held the value after the body was
   first sent, and a later report has shown the field.                     *)
THEOREM SuccessKept ==
  ASSUME ClockOffset =< 0
  PROVE  Spec => SuccessNeedsEvidence
<1> DEFINE Seen == \A c \in Callers :
                     Becomes(c, {"confirmed"}) => truth'.held /\ truth'.shown # {}
<1>1. Telling
  BY AheadType DEF Telling
<1>2. Evident /\ [Next]_vars => [Seen]_vars
  BY <1>1, SuccessSeen
<1> QED  BY <1>2, EvidenceInvariance, PTL DEF Spec, SuccessNeedsEvidence

(* The same at any clock that is accepted, for a command that was never sent,
   whose field uploads own, or that an upload has echoed.                  *)
THEOREM SuccessKeptAtAnyClock == Spec => SuccessAtAnyClock
<1> DEFINE Seen == \A c \in Callers :
                     /\ Becomes(c, {"confirmed"})
                     /\ \/ ~truth.sent \/ truth.field = "prefs"
                        \/ pending # None /\ pending.echoAt # NoTime
                     => truth'.held /\ truth'.shown # {}
<1>1. Evident /\ [Next]_vars => [Seen]_vars
  BY SuccessSeen DEF Telling
<1> QED  BY <1>1, EvidenceInvariance, PTL DEF Spec, SuccessAtAnyClock

-----------------------------------------------------------------------------
(* The contract *)

(* What a report is about to install is settled when it is made.           *)
LEMMA ShadowSettles ==
  ASSUME Inv, NEW r
  PROVE  /\ ShadowOf(r).uncertain \in {uncertain, None}
         /\ ShadowOf(r).verdict # "open" => ShadowOf(r).uncertain = None
<1>1. /\ ShadowOf(r).verdict = IF Confirms(r) THEN "confirmed" ELSE Reconciled(r)
      /\ ShadowOf(r).uncertain = IF Confirms(r) \/ Resolves(r) THEN None ELSE uncertain
  BY DEF ShadowOf
<1>2. Reconciled(r) # "open" => uncertain = None
  BY DEF Reconciled, PostQueue, Inv, CommandInv, QueuedIsUnsent
<1> QED  BY <1>1, <1>2

LEMMA SettleStep == Inv /\ AnswersSettle /\ [Next]_vars => AnswersSettle'
<1> SUFFICES ASSUME Inv, AnswersSettle, [Next]_vars PROVE AnswersSettle'
  OBVIOUS
<1>1. CASE MonitorAccepted
  <2>1. \/ txn' = None
        \/ txn' = [op |-> "monitor", shadow |-> ShadowOf(monitor)] /\ uncertain' = uncertain
    BY <1>1 DEF MonitorAccepted
  <2> QED  BY <2>1, ShadowSettles DEF AnswersSettle
<1>2. CASE JournalCommit(TRUE) \/ JournalCommit(FALSE)
  <2>1. txn' = None \/ txn' = [op |-> "send"]
    BY <1>2 DEF JournalCommit
  <2> QED  BY <2>1 DEF AnswersSettle
<1>3. ASSUME NEW arrives, NEW raises, SendBody(arrives, raises) PROVE AnswersSettle'
  <2>1. txn' = None \/ txn' = [op |-> "boundary", at |-> now]
    BY <1>3 DEF SendBody, AfterSend
  <2> QED  BY <2>1 DEF AnswersSettle
<1>4. CASE Poll \/ UploadReceived
  <2>1. \/ txn' = [op |-> "send"] \/ txn' = [op |-> "journal"]
        \/ txn' = [op |-> "upload", report |-> upload]
        \/ txn' = None
    BY <1>4 DEF Poll, UploadReceived
  <2> QED  BY <2>1 DEF AnswersSettle
<1>5. CASE \/ BoundaryCommit(TRUE) \/ BoundaryCommit(FALSE)
           \/ MonitorCommit \/ UploadCommit \/ PersistFails \/ Crash \/ Reload
  BY <1>5 DEF BoundaryCommit, MonitorCommit, UploadCommit, PersistFails, Crash, Reload,
     Restore, AnswersSettle
<1>6. CASE CallerStep \/ MonitorRejected \/ MonitorWhileLatched \/ UNCHANGED vars
  <2>1. txn' = txn /\ uncertain' = uncertain
    BY <1>6 DEF CallerStep, Request, GiveUp, Cleanup, Abandon, MonitorRejected, MonitorWhileLatched,
       durable, vars
  <2> QED  BY <2>1 DEF AnswersSettle
<1>7. CASE UnlockedStep \/ DeviceStep
  <2>1. txn' = txn /\ uncertain' = uncertain
    BY <1>7 DEF UnlockedStep, DeviceStep, Contact, MarkUnavailable, MonitorStale, Tick,
       EditField, EditSchedule, ApplyBody, DropBody, LoseMonitor, LoseUpload,
       CaptureMonitor, UploadArrives, durable
  <2> QED  BY <2>1 DEF AnswersSettle
<1> QED
  BY <1>1, <1>2, <1>3, <1>4, <1>5, <1>6, <1>7 DEF Next, TransactionStep, LockedStep

Settled == Evident /\ AnswersSettle /\ Ahead = 0

LEMMA SettledInvariance ==
  ASSUME ClockOffset =< 0
  PROVE  Spec => []Settled
<1>1. Init => AnswersSettle
  BY DEF Init, AnswersSettle
<1>2. Settled /\ [Next]_vars => Settled'
  BY EvidenceStep, SettleStep DEF Settled, Evident
<1>3. Init => Settled
  BY <1>1, EvidenceInit, AheadType DEF Settled
<1> QED  BY <1>2, <1>3, PTL DEF Spec

(* The command, its journal and its owner, as the contract has them.       *)
LEMMA CommandIs ==
  ASSUME Inv
  PROVE  /\ truth # None => CommandOf(truth) # None
         /\ pending # None => Owner = pending.owner /\ Owner \in Callers
         /\ Owner # None <=> pending # None
         /\ ~latched => CommandOf(disk.uncertain) = CommandOf(uncertain)
<1>1. truth # None => CommandOf(truth) \in [field : CommandFields, want : Values]
  BY DEF Inv, TypeInv, TypeOK, History, CommandOf
<1>2. pending # None => pending.owner \in Callers
  BY DEF Inv, TypeInv, TypeOK, Command
<1>3. ~latched => disk.uncertain = uncertain
  BY DEF Inv, CommandInv, Persisted
<1> QED  BY <1>1, <1>2, <1>3, NoneAssumption DEF Owner

LEMMA RecordIs ==
  ASSUME Settled, NEW image \in Records
  PROVE  /\ CommandOf(image.uncertain) \in {CommandOf(truth), None}
         /\ CommandOf(image.uncertain) = None => ~(WasSent /\ ~WasSeen)
<1>1. image.uncertain # None => CommandOf(image.uncertain) = CommandOf(truth)
                                /\ truth # None
  BY DEF Settled, Evident, EvidenceInv, JournalsNameLatest, Named, CommandOf
<1>2. image.uncertain = None => ~(WasSent /\ ~WasSeen)
  BY DEF Settled, Evident, EvidenceInv, WireCovered, Named, WasSent, WasSeen
<1> QED  BY <1>1, <1>2, CommandIs DEF CommandOf, Settled, Evident

RecordTells ==
  /\ CommandOf(disk.uncertain) \in {CommandOf(truth), None}
  /\ CommandOf(disk.uncertain) = None => ~(WasSent /\ ~WasSeen)

LEMMA RecordNow == Settled => RecordTells
<1>1. disk \in Records
  BY DEF Records, Images
<1> QED  BY <1>1, RecordIs DEF RecordTells

LEMMA RecordNext == Settled' => RecordTells'
  BY RecordNow, PTL

(* What a write may leave is what the contract lets a write leave.         *)
LEMMA ImageRecords ==
  ASSUME Settled, NEW image \in Images
  PROVE  \/ CommandOf(image.uncertain) = CommandOf(disk.uncertain)
         \/ Owner # None /\ CommandOf(image.uncertain) = CommandOf(truth)
         \/ ~(WasSent /\ ~WasSeen) /\ CommandOf(image.uncertain) = None
<1> USE DEF Settled, Evident
<1>1. image \in Records
  BY DEF Records
<1>2. image = disk \/ (Writing /\ image = Candidate)
  BY DEF Images
<1>3. ASSUME Writing, image = Candidate, txn.op \in {"monitor", "upload"}
      PROVE  image.uncertain \in {uncertain, None} /\ ~latched
  <2>1. txn # None /\ ~latched
    BY <1>3 DEF Writing, Inv, CommandInv
  <2>2. CASE txn.op = "monitor"
    BY <1>3, <2>1, <2>2 DEF Candidate, AnswersSettle
  <2>3. CASE txn.op = "upload"
    BY <1>3, <2>1, <2>3 DEF Candidate, AfterUpload
  <2> QED  BY <1>3, <2>1, <2>2, <2>3
<1>4. ASSUME Writing, txn.op \in {"journal", "boundary"}
      PROVE  Owner # None
  BY <1>4, CommandIs DEF Writing, Inv, CommandInv, DeliveryHasCommand
<1>5. Writing => txn.op \in {"journal", "boundary", "monitor", "upload"}
  BY DEF Writing, Inv, TypeInv, TypeOK, Transaction
<1>6. CommandOf(image.uncertain) \in {CommandOf(truth), None}
      /\ (CommandOf(image.uncertain) = None => ~(WasSent /\ ~WasSeen))
  BY <1>1, RecordIs
<1>7. CommandOf(None) = None
  BY DEF CommandOf
<1> QED  BY <1>2, <1>3, <1>4, <1>5, <1>6, <1>7, CommandIs

(* The answer of the owner ends its command.                               *)
LEMMA AnswerEnds ==
  ASSUME Inv, pending # None, NEW result \in Outcomes, Answer(result), pending' = None
  PROVE  Contract!End(result)
<1>1. caller \in [Callers -> Waiting \cup Outcomes] /\ pending.owner \in Callers
  BY DEF Inv, TypeInv, TypeOK, Command
<1>2. Owner = pending.owner /\ Owner # None /\ Owner' = None
  BY CommandIs DEF Owner
<1>3. Heard' = [Heard EXCEPT ![pending.owner] =
                  IF @ = "waiting" THEN result ELSE @]
  <2>1. caller' = [caller EXCEPT ![pending.owner] =
                     IF @ \in {"waiting", "expiring"} THEN result ELSE @]
    BY DEF Answer
  <2>2. \A c \in Callers : caller'[c] # "expiring"
    BY AnswerFrees
  <2>3. \A c \in Callers : c # pending.owner => caller[c] # "expiring"
    BY DEF Inv, CommandInv, WaiterOwnsCommand
  <2>4. Heard' = [c \in Callers |-> caller'[c]]
    BY <2>2 DEF Heard
  <2> QED  BY <1>1, <2>1, <2>3, <2>4 DEF Heard
<1> QED  BY <1>2, <1>3 DEF Contract!End

(* What changes nothing of the command is a stutter.                       *)
LEMMA QuietContract ==
  ASSUME truth' = truth, disk' = disk, caller' = caller, Owner' = Owner
  PROVE  UNCHANGED Contract!contract
  BY DEF Contract!contract, CommandOf, WasSent, WasHeld, WasSeen, Heard

(* Doubt may always be said of a command.                                  *)
LEMMA DoubtContract ==
  ASSUME Settled, pending # None, Answer("outcome_uncertain"), pending' = None,
         truth' = truth, CommandOf(disk.uncertain)' = CommandOf(disk.uncertain)
  PROVE  Contract!Doubt
<1>1. Contract!End("outcome_uncertain")
  BY AnswerEnds DEF Settled, Evident, Outcomes
<1>2. UNCHANGED <<CommandOf(truth), WasSent, WasHeld, WasSeen>>
  BY DEF CommandOf, WasSent, WasHeld, WasSeen
<1>3. CommandOf(disk.uncertain) = CommandOf(truth) \/ ~(WasSent /\ ~WasSeen)
  BY RecordNow DEF RecordTells, Settled
<1> QED  BY <1>1, <1>2, <1>3 DEF Contract!Doubt, Contract!Exposed

(* Callers.                                                                *)
LEMMA ContractCaller ==
  ASSUME Settled, Settled', CallerStep
  PROVE  Contract!Next \/ UNCHANGED Contract!contract
<1> USE DEF Settled, Evident
<1>1. ASSUME NEW c \in Callers, NEW f \in CommandFields, NEW v \in Values, Request(c, f, v)
      PROVE  Contract!Ask(c, [field |-> f, want |-> v])
  <2>1. /\ truth' = [field |-> f, want |-> v, sent |-> FALSE, held |-> dev[f] = v,
                     shown |-> {}]
        /\ pending = None /\ pending'.owner = c /\ uncertain = None /\ ~latched
        /\ disk' = disk /\ caller' = [caller EXCEPT ![c] = "waiting"]
        /\ caller[c] \notin Waiting
    BY <1>1 DEF Request, Ready, Blocked, CanEnableControl, CanonicalSafe, durable
  <2>2. truth' \in History /\ truth' # None /\ pending' # None
    <3>1. truth' \in History /\ pending' \in Command \cup {None}
      BY <2>1 DEF History, Inv, TypeInv, TypeOK
    <3>2. pending' \in Command
      BY <1>1, PayloadType, ConstantsAssumption
      DEF Request, Command, Times, NoTime, Inv, TypeInv, TypeOK
    <3> QED  BY <3>1, <3>2, NoneAssumption
  <2>3. /\ CommandOf(truth)' = [field |-> f, want |-> v]
        /\ WasSent' = FALSE /\ WasSeen' = FALSE /\ WasHeld' \in BOOLEAN
    BY <2>1, <2>2 DEF CommandOf, WasSent, WasSeen, WasHeld
  <2>4. Owner = None /\ Owner' = c
    BY <2>1, <2>2 DEF Owner
  <2>5. CommandOf(disk.uncertain) = None /\ CommandOf(disk.uncertain)' = None
    BY <2>1, CommandIs DEF CommandOf
  <2>6. Heard' = [Heard EXCEPT ![c] = "waiting"] /\ Heard[c] \notin {"waiting", "cancelling"}
    BY <2>1 DEF Heard, Waiting, Inv, TypeInv, TypeOK
  <2> QED  BY <2>3, <2>4, <2>5, <2>6 DEF Contract!Ask, Contract!Busy
<1>2. ASSUME NEW c \in Callers, GiveUp(c, "expiring")
      PROVE  UNCHANGED Contract!contract
  <2>1. truth' = truth /\ disk' = disk /\ pending' = pending
        /\ caller[c] = "waiting" /\ caller' = [caller EXCEPT ![c] = "expiring"]
    BY <1>2 DEF GiveUp, durable
  <2>2. Heard' = Heard
    BY <2>1 DEF Heard, Inv, TypeInv, TypeOK
  <2> QED
    BY <2>1, <2>2 DEF Contract!contract, CommandOf, WasSent, WasHeld, WasSeen, Owner
<1>3. ASSUME NEW c \in Callers, GiveUp(c, "cancelling")
      PROVE  Contract!Cancel(c)
  <2>1. truth' = truth /\ disk' = disk /\ pending' = pending
        /\ caller[c] = "waiting" /\ caller' = [caller EXCEPT ![c] = "cancelling"]
    BY <1>3 DEF GiveUp, durable
  <2>2. Heard[c] = "waiting" /\ Heard' = [Heard EXCEPT ![c] = "cancelling"]
    BY <2>1 DEF Heard, Inv, TypeInv, TypeOK
  <2> QED
    BY <2>1, <2>2 DEF Contract!Cancel, CommandOf, WasSent, WasHeld, WasSeen, Owner
<1>4. ASSUME NEW c \in Callers, Cleanup(c)
      PROVE  Contract!Cancelled(c) \/ Contract!Refuse \/ Contract!Doubt
  <2>1. /\ truth' = truth /\ disk' = disk
        /\ pending' = (IF Owns(c) THEN None ELSE pending)
        /\ caller[c] \in {"expiring", "cancelling"}
        /\ caller' = [caller EXCEPT ![c] =
             IF @ = "cancelling" THEN "cancelled"
             ELSE IF Owns(c) THEN Undone("timeout") ELSE "outcome_uncertain"]
    BY <1>4 DEF Cleanup, durable
  <2>2. UNCHANGED <<CommandOf(truth), WasSent, WasHeld, WasSeen, CommandOf(disk.uncertain)>>
    BY <2>1 DEF CommandOf, WasSent, WasHeld, WasSeen
  <2>3. CASE caller[c] = "cancelling"
    <3>1. Heard[c] = "cancelling" /\ Heard' = [Heard EXCEPT ![c] = "cancelled"]
      BY <2>1, <2>3 DEF Heard, Inv, TypeInv, TypeOK
    <3>2. Owner' = Owner \/ (Owner = c /\ Owner' = None)
      BY <2>1, NoneAssumption DEF Owner, Owns
    <3> QED  BY <2>2, <3>1, <3>2 DEF Contract!Cancelled, Contract!Busy
  <2>4. CASE caller[c] = "expiring"
    <3>1. pending # None /\ pending.owner = c /\ Owns(c) /\ pending' = None
      BY <2>1, <2>4 DEF Inv, CommandInv, WaiterOwnsCommand, Owns
    <3>2. Answer(Undone("timeout"))
      BY <2>1, <2>4, <3>1 DEF Answer, Inv, TypeInv, TypeOK
    <3>3. CASE pending.delivered
      <4>1. Undone("timeout") = "outcome_uncertain"
        BY <3>3 DEF Undone
      <4> QED  BY <2>1, <2>2, <3>1, <3>2, <4>1, DoubtContract
    <3>4. CASE ~pending.delivered
      <4>1. Undone("timeout") = "timeout" /\ ~WasSent
        BY <3>1, <3>4 DEF Undone, WasSent, Inv, CommandInv, QueuedIsUnsent
      <4>2. Contract!End("timeout")
        BY <3>1, <3>2, <4>1, AnswerEnds DEF Outcomes
      <4> QED  BY <2>2, <4>1, <4>2 DEF Contract!Refuse
    <3> QED  BY <3>3, <3>4
  <2> QED  BY <2>1, <2>3, <2>4
<1>5. ASSUME NEW c \in Callers, Abandon(c)
      PROVE  Contract!Cancelled(c)
  <2>1. truth' = truth /\ disk' = disk /\ pending' = pending
        /\ caller[c] \in {"expiring", "cancelling"}
        /\ caller' = [caller EXCEPT ![c] = "cancelled"]
    BY <1>5 DEF Abandon, durable
  <2>2. Heard[c] \in {"waiting", "cancelling"} /\ Heard' = [Heard EXCEPT ![c] = "cancelled"]
    BY <2>1 DEF Heard, Inv, TypeInv, TypeOK
  <2> QED
    BY <2>1, <2>2 DEF Contract!Cancelled, Contract!Busy, CommandOf, WasSent, WasHeld, WasSeen,
                      Owner
<1>6. \A f \in CommandFields, v \in Values :
        [field |-> f, want |-> v] \in [field : CommandFields, want : Values]
  OBVIOUS
<1> QED  BY <1>1, <1>2, <1>3, <1>4, <1>5, <1>6 DEF CallerStep, Contract!Next

(* Delivery.                                                               *)
LEMMA ContractPoll ==
  ASSUME Settled, Poll
  PROVE  Contract!Next \/ UNCHANGED Contract!contract
<1> USE DEF Settled, Evident
<1>1. truth' = truth /\ disk' = disk /\ pending # None
  BY DEF Poll, durable
<1>2. UNCHANGED <<CommandOf(truth), WasSent, WasHeld, WasSeen, CommandOf(disk.uncertain)>>
  BY <1>1 DEF CommandOf, WasSent, WasHeld, WasSeen
<1>3. CASE ~Blocked
  BY <1>1, <1>3, QuietContract DEF Poll, Owner
<1>4. CASE Blocked /\ pending.delivered
  BY <1>1, <1>2, <1>4, DoubtContract DEF Poll, Complete, Undone, Contract!Next
<1>5. CASE Blocked /\ ~pending.delivered
  <2>1. pending' = None /\ Answer("not_ready") /\ ~WasSent
    BY <1>1, <1>5
    DEF Poll, Complete, Undone, WasSent, Inv, CommandInv, QueuedIsUnsent
  <2>2. Contract!End("not_ready")
    BY <1>1, <2>1, AnswerEnds DEF Outcomes
  <2> QED  BY <1>2, <2>1, <2>2 DEF Contract!Refuse, Contract!Next
<1> QED  BY <1>3, <1>4, <1>5

LEMMA ContractJournal ==
  ASSUME Settled, Settled', NEW cancelled \in BOOLEAN, JournalCommit(cancelled)
  PROVE  Contract!Journal \/ Contract!Doubt
<1> USE DEF Settled, Evident
<1>1. /\ pending # None /\ ~pending.delivered /\ ~truth.sent /\ truth \in History
      /\ pending \in Command /\ disk'.uncertain = WriteAhead(NoTime)
      /\ truth.field = pending.field /\ truth.want = pending.want
      /\ truth' = [truth EXCEPT !.shown = {}]
  BY DEF JournalCommit, Inv, CommandInv, DeliveryHasCommand, QueuedIsUnsent, TypeInv, TypeOK,
         EvidenceInv, CommandIsLatest, Linked
<1>2. truth # None /\ truth' # None /\ truth' \in History
  BY <1>1, NoneAssumption DEF History
<1>3. UNCHANGED <<CommandOf(truth), WasSent, WasHeld>> /\ ~WasSent /\ WasSeen' = FALSE
  BY <1>1, <1>2 DEF CommandOf, WasSent, WasHeld, WasSeen, History
<1>4. CommandOf(disk.uncertain)' = CommandOf(truth)
  <2>1. WriteAhead(NoTime) # None
    BY <1>1, WriteAheadNames DEF Times
  <2> QED  BY <1>1, <1>2, <2>1 DEF CommandOf, WriteAhead
<1>5. CASE pending' = None /\ Answer("outcome_uncertain")
  <2>1. Contract!End("outcome_uncertain")
    BY <1>1, <1>5, AnswerEnds DEF Outcomes
  <2> QED  BY <1>3, <1>4, <2>1 DEF Contract!Doubt
<1>6. CASE pending' = [pending EXCEPT !.delivered = TRUE] /\ caller' = caller
  <2>1. pending' \in Command /\ pending'.owner = pending.owner
    BY <1>1, <1>6 DEF Command
  <2>2. Owner' = Owner /\ Owner # None /\ Heard' = Heard
    BY <1>1, <1>6, <2>1, CommandIs, NoneAssumption DEF Owner, Heard
  <2> QED  BY <1>3, <1>4, <2>2 DEF Contract!Journal
<1> QED  BY <1>5, <1>6 DEF JournalCommit, Complete, NoAnswer

LEMMA ContractSend ==
  ASSUME Settled, NEW arrives, NEW raises, SendBody(arrives, raises)
  PROVE  Contract!Next \/ UNCHANGED Contract!contract
<1> USE DEF Settled, Evident
<1>1. /\ pending # None /\ pending.delivered /\ truth \in History /\ ~latched
      /\ disk = Persisted /\ disk' = disk
      /\ truth.field = pending.field /\ truth.want = pending.want
  BY DEF SendBody, Inv, CommandInv, DeliveryHasCommand, EvidenceInv, CommandIsLatest,
         TypeInv, TypeOK, Linked, durable
<1>2. truth # None
  BY <1>1, NoneAssumption
<1>3. CASE truth.sent
  <2>1. truth' = truth
    BY <1>3 DEF SendBody
  <2>2. CASE pending' = pending /\ caller' = caller
    BY <1>1, <2>1, <2>2, QuietContract DEF Owner
  <2>3. CASE Complete("outcome_uncertain")
    BY <1>1, <2>1, <2>3, DoubtContract DEF Complete, Contract!Next
  <2> QED  BY <2>2, <2>3 DEF SendBody
<1>4. CASE ~truth.sent
  <2>1. truth' = [truth EXCEPT !.sent = TRUE, !.shown = {},
                               !.held = dev[truth.field] = truth.want]
    BY <1>4 DEF SendBody
  <2>2. truth' \in History /\ truth' # None
    <3>1. truth' \in History
      BY <1>1, <2>1 DEF History
    <3> QED  BY <3>1, NoneAssumption
  <2>3. /\ CommandOf(truth)' = CommandOf(truth) /\ ~WasSent
        /\ WasSent' = TRUE /\ WasSeen' = FALSE /\ WasHeld' \in BOOLEAN
    BY <1>1, <1>2, <1>4, <2>1, <2>2 DEF CommandOf, WasSent, WasSeen, WasHeld, History
  <2>4. CommandOf(disk.uncertain) = CommandOf(truth)
    BY <1>1, <1>2, OneBoundary DEF CommandOf, Persisted
  <2>5. pending.deliveredAt = NoTime
    <3>1. disk \in Records
      BY DEF Records, Images
    <3>2. Named(disk) /\ disk.uncertain.deliveredAt = pending.deliveredAt
      BY <1>1, OneBoundary DEF Named, Persisted
    <3> QED
      BY <1>4, <3>1, <3>2 DEF EvidenceInv, JournalsNameLatest, Bounded
  <2>6. pending' = pending /\ caller' = caller
    BY <2>5 DEF SendBody
  <2>7. UNCHANGED <<Owner, Heard, CommandOf(disk.uncertain)>> /\ Owner # None
    BY <1>1, <2>6, CommandIs DEF Owner, Heard, CommandOf
  <2> QED  BY <2>3, <2>4, <2>7 DEF Contract!Send, Contract!Next
<1> QED  BY <1>3, <1>4

LEMMA ContractBoundary ==
  ASSUME Settled, Settled', NEW cancelled \in BOOLEAN, BoundaryCommit(cancelled)
  PROVE  Contract!Next \/ UNCHANGED Contract!contract
<1> USE DEF Settled, Evident
<1>1. /\ pending # None /\ pending.delivered /\ pending \in Command /\ ~latched
      /\ disk = Persisted /\ disk'.uncertain = WriteAhead(txn.at) /\ truth' = truth
      /\ txn.at \in Nat
  BY StampTypes
  DEF BoundaryCommit, Inv, CommandInv, DeliveryHasCommand, TypeInv, TypeOK
<1>2. CommandOf(disk.uncertain)' = CommandOf(disk.uncertain)
  <2>1. WriteAhead(txn.at) # None
    BY <1>1, WriteAheadNames DEF Times
  <2> QED  BY <1>1, <2>1, OneBoundary DEF CommandOf, WriteAhead, Persisted
<1>3. CASE Complete("outcome_uncertain")
  BY <1>1, <1>2, <1>3, DoubtContract DEF Complete, Contract!Next
<1>4. CASE pending' = [pending EXCEPT !.deliveredAt = txn.at] /\ caller' = caller
  <2>1. pending' \in Command /\ pending'.owner = pending.owner
    BY <1>1, <1>4 DEF Command, Times
  <2>2. Owner' = Owner /\ Heard' = Heard
    BY <1>1, <1>4, <2>1, NoneAssumption DEF Owner, Heard
  <2>3. UNCHANGED <<CommandOf(truth), WasSent, WasHeld, WasSeen>>
    BY <1>1 DEF CommandOf, WasSent, WasHeld, WasSeen
  <2> QED  BY <1>2, <2>2, <2>3 DEF Contract!contract
<1> QED  BY <1>3, <1>4 DEF BoundaryCommit, NoAnswer

(* What the server learns is seen, or was.                                 *)
LEMMA LearnContract ==
  ASSUME Inv, NEW r, NEW tag \in {"full", "sparse", "upload"}, Learn(r, tag)
  PROVE  /\ UNCHANGED <<CommandOf(truth), WasSent, WasHeld>>
         /\ WasSeen' = WasSeen \/ (WasSeen' = TRUE /\ CommandOf(truth) # None)
<1>1. CASE truth = None
  <2>1. truth' = truth
    BY <1>1, LearnAdds
  <2> QED  BY <2>1 DEF CommandOf, WasSent, WasHeld, WasSeen
<1>2. CASE truth # None
  <2>1. /\ truth' # None /\ truth'.field = truth.field /\ truth'.want = truth.want
        /\ truth'.sent = truth.sent /\ truth'.held = truth.held
        /\ truth'.shown = truth.shown \/ truth'.shown # {}
    BY <1>2, LearnAdds
  <2> QED  BY <1>2, <2>1, CommandIs DEF CommandOf, WasSent, WasHeld, WasSeen
<1> QED  BY <1>1, <1>2

(* An answer on evidence succeeds; another one supersedes.                 *)
LEMMA VerdictContract ==
  ASSUME Settled, Settled', pending # None, pending' = None,
         NEW verdict \in {"confirmed", "state_changed"}, Answer(verdict),
         verdict = "confirmed" => WasHeld' /\ WasSeen',
         UNCHANGED <<CommandOf(truth), WasSent, WasHeld>>,
         WasSeen' = WasSeen \/ WasSeen' = TRUE,
         disk'.uncertain = None
  PROVE  Contract!Succeed \/ Contract!Supersede
<1>1. Contract!End(verdict)
  BY AnswerEnds DEF Settled, Evident, Outcomes
<1>2. CommandOf(disk.uncertain)' = None
  BY DEF CommandOf
<1>3. ~(WasSent' /\ ~WasSeen')
  BY <1>2, RecordNext DEF RecordTells, Settled
<1>4. WasHeld \in BOOLEAN /\ WasSeen \in BOOLEAN /\ WasSent \in BOOLEAN
      /\ WasSeen' \in BOOLEAN
  BY DEF WasHeld, WasSeen, WasSent, Settled, Evident, Inv, TypeInv, TypeOK, History
<1>5. CASE verdict = "confirmed"
  BY <1>1, <1>2, <1>4, <1>5 DEF Contract!Succeed
<1>6. CASE verdict = "state_changed"
  BY <1>1, <1>2, <1>3, <1>4, <1>6 DEF Contract!Supersede
<1> QED  BY <1>5, <1>6

(* A shadow that is installed keeps the owner or answers it.               *)
LEMMA InstallContract ==
  ASSUME Settled, NEW shadow \in Shadow, KeepsCommand(shadow), Install(shadow)
  PROVE  \/ shadow.verdict = "open" /\ Owner' = Owner /\ Heard' = Heard
         \/ /\ shadow.verdict \in {"confirmed", "state_changed"} /\ Answer(shadow.verdict)
            /\ pending # None /\ pending' = None
<1>1. CASE shadow.verdict = "open"
  BY <1>1 DEF Install, KeepsCommand, NoAnswer, Owner, Heard
<1>2. CASE shadow.verdict # "open"
  BY <1>2 DEF Install, KeepsCommand, Shadow
<1> QED  BY <1>1, <1>2

LEMMA ContractAccepted ==
  ASSUME Settled, Settled', MonitorAccepted
  PROVE  Contract!Next \/ UNCHANGED Contract!contract
<1> USE DEF Settled, Evident
<1> DEFINE shadow == ShadowOf(monitor)
<1>1. /\ monitor # None /\ monitor \in Report /\ ~latched /\ disk' = disk
  BY StampTypes DEF MonitorAccepted
<1>2. PICK tag \in {"full", "sparse"} : Learn(monitor, tag)
  BY DEF MonitorAccepted
<1>3. shadow \in Shadow /\ KeepsCommand(shadow)
  BY <1>1, ShadowType, ShadowCommand DEF Inv, TypeInv
<1>4. /\ UNCHANGED <<CommandOf(truth), WasSent, WasHeld, CommandOf(disk.uncertain)>>
      /\ WasSeen' = WasSeen \/ (WasSeen' = TRUE /\ CommandOf(truth) # None)
  BY <1>1, <1>2, LearnContract DEF CommandOf
<1>5. shadow.verdict = "confirmed" => WasHeld' /\ WasSeen'
  <2>1. shadow.verdict = "confirmed" => Confirms(monitor) \/ Reconciled(monitor) = "confirmed"
    BY DEF ShadowOf
  <2> HIDE DEF shadow
  <2> QED
    BY <1>1, <1>2, <2>1, ConfirmsIsSeen, ReconciledIsSeen DEF WasHeld, WasSeen, Telling
<1>6. shadow.verdict # "open" => shadow.uncertain = None
  BY ShadowSettles
<1>7. \/ Install(shadow) /\ shadow.uncertain = uncertain
      \/ pending' = pending /\ caller' = caller
  BY DEF MonitorAccepted
<1> HIDE DEF shadow
<1>8. CASE Owner' = Owner /\ Heard' = Heard
  BY <1>4, <1>8 DEF Contract!See, Contract!Next, Contract!contract
<1>9. CASE /\ shadow.verdict \in {"confirmed", "state_changed"} /\ Answer(shadow.verdict)
           /\ pending # None /\ pending' = None /\ shadow.uncertain = uncertain
  <2>1. disk'.uncertain = None
    BY <1>1, <1>6, <1>9 DEF Inv, CommandInv, Persisted
  <2> QED  BY <1>4, <1>5, <1>9, <2>1, VerdictContract DEF Contract!Next
<1> QED  BY <1>3, <1>7, <1>8, <1>9, InstallContract DEF Owner, Heard

LEMMA ContractInstalled ==
  ASSUME Settled, Settled', MonitorCommit
  PROVE  Contract!Next \/ UNCHANGED Contract!contract
<1> USE DEF Settled, Evident
<1>1. /\ txn # None /\ txn.op = "monitor" /\ txn.shadow \in Shadow /\ truth' = truth
      /\ KeepsCommand(txn.shadow) /\ Install(txn.shadow) /\ ~latched
      /\ disk'.uncertain = txn.shadow.uncertain
  BY StampTypes DEF MonitorCommit, Inv, CommandInv, ShadowKeepsCommand
<1>2. UNCHANGED <<CommandOf(truth), WasSent, WasHeld, WasSeen>>
  BY <1>1 DEF CommandOf, WasSent, WasHeld, WasSeen
<1>3. /\ txn.shadow.uncertain \in {uncertain, None}
      /\ txn.shadow.verdict # "open" => txn.shadow.uncertain = None
  BY <1>1 DEF AnswersSettle
<1>4. CASE Owner' = Owner /\ Heard' = Heard
  <2>1. CommandOf(disk.uncertain)' \in {CommandOf(disk.uncertain), None}
    BY <1>1, <1>3, CommandIs DEF CommandOf
  <2>2. CommandOf(disk.uncertain)' = None => ~(WasSent /\ ~WasSeen)
    BY <1>2, RecordNext DEF RecordTells
  <2> QED
    BY <1>2, <1>4, <2>1, <2>2
    DEF Contract!Settle, Contract!MayRecord, Contract!Exposed, Contract!Next
<1>5. CASE /\ txn.shadow.verdict \in {"confirmed", "state_changed"}
           /\ Answer(txn.shadow.verdict) /\ pending # None /\ pending' = None
  <2>1. txn.shadow.verdict = "confirmed" => WasHeld' /\ WasSeen'
    BY <1>1 DEF EvidenceInv, ValuesTell, Telling, WasHeld, WasSeen
  <2> QED  BY <1>1, <1>2, <1>3, <1>5, <2>1, VerdictContract DEF Contract!Next
<1> QED  BY <1>1, <1>4, <1>5, InstallContract

LEMMA ContractReceived ==
  ASSUME Settled, UploadReceived
  PROVE  Contract!Next \/ UNCHANGED Contract!contract
<1>1. /\ truth' = truth \/ Learn(upload, "upload")
      /\ UNCHANGED <<disk, Owner, Heard, CommandOf(disk.uncertain)>>
  BY DEF UploadReceived, durable, Owner, Heard, CommandOf
<1>2. /\ UNCHANGED <<CommandOf(truth), WasSent, WasHeld>>
      /\ WasSeen' = WasSeen \/ (WasSeen' = TRUE /\ CommandOf(truth) # None)
  <2>1. CASE truth' = truth
    BY <2>1 DEF CommandOf, WasSent, WasHeld, WasSeen
  <2> QED  BY <1>1, <2>1, LearnContract DEF Settled, Evident
<1> QED  BY <1>1, <1>2 DEF Contract!See, Contract!Next, Contract!contract

LEMMA ContractUpload ==
  ASSUME Settled, Settled', UploadCommit
  PROVE  Contract!Next \/ UNCHANGED Contract!contract
<1> USE DEF Settled, Evident
<1> DEFINE u == txn.report
<1>1. /\ txn # None /\ txn.op = "upload" /\ u \in Upload /\ ~latched
      /\ truth' = truth /\ disk'.uncertain = AfterUpload(u).uncertain
      /\ Dated(u.at, u.post) /\ Whole(u) /\ ShowsHeld(u.vals, u.post)
      /\ truth # None /\ u.post /\ u.kind # "partial"
         /\ truth.field \in FieldsOf(u.kind) => truth.shown # {}
  BY StampTypes
  DEF UploadCommit, EvidenceInv, StampsTell, ValuesTell, Inv, CommandInv
<1>2. UNCHANGED <<CommandOf(truth), WasSent, WasHeld, WasSeen>>
  BY <1>1 DEF CommandOf, WasSent, WasHeld, WasSeen
<1>3. \/ pending' = pending /\ caller' = caller
      \/ /\ pending # None /\ caller' = caller
         /\ \/ pending' = [pending EXCEPT !.echoAt = u.at] /\ u.at \in Nat
            \/ pending' = [pending EXCEPT !.payload =
                 CommandPayload(AfterUpload(u).baseline, pending.field, pending.want)]
      \/ /\ pending # None /\ pending' = None /\ UploadVerdict(u) # "open"
         /\ Answer(UploadVerdict(u))
  BY <1>1 DEF UploadCommit, FullUploadAccept, PartialUploadAccept, Complete, NoAnswer,
     EchoesCommand, UploadVerdict, Upload
<1>4. AfterUpload(u).uncertain = IF Owned(u) # "open" THEN None ELSE uncertain
  BY DEF AfterUpload
<1> HIDE DEF u
<1>5. CASE Owner' = Owner /\ Heard' = Heard
  <2>1. CommandOf(disk.uncertain)' \in {CommandOf(disk.uncertain), None}
    BY <1>1, <1>4, CommandIs DEF CommandOf
  <2>2. CommandOf(disk.uncertain)' = None => ~(WasSent /\ ~WasSeen)
    BY <1>2, RecordNext DEF RecordTells
  <2> QED
    BY <1>2, <1>5, <2>1, <2>2
    DEF Contract!Settle, Contract!MayRecord, Contract!Exposed, Contract!Next
<1>6. CASE pending # None /\ caller' = caller /\ pending' # None
           /\ pending'.owner = pending.owner
  BY <1>5, <1>6 DEF Owner, Heard
<1>7. CASE /\ pending # None /\ pending' = None /\ UploadVerdict(u) # "open"
           /\ Answer(UploadVerdict(u))
  <2>1. UploadVerdict(u) \in {"confirmed", "state_changed"}
    BY <1>7 DEF UploadVerdict, Owned
  <2>2. disk'.uncertain = None
    BY <1>1, <1>4, <1>7 DEF UploadVerdict, Inv, CommandInv, QueuedIsUnsent
  <2>3. UploadVerdict(u) = "confirmed" => WasHeld' /\ WasSeen'
    <3>1. SUFFICES ASSUME Owned(u) = "confirmed" PROVE WasHeld' /\ WasSeen'
      BY DEF UploadVerdict
    <3>2. /\ u.post /\ u.kind = "settings" /\ truth # None /\ truth.field = "prefs"
          /\ truth.field \in DOMAIN u.vals /\ u.vals[truth.field] = truth.want
      BY <1>1, <3>1, DecidesIsPost
    <3> QED
      BY <1>1, <3>2 DEF ShowsHeld, FieldsOf, SettingsFields, WasHeld, WasSeen
  <2> QED  BY <1>2, <1>7, <2>1, <2>2, <2>3, VerdictContract DEF Contract!Next
<1>8. ASSUME pending # None,
             \/ pending' = [pending EXCEPT !.echoAt = u.at] /\ u.at \in Nat
             \/ pending' = [pending EXCEPT !.payload =
                  CommandPayload(AfterUpload(u).baseline, pending.field, pending.want)]
      PROVE  pending' # None /\ pending'.owner = pending.owner
  <2>1. pending \in Command
    BY <1>8 DEF Inv, TypeInv, TypeOK
  <2>2. CommandPayload(AfterUpload(u).baseline, pending.field, pending.want)
          \in Partial(Fields)
    <3>1. AfterUpload(u).baseline \in [Fields -> Values]
      BY <1>1, UploadType DEF Image, Inv, TypeInv
    <3>2. pending.field \in Fields /\ pending.want \in Values
      BY <2>1, ConstantsAssumption DEF Command
    <3> QED  BY <3>1, <3>2, PayloadType
  <2>3. pending' \in Command /\ pending'.owner = pending.owner
    BY <1>8, <2>1, <2>2 DEF Command, Times
  <2> QED  BY <2>3, NoneAssumption
<1>9. CASE pending' = pending /\ caller' = caller
  BY <1>5, <1>9 DEF Owner, Heard
<1> QED  BY <1>3, <1>6, <1>7, <1>8, <1>9

(* Failed writes and restarts leave what the contract allows.              *)
LEMMA ContractFailure ==
  ASSUME Settled, PersistFails \/ Crash \/ Reload
  PROVE  Contract!Next \/ UNCHANGED Contract!contract
<1> USE DEF Settled, Evident
<1>1. /\ truth' = truth /\ disk' \in Images
      /\ UNCHANGED <<CommandOf(truth), WasSent, WasHeld, WasSeen>>
  BY DEF PersistFails, Crash, Reload, Images, CommandOf, WasSent, WasHeld, WasSeen
<1>2. Contract!MayRecord
  BY <1>1, ImageRecords DEF Contract!MayRecord, Contract!Exposed, CommandOf
<1>3. CASE PersistFails
  BY <1>1, <1>2, <1>3
  DEF PersistFails, Contract!Settle, Contract!Next, Owner, Heard
<1>4. CASE Crash
  <2>1. Owner' = None
    BY <1>4 DEF Crash, Restore, Owner
  <2>2. Heard' = [c \in Callers |-> IF Heard[c] \in {"waiting", "cancelling"} THEN "lost"
                                    ELSE Heard[c]]
    <3>1. caller \in [Callers -> Waiting \cup Outcomes]
          /\ caller' = [c \in Callers |-> IF caller[c] \in Waiting THEN "lost"
                                          ELSE caller[c]]
      BY <1>4 DEF Crash, Inv, TypeInv, TypeOK
    <3>2. ASSUME NEW c \in Callers
          PROVE  (IF caller'[c] = "expiring" THEN "waiting" ELSE caller'[c])
                   = IF Heard[c] \in {"waiting", "cancelling"} THEN "lost" ELSE Heard[c]
      BY <3>1 DEF Heard, Waiting
    <3> QED  BY <3>2 DEF Heard
  <2> QED
    BY <1>1, <1>2, <2>1, <2>2 DEF Contract!Die, Contract!Busy, Contract!Next
<1>5. CASE Reload
  <2>1. disk' = disk /\ pending' = None
        /\ CommandOf(disk.uncertain)' = CommandOf(disk.uncertain)
    BY <1>5 DEF Reload, Restore, CommandOf
  <2>2. CASE pending # None
    <3>1. Contract!End("stopped")
      BY <1>5, <2>1, <2>2, AnswerEnds DEF Reload, Outcomes
    <3> QED  BY <1>1, <2>1, <3>1 DEF Contract!Stop, Contract!Next
  <2>3. CASE pending = None
    BY <1>1, <1>5, <2>1, <2>3, QuietContract DEF Reload, NoAnswer, Owner
  <2> QED  BY <2>2, <2>3
<1> QED  BY <1>3, <1>4, <1>5

(* The thermostat takes a value, or nothing of the command changes.        *)
LEMMA ContractOutside ==
  ASSUME Settled, \/ UnlockedStep \/ DeviceStep \/ MonitorRejected \/ MonitorWhileLatched
                  \/ UNCHANGED vars
  PROVE  Contract!Next \/ UNCHANGED Contract!contract
<1> USE DEF Settled, Evident
<1>1. ASSUME NEW d, Holds(d), UNCHANGED <<disk, pending, caller>>
      PROVE  Contract!Next \/ UNCHANGED Contract!contract
  <2>1. CASE truth = None
    BY <1>1, <2>1, HoldsTruth, QuietContract DEF Owner
  <2>2. CASE truth # None
    <3>1. UNCHANGED <<CommandOf(truth), WasSent, WasSeen>>
      BY <1>1, <2>2, HoldsTruth DEF CommandOf, WasSent, WasSeen
    <3>2. WasHeld' = WasHeld \/ WasHeld' = TRUE
      <4>1. truth' # None /\ truth'.held \in BOOLEAN /\ truth.held \in BOOLEAN
        BY <1>1, <2>2, HoldsTruth DEF Holds, Inv, TypeInv, TypeOK, History
      <4> QED  BY <1>1, <2>2, <4>1, HoldsTruth DEF WasHeld
    <3>3. UNCHANGED <<Owner, Heard, CommandOf(disk.uncertain)>>
      BY <1>1 DEF Owner, Heard, CommandOf
    <3> QED
      BY <2>2, <3>1, <3>2, <3>3, CommandIs
      DEF Contract!Take, Contract!Next, Contract!contract
  <2> QED  BY <2>1, <2>2
<1>2. CASE \/ UnlockedStep \/ EditSchedule \/ DropBody \/ LoseMonitor \/ LoseUpload
           \/ MonitorRejected \/ MonitorWhileLatched \/ UNCHANGED vars
  <2>1. UNCHANGED <<truth, disk, caller, pending>>
    BY <1>2 DEF UnlockedStep, Contact, MarkUnavailable, MonitorStale, Tick, EditSchedule,
       DropBody, LoseMonitor, LoseUpload, MonitorRejected, MonitorWhileLatched, durable, vars
  <2> QED  BY <2>1, QuietContract DEF Owner
<1>3. ASSUME NEW shown, NEW full, CaptureMonitor(shown, full)
      PROVE  UNCHANGED Contract!contract
  BY <1>3, QuietContract DEF CaptureMonitor, durable, Owner
<1>4. ASSUME NEW kind, UploadArrives(kind) PROVE UNCHANGED Contract!contract
  BY <1>4, QuietContract DEF UploadArrives, durable, Owner
<1>5. CASE ApplyBody
  BY <1>1, <1>5 DEF ApplyBody, durable
<1>6. ASSUME NEW f, EditField(f) PROVE Contract!Next \/ UNCHANGED Contract!contract
  BY <1>1, <1>6 DEF EditField, durable
<1> QED  BY <1>2, <1>3, <1>4, <1>5, <1>6 DEF DeviceStep

LEMMA ContractInit == Init => Contract!Init
<1> SUFFICES ASSUME Init PROVE Contract!Init
  OBVIOUS
<1>1. truth = None /\ pending = None /\ disk.uncertain = None
  BY DEF Init, Persisted
<1>2. Heard = [c \in Callers |-> "none"]
  BY DEF Init, Heard
<1> QED
  BY <1>1, <1>2 DEF Contract!Init, CommandOf, WasSent, WasHeld, WasSeen, Owner

LEMMA ContractStep ==
  Settled /\ Settled' /\ [Next]_vars => [Contract!Next]_(Contract!contract)
<1> SUFFICES ASSUME Settled, Settled', [Next]_vars
             PROVE  Contract!Next \/ UNCHANGED Contract!contract
  OBVIOUS
<1>1. ASSUME NEW cancelled \in BOOLEAN, JournalCommit(cancelled) PROVE Contract!Next
  BY <1>1, ContractJournal DEF Contract!Next
<1> QED
  BY <1>1, ContractCaller, ContractPoll, ContractSend, ContractBoundary, ContractAccepted,
     ContractInstalled, ContractReceived, ContractUpload, ContractFailure, ContractOutside
  DEF Next, TransactionStep, LockedStep

(* What callers and the next start are promised is kept over every fault, loss
   and restart: one command at a time, on record before a body of it can reach
   the thermostat and until something was seen of it; success only on evidence,
   "not delivered" only of what was not sent.                               *)
THEOREM ContractKept ==
  ASSUME ClockOffset =< 0
  PROVE  Spec => ContractSpec
<1>1. Init => Contract!Init
  BY ContractInit
<1>2. Settled /\ Settled' /\ [Next]_vars => [Contract!Next]_(Contract!contract)
  BY ContractStep
<1>3. Spec => []Settled
  BY SettledInvariance
<1> QED  BY <1>1, <1>2, <1>3, PTL DEF Spec, ContractSpec, Contract!Spec

=============================================================================
