-------------------------- MODULE BootstrapProofs --------------------------
(***************************************************************************)
(* Proofs about Bootstrap, for every window, clock, number of windows and  *)
(* restarts, with and without a logo or automatic arming.                  *)
(***************************************************************************)
EXTENDS Bootstrap, TLAPS

(* The inductive invariant.  What a transaction would write follows from   *)
(* what is on disk, because an unlatched runtime agrees with the disk and  *)
(* the lock keeps everything else still until the write ends.              *)

\* A transaction runs in an unlatched runtime that has its listener.
TxnRuns == txn # None => phase = "running" /\ ~latched

\* An unlatched runtime holds what is on disk.
InSync == phase # "down" /\ ~latched => boot = disk.boot /\ captured = disk.captured

\* Ids are handed out in order, and a body has the id of a window.
IdsInOrder ==
  /\ arms <= MaxArms
  /\ disk.boot # None => disk.boot.id \in Ids /\ disk.boot.id <= arms
  /\ \A b \in Ids \X Families : sends[b] > 0 => b[1] <= arms

ArmOK ==
  /\ disk.boot = None /\ ~disk.captured /\ ~txn.image.captured
  /\ txn.image.boot # None /\ txn.image.boot.id = arms /\ arms \in Ids
  /\ txn.image.boot.served = {}
  /\ \A family \in Families : sends[<<arms, family>>] = 0

ServeOK ==
  /\ disk.boot # None /\ ~disk.captured /\ ~txn.image.captured
  /\ txn.family \notin disk.boot.served
  /\ txn.family = "auto" => "settings" \in disk.boot.served
  /\ txn.image.boot = [disk.boot EXCEPT !.served = @ \cup {txn.family}]

TxnOK ==
  txn # None =>
    /\ txn.op = "arm" => ArmOK
    /\ txn.op = "serve" => ServeOK
    /\ txn.op \in {"clear", "expire", "capture"} => txn.image.boot = None

BInv == /\ TypeOK /\ TxnRuns /\ InSync /\ IdsInOrder /\ TxnOK
        /\ ServedOnce /\ BodiesAreJournaled /\ JournalLoads

-----------------------------------------------------------------------------
(* Types *)

LEMMA NotifyTypes ==
  ASSUME TypeOK, NEW calls \in SUBSET Nat, Notify(calls)
  PROVE  attempted' \in BOOLEAN /\ arming' \in SUBSET Nat
BY DEF Notify, TypeOK

LEMMA PersistTypes ==
  ASSUME TypeOK, NEW op \in Ops, NEW family \in Families, NEW image \in Image,
         Persist(op, family, image)
  PROVE  latched' \in BOOLEAN /\ txn' \in Txn \cup {None}
<1>1. [op |-> op, family |-> family, image |-> image] \in Txn
  BY DEF Txn
<1> QED BY <1>1 DEF Persist, TypeOK

LEMMA TimerTypes ==
  ASSUME TypeOK, TxnOK, txn # None, TimerOf(txn.op, txn.image)
  PROVE  timers' \in SUBSET Nat /\ handle' \in Stamp
<1>1. CASE txn.op = "arm"
  <2>1. txn.image.boot.until \in Nat
    BY <1>1, BootstrapNone DEF TxnOK, ArmOK, TypeOK, Txn, Image, Journal
  <2> QED BY <1>1, <2>1 DEF TimerOf, Schedule, TypeOK, Stamp
<1>2. CASE txn.op # "arm"
  BY <1>2 DEF TimerOf, CancelTimer, NoTimer, TypeOK, Stamp, Txn, Ops
<1> QED BY <1>1, <1>2

LEMMA Types == ASSUME TypeOK, TxnOK, [Next]_vars PROVE TypeOK'
<1> USE DEF TypeOK, window, waiting
<1>1. CASE PressButton
  BY <1>1 DEF PressButton
<1>2. ASSUME NEW at \in arming, Arm(at) PROVE TypeOK'
  <2>1. CASE CanArm /\ InBounds(at)
    <3>1. [boot |-> [id |-> arms + 1, until |-> at + Window, served |-> {}],
           captured |-> captured] \in Image
      BY BootstrapConstants DEF Image, Journal
    <3>2. latched' \in BOOLEAN /\ txn' \in Txn \cup {None}
      BY <1>2, <2>1, <3>1, PersistTypes DEF Arm, Ops, Families
    <3> QED BY <1>2, <2>1, <3>2 DEF Arm
  <2>2. CASE ~(CanArm /\ InBounds(at))
    BY <1>2, <2>2 DEF Arm
  <2> QED BY <2>1, <2>2
<1>3. ASSUME NEW family \in Families, PollArrives(family) PROVE TypeOK'
  BY <1>3 DEF PollArrives, Stamp
<1>4. ASSUME NEW family \in Families, Poll(family) PROVE TypeOK'
  <2>1. poll' \in [Families -> Stamp]
    BY <1>4 DEF Poll, Stamp
  <2>2. latched' \in BOOLEAN /\ txn' \in Txn \cup {None}
    <3>1. CASE Expired(poll[family])
      <4>1. [boot |-> None, captured |-> captured] \in Image
        BY DEF Image
      <4> QED BY <1>4, <3>1, <4>1, PersistTypes DEF Poll, Ops
    <3>2. CASE ~Expired(poll[family]) /\ Serves(family, poll[family])
      <4>1. [boot |-> [boot EXCEPT !.served = @ \cup {family}],
             captured |-> captured] \in Image
        BY <3>2 DEF Serves, Image, Journal
      <4> QED BY <1>4, <3>2, <4>1, PersistTypes DEF Poll, Ops
    <3> QED BY <1>4, <3>1, <3>2 DEF Poll
  <2> QED BY <1>4, <2>1, <2>2 DEF Poll
<1>5. CASE Upload
  <2>1. [boot |-> None, captured |-> TRUE] \in Image
    BY DEF Image
  <2>2. latched' \in BOOLEAN /\ txn' \in Txn \cup {None}
    BY <1>5, <2>1, PersistTypes DEF Upload, Ops, Families
  <2> QED BY <1>5, <2>2 DEF Upload
<1>6. ASSUME NEW at \in timers, TimerFires(at) PROVE TypeOK'
  BY <1>6 DEF TimerFires
<1>7. CASE Expire
  <2>1. expirers' \in Nat
    BY <1>7 DEF Expire
  <2>2. timers' \in SUBSET Nat /\ handle' \in Stamp
    BY <1>7 DEF Expire, Stamp, Journal
  <2>3. [boot |-> None, captured |-> captured] \in Image
    BY DEF Image
  <2>4. latched' \in BOOLEAN /\ txn' \in Txn \cup {None}
    BY <1>7, <2>3, PersistTypes DEF Expire, Ops, Families
  <2> QED BY <1>7, <2>1, <2>2, <2>4 DEF Expire
<1>8. CASE Commit
  <2>1. txn.image \in Image /\ boot' \in Journal \cup {None} /\ captured' \in BOOLEAN
    BY <1>8 DEF Commit, Txn, Image
  <2>2. timers' \in SUBSET Nat /\ handle' \in Stamp
    BY <1>8, TimerTypes DEF Commit
  <2>3. sends' \in [Ids \X Families -> Nat]
    BY <1>8 DEF Commit, Sent
  <2>4. attempted' \in BOOLEAN /\ arming' \in SUBSET Nat
    BY <1>8, NotifyTypes DEF Commit
  <2>5. disk' \in Image
    BY <1>8, <2>1 DEF Commit, Landed
  <2> QED BY <1>8, <2>1, <2>2, <2>3, <2>4, <2>5 DEF Commit
<1>9. CASE PersistFails
  BY <1>9 DEF PersistFails, Txn
<1>10. CASE MonitorReport
  <2>1. attempted' \in BOOLEAN /\ arming' \in SUBSET Nat
    BY <1>10, NotifyTypes DEF MonitorReport
  <2> QED BY <1>10, <2>1 DEF MonitorReport
<1>11. CASE Lapse
  BY <1>11 DEF Lapse
<1>12. CASE Tick
  BY <1>12 DEF Tick
<1>13. CASE Down
  BY <1>13 DEF Down, Stopped, Free, Txn, Stamp
<1>14. CASE Restore
  BY <1>14 DEF Restore, NoTimer, Schedule, Image, Journal, Stamp
<1>15. CASE SetListener
  <2>1. attempted' \in BOOLEAN /\ arming' \in SUBSET Nat
    BY <1>15, NotifyTypes DEF SetListener
  <2> QED BY <1>15, <2>1 DEF SetListener
<1>16. CASE UNCHANGED vars
  BY <1>16 DEF vars
<1> QED BY <1>1, <1>2, <1>3, <1>4, <1>5, <1>6, <1>7, <1>8, <1>9, <1>10, <1>11,
           <1>12, <1>13, <1>14, <1>15, <1>16 DEF Next

-----------------------------------------------------------------------------
(* The invariant *)

\* An action that leaves the window, the transaction, the disk and what was
\* sent alone keeps the invariant.
LEMMA Bystander ==
  ASSUME BInv, TypeOK', UNCHANGED <<phase, boot, captured, latched, txn, disk, sends, arms>>
  PROVE  BInv'
BY DEF BInv, TxnRuns, InSync, IdsInOrder, TxnOK, ArmOK, ServeOK, ServedOnce,
       BodiesAreJournaled, JournalLoads

\* A transaction that begins, or that the latch refuses, keeps it when what it
\* is about to write suits its kind.
LEMMA Begins ==
  ASSUME BInv, TypeOK', Free, UNCHANGED <<phase, boot, captured, disk, sends>>,
         arms' \in Nat, arms <= arms', arms' <= MaxArms,
         NEW op, NEW family, NEW image,
         Persist(op, family, image), phase \in {"loading", "running"},
         ~latched /\ phase = "running" => TxnOK'
  PROVE  BInv'
<1> USE DEF BInv
<1>1. TxnRuns' /\ TxnOK'
  BY DEF TxnRuns, TxnOK, Persist, Free
<1>2. InSync'
  BY DEF InSync, Persist
<1>3. IdsInOrder'
  <2>1. disk.boot # None => disk.boot.id \in Nat
    BY DEF IdsInOrder, Ids
  <2>2. \A b \in Ids \X Families : b[1] \in Nat /\ sends[b] \in Nat
    BY DEF TypeOK, Ids
  <2>3. arms \in Nat
    BY DEF TypeOK
  <2>4. \A b \in Ids \X Families : sends'[b] > 0 => b[1] <= arms'
    BY <2>2, <2>3 DEF IdsInOrder
  <2> QED BY <2>1, <2>3, <2>4 DEF IdsInOrder
<1>4. ServedOnce' /\ BodiesAreJournaled' /\ JournalLoads'
  BY DEF ServedOnce, BodiesAreJournaled, JournalLoads
<1> QED BY <1>1, <1>2, <1>3, <1>4

LEMMA ArmStep == ASSUME BInv, TypeOK', NEW at \in arming, Arm(at) PROVE BInv'
<1>1. CASE CanArm /\ InBounds(at)
  <2> DEFINE image == [boot |-> [id |-> arms + 1, until |-> at + Window, served |-> {}],
                       captured |-> captured]
  <2>1. Free /\ phase = "running" /\ ~latched /\ ~captured /\ boot = None
    BY <1>1 DEF Arm, CanArm
  <2>2. Persist("arm", "settings", image) /\ arms' = arms + 1
    BY <1>1 DEF Arm
  <2>3. txn' = [op |-> "arm", family |-> "settings", image |-> image]
    BY <2>1, <2>2 DEF Persist
  <2>4. arms' \in Ids /\ arms \in Nat /\ arms <= arms'
    BY <1>1, <2>2, BootstrapConstants DEF InBounds, BInv, TypeOK, Ids
  <2>5. UNCHANGED <<phase, boot, captured, disk, sends>>
    BY DEF Arm, window
  <2>6. \A family \in Families : sends[<<arms', family>>] = 0
    <3> TAKE family \in Families
    <3>1. <<arms', family>> \in Ids \X Families
      BY <2>4
    <3>2. sends[<<arms', family>>] \in Nat
      BY <3>1 DEF BInv, TypeOK
    <3> QED BY <2>2, <2>4, <3>1, <3>2 DEF BInv, IdsInOrder
  <2>7. image.boot # None
    <3>1. image.boot \in Journal
      BY <2>4, BootstrapConstants DEF Journal, BInv, TypeOK
    <3> QED BY <3>1, BootstrapNone
  <2>8. TxnOK'
    BY <2>1, <2>2, <2>3, <2>4, <2>5, <2>6, <2>7 DEF TxnOK, ArmOK, BInv, InSync
  <2> QED BY <2>1, <2>2, <2>4, <2>5, <2>8, Begins, BootstrapConstants
          DEF Ids
<1>2. CASE ~(CanArm /\ InBounds(at))
  BY <1>2, Bystander DEF Arm, window
<1> QED BY <1>1, <1>2

LEMMA PollStep ==
  ASSUME BInv, TypeOK', NEW family \in Families, Poll(family) PROVE BInv'
<1>1. Free /\ phase = "running" /\ UNCHANGED <<phase, boot, captured, disk, sends, arms>>
      /\ arms \in Nat /\ arms <= arms /\ arms <= MaxArms
  BY DEF Poll, window, BInv, TypeOK, IdsInOrder
<1>2. CASE Expired(poll[family])
  <2> DEFINE image == [boot |-> None, captured |-> captured]
  <2>1. Persist("clear", family, image)
    BY <1>2 DEF Poll
  <2>2. ~latched => TxnOK'
    BY <1>1, <2>1 DEF Persist, TxnOK
  <2> QED BY <1>1, <2>1, <2>2, Begins
<1>3. CASE ~Expired(poll[family]) /\ Serves(family, poll[family])
  <2> DEFINE image == [boot |-> [boot EXCEPT !.served = @ \cup {family}],
                       captured |-> captured]
  <2>1. Persist("serve", family, image)
    BY <1>3 DEF Poll
  <2>2. ~latched => TxnOK'
    <3>1. HAVE ~latched
    <3>2. txn' = [op |-> "serve", family |-> family, image |-> image]
      BY <1>1, <2>1, <3>1 DEF Persist
    <3>3. boot = disk.boot /\ captured = disk.captured
      BY <1>1, <3>1 DEF BInv, InSync
    <3> QED BY <1>1, <1>3, <3>2, <3>3 DEF TxnOK, ServeOK, Serves
  <2> QED BY <1>1, <2>1, <2>2, Begins
<1>4. CASE ~Expired(poll[family]) /\ ~Serves(family, poll[family])
  BY <1>1, <1>4, Bystander DEF Poll
<1> QED BY <1>2, <1>3, <1>4

LEMMA UploadStep == ASSUME BInv, TypeOK', Upload PROVE BInv'
<1> DEFINE image == [boot |-> None, captured |-> TRUE]
<1>1. Free /\ phase = "running" /\ UNCHANGED <<phase, boot, captured, disk, sends, arms>>
      /\ arms \in Nat /\ arms <= arms /\ arms <= MaxArms
  BY DEF Upload, window, BInv, TypeOK, IdsInOrder
<1>2. Persist("capture", "settings", image)
  BY DEF Upload
<1>3. ~latched => TxnOK'
  BY <1>1, <1>2 DEF Persist, TxnOK
<1> QED BY <1>1, <1>2, <1>3, Begins

LEMMA ExpireStep == ASSUME BInv, TypeOK', Expire PROVE BInv'
<1> DEFINE image == [boot |-> None, captured |-> captured]
<1>1. Free /\ phase \in {"loading", "running"}
      /\ UNCHANGED <<phase, boot, captured, disk, sends, arms>>
      /\ arms \in Nat /\ arms <= arms /\ arms <= MaxArms
  BY DEF Expire, LoopRuns, BInv, TypeOK, IdsInOrder
<1>2. CASE captured \/ boot = None \/ now < boot.until
  BY <1>1, <1>2, Bystander DEF Expire
<1>3. CASE ~(captured \/ boot = None \/ now < boot.until)
  <2>1. Persist("expire", "settings", image)
    BY <1>3 DEF Expire
  <2>2. ~latched /\ phase = "running" => TxnOK'
    BY <1>1, <2>1 DEF Persist, TxnOK
  <2> QED BY <1>1, <2>1, <2>2, Begins
<1> QED BY <1>2, <1>3

\* Whatever a transaction writes may be found on disk: it loads, its id was
\* handed out, and it names the bodies that were sent.
LEMMA Lands ==
  ASSUME BInv, txn # None
  PROVE  LET new == txn.image IN
         /\ new.boot # None => /\ new.boot.id \in Ids /\ new.boot.id <= arms
                               /\ ~new.captured
                               /\ "auto" \in new.boot.served => "settings" \in new.boot.served
                               /\ \A family \in Families :
                                    sends[<<new.boot.id, family>>] > 0
                                      => family \in new.boot.served
<1> USE DEF BInv
<1>1. CASE txn.op = "arm"
  <2>1. arms \in Nat
    BY DEF TypeOK
  <2> QED BY <1>1, <2>1 DEF TxnOK, ArmOK
<1>2. CASE txn.op = "serve"
  <2>1. disk.boot \in Journal
    BY <1>2 DEF TxnOK, ServeOK, TypeOK, Image
  <2>2. /\ txn.image.boot.id = disk.boot.id
        /\ txn.image.boot.served = disk.boot.served \cup {txn.family}
    BY <1>2, <2>1 DEF TxnOK, ServeOK, Journal
  <2> QED BY <1>2, <2>2
          DEF TxnOK, ServeOK, IdsInOrder, BodiesAreJournaled, JournalLoads
<1>3. CASE txn.op \in {"clear", "expire", "capture"}
  BY <1>3 DEF TxnOK
<1>4. txn.op \in Ops
  BY DEF TypeOK, Txn
<1> QED BY <1>1, <1>2, <1>3, <1>4 DEF Ops

\* A write that was cut off keeps it: the disk has the old image or the new.
LEMMA CutOff ==
  ASSUME BInv, TypeOK', txn' = None, UNCHANGED <<sends, arms>>,
         disk' \in {disk} \cup (IF Free THEN {} ELSE {txn.image}),
         phase' = "down" \/ latched'
  PROVE  BInv'
<1>1. TxnRuns' /\ TxnOK' /\ InSync'
  BY DEF TxnRuns, TxnOK, InSync
<1>2. ServedOnce'
  BY DEF BInv, ServedOnce
<1>3. CASE disk' = disk
  BY <1>1, <1>2, <1>3
     DEF BInv, IdsInOrder, BodiesAreJournaled, JournalLoads
<1>4. CASE txn # None /\ disk' = txn.image
  BY <1>1, <1>2, <1>4, Lands
     DEF BInv, IdsInOrder, BodiesAreJournaled, JournalLoads
<1> QED BY <1>3, <1>4 DEF Free

\* A body goes out when its flag is on disk, and it did not go out before.
LEMMA CommitStep == ASSUME BInv, TypeOK', Commit PROVE BInv'
<1> USE DEF BInv
<1>1. /\ txn # None /\ txn' = None /\ disk' = txn.image /\ UNCHANGED arms
      /\ boot' = disk'.boot /\ captured' = disk'.captured
  BY DEF Commit, Landed
<1>2. TxnRuns' /\ TxnOK' /\ InSync'
  BY <1>1 DEF TxnRuns, TxnOK, InSync
<1>3. CASE sends' = sends
  BY <1>1, <1>2, <1>3, Lands
     DEF IdsInOrder, ServedOnce, BodiesAreJournaled, JournalLoads
<1>4. CASE /\ txn.op = "serve"
           /\ sends' = [sends EXCEPT ![<<txn.image.boot.id, txn.family>>] = @ + 1]
  <2> DEFINE body == <<txn.image.boot.id, txn.family>>
  <2>1. /\ disk.boot \in Journal /\ txn.image.boot.id = disk.boot.id
        /\ txn.image.boot.served = disk.boot.served \cup {txn.family}
    BY <1>4, <1>1 DEF TxnOK, ServeOK, TypeOK, Image, Journal
  <2>2. body \in Ids \X Families /\ disk.boot.id <= arms
    BY <1>1, <1>4, <2>1 DEF TxnOK, ServeOK, IdsInOrder, TypeOK, Txn
  <2>3. sends[body] = 0
    <3>1. sends[body] \in Nat
      BY <2>2 DEF TypeOK
    <3>2. txn.family \in Families /\ disk.boot # None /\ txn.family \notin disk.boot.served
      BY <1>1, <1>4 DEF TxnOK, ServeOK, TypeOK, Txn
    <3>3. ~(sends[<<disk.boot.id, txn.family>>] > 0)
      BY <3>2 DEF BodiesAreJournaled
    <3> QED BY <2>1, <3>1, <3>3
  <2>4. sends'[body] = 1 /\ \A b \in Ids \X Families : b # body => sends'[b] = sends[b]
    BY <1>4, <2>2, <2>3 DEF TypeOK
  <2>5. ServedOnce'
    BY <2>4 DEF ServedOnce
  <2>6. IdsInOrder'
    <3>1. body[1] <= arms
      BY <2>1, <2>2
    <3>2. \A b \in Ids \X Families : sends'[b] > 0 => b[1] <= arms
      BY <2>4, <3>1 DEF IdsInOrder
    <3> QED BY <1>1, <3>2, Lands DEF IdsInOrder
  <2>7. BodiesAreJournaled'
    <3> SUFFICES ASSUME disk'.boot # None, NEW family \in Families,
                        sends'[<<disk'.boot.id, family>>] > 0
                 PROVE  family \in disk'.boot.served
      BY DEF BodiesAreJournaled
    <3>1. CASE family = txn.family
      BY <1>1, <2>1, <3>1
    <3>2. CASE family # txn.family
      <4>1. <<disk'.boot.id, family>> \in Ids \X Families
        BY <1>1, Lands
      <4>2. sends[<<disk'.boot.id, family>>] > 0
        BY <2>4, <3>2, <4>1
      <4> QED BY <1>1, <4>2, Lands
    <3> QED BY <3>1, <3>2
  <2>8. JournalLoads'
    BY <1>1, Lands DEF JournalLoads
  <2> QED BY <1>2, <2>5, <2>6, <2>7, <2>8
<1> QED BY <1>3, <1>4 DEF Commit, Sent

LEMMA RestoreStep == ASSUME BInv, TypeOK', Restore PROVE BInv'
<1>1. TxnRuns' /\ TxnOK' /\ InSync'
  BY DEF Restore, waiting, BInv, TxnRuns, TxnOK, InSync
<1> QED BY <1>1
        DEF Restore, BInv, IdsInOrder, ServedOnce, BodiesAreJournaled, JournalLoads

LEMMA SetListenerStep == ASSUME BInv, TypeOK', SetListener PROVE BInv'
<1>1. TxnRuns' /\ TxnOK' /\ InSync'
  BY DEF SetListener, BInv, TxnRuns, TxnOK, InSync
<1> QED BY <1>1
        DEF SetListener, BInv, IdsInOrder, ServedOnce, BodiesAreJournaled, JournalLoads

LEMMA Holds == Spec => []BInv
<1>1. Init => BInv
  <2> SUFFICES ASSUME Init PROVE BInv
    OBVIOUS
  <2>1. TypeOK
    BY DEF Init, TypeOK, Stamp, Image
  <2>2. TxnRuns /\ InSync /\ TxnOK
    BY DEF Init, TxnRuns, InSync, TxnOK
  <2>3. \A b \in Ids \X Families : sends[b] = 0
    BY DEF Init
  <2>4. disk.boot = None /\ arms = 0
    BY DEF Init
  <2>5. IdsInOrder /\ ServedOnce /\ BodiesAreJournaled /\ JournalLoads
    BY <2>3, <2>4, BootstrapConstants
       DEF IdsInOrder, ServedOnce, BodiesAreJournaled, JournalLoads
  <2> QED BY <2>1, <2>2, <2>5 DEF BInv
<1>2. BInv /\ [Next]_vars => BInv'
  <2> SUFFICES ASSUME BInv, [Next]_vars PROVE BInv'
    OBVIOUS
  <2>1. TypeOK'
    BY Types DEF BInv
  <2>2. CASE PressButton
    BY <2>1, <2>2, Bystander DEF PressButton, window
  <2>3. ASSUME NEW at \in arming, Arm(at) PROVE BInv'
    BY <2>1, <2>3, ArmStep
  <2>4. ASSUME NEW family \in Families, PollArrives(family) PROVE BInv'
    BY <2>1, <2>4, Bystander DEF PollArrives, window
  <2>5. ASSUME NEW family \in Families, Poll(family) PROVE BInv'
    BY <2>1, <2>5, PollStep
  <2>6. CASE Upload
    BY <2>1, <2>6, UploadStep
  <2>7. ASSUME NEW at \in timers, TimerFires(at) PROVE BInv'
    BY <2>1, <2>7, Bystander DEF TimerFires
  <2>8. CASE Expire
    BY <2>1, <2>8, ExpireStep
  <2>9. CASE Commit
    BY <2>1, <2>9, CommitStep
  <2>10. CASE PersistFails
    BY <2>1, <2>10, CutOff DEF PersistFails, Free
  <2>11. CASE MonitorReport
    BY <2>1, <2>11, Bystander DEF MonitorReport
  <2>12. CASE Lapse
    BY <2>1, <2>12, Bystander DEF Lapse, window
  <2>13. CASE Tick
    BY <2>1, <2>13, Bystander DEF Tick, window
  <2>14. CASE Down
    BY <2>1, <2>14, CutOff DEF Down, Stopped
  <2>15. CASE Restore
    BY <2>1, <2>15, RestoreStep
  <2>16. CASE SetListener
    BY <2>1, <2>16, SetListenerStep
  <2>17. CASE UNCHANGED vars
    BY <2>1, <2>17, Bystander DEF vars, window
  <2> QED BY <2>2, <2>3, <2>4, <2>5, <2>6, <2>7, <2>8, <2>9, <2>10, <2>11, <2>12,
             <2>13, <2>14, <2>15, <2>16, <2>17 DEF Next
<1> QED BY <1>1, <1>2, PTL DEF Spec

-----------------------------------------------------------------------------
(* Theorems *)

\* Every variable keeps its type; in particular a window has the number of one
\* arming, in memory, on disk and in what is being written.
THEOREM BootstrapTypeCorrect == Spec => []TypeOK
BY Holds, PTL DEF BInv

\* A body of a window is sent at most once (runtime.py:1471-1490, 1547-1563):
\* its flag is on disk before it goes out and every later poll reads the flag.
THEOREM BodiesServedOnce == Spec => []ServedOnce
BY Holds, PTL DEF BInv

\* What the thermostat may have of the present window is on disk, so neither a
\* restart nor a write of unknown outcome forgets it.
THEOREM SentBodiesJournaled == Spec => []BodiesAreJournaled
BY Holds, PTL DEF BInv

\* The journal on disk passes the checks of the next load (storage.py:210-251).
THEOREM JournalAlwaysLoads == Spec => []JournalLoads
BY Holds, PTL DEF BInv
=============================================================================
