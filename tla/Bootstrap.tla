----------------------------- MODULE Bootstrap -----------------------------
(***************************************************************************)
(* Capture of a first baseline (runtime.py).  A thermostat that has never  *)
(* uploaded its settings is brought to do so by two bodies, a Settings one *)
(* and its Auto companion, that apply nothing.  They are served once, in   *)
(* that order, inside a window that a user or the integration arms, and a  *)
(* journal on disk says which of them may be on their way.  A timer, the   *)
(* next poll or the captured upload ends the window; Home Assistant may    *)
(* restart at any time.                                                    *)
(*                                                                         *)
(* Everything below runs under _transaction_lock except what is said not   *)
(* to.  "txn" is the transaction suspended in async_persist_and_commit.    *)
(*                                                                         *)
(* A definition that starts with Wrong is a plausible mistake in the next  *)
(* one.                                                                    *)
(***************************************************************************)
EXTENDS Naturals, FiniteSets

CONSTANTS
  Window,      \* BOOTSTRAP_WINDOW_SECONDS
  Automatic,   \* automatic_baseline_capture
  HasLogo,     \* a contractor logo is read between restore and server
  MaxTime, MaxArms, MaxRestarts,   \* bounds of a run
  None         \* "nothing here"

ASSUME BootstrapConstants ==
  /\ Window \in Nat \ {0}
  /\ Automatic \in BOOLEAN /\ HasLogo \in BOOLEAN
  /\ MaxTime \in Nat /\ MaxArms \in Nat /\ MaxRestarts \in Nat

Families == {"settings", "auto"}
Ids      == 1..MaxArms

\* The bootstrap journal: bootstrap_revision, bootstrap_armed_until and what
\* was served; armed_at plays no part after the window is known.
Journal  == [id : Nat, until : Nat, served : SUBSET Families]
\* persistent_baselines as far as it concerns the capture
Image    == [boot : Journal \cup {None}, captured : BOOLEAN]
Stamp    == Nat \cup {None}
Ops      == {"arm", "serve", "clear", "expire", "capture"}
Txn      == [op : Ops, family : Families, image : Image]

ASSUME BootstrapNone == None \notin Nat /\ None \notin Journal /\ None \notin Txn

VARIABLES
  now,         \* server clock
  phase,       \* "down", "loading" (restored, no listener yet) or "running"
  ready,       \* monitor fresh, thermostat available, control off
  boot,        \* the armed window, or None
  captured,    \* has_settings_baseline
  latched,     \* persistence_fault_latched
  attempted,   \* _automatic_bootstrap_attempted
  timers,      \* when the loop will run an expiry callback; of two at one
               \* time, one is kept: the second would find nothing to end
  handle,      \* _bootstrap_timer, by its time
  expirers,    \* _async_expire_bootstrap tasks that wait for the lock
  arming,      \* armed_at of calls that wait for the lock
  poll,        \* requested_at of polls that wait for the lock
  txn, disk,
  sends,       \* history: how often a body of a window was sent
  failed,      \* history: some write failed
  arms, restarts

window == <<boot, captured, timers, handle>>
waiting == <<expirers, arming, poll>>
vars == <<now, phase, ready, window, latched, attempted, waiting, txn, disk,
          sends, failed, arms, restarts>>

TypeOK ==
  /\ now \in Nat /\ phase \in {"down", "loading", "running"}
  /\ ready \in BOOLEAN /\ captured \in BOOLEAN /\ latched \in BOOLEAN
  /\ attempted \in BOOLEAN /\ failed \in BOOLEAN
  /\ boot \in Journal \cup {None}
  /\ timers \subseteq Nat /\ handle \in Stamp /\ expirers \in Nat
  /\ arming \subseteq Nat /\ poll \in [Families -> Stamp]
  /\ txn \in Txn \cup {None} /\ disk \in Image
  /\ sends \in [Ids \X Families -> Nat]
  /\ arms \in Nat /\ restarts \in Nat

-----------------------------------------------------------------------------
(* Helpers *)

Free    == txn = None
Current == [boot |-> boot, captured |-> captured]

WrongCanArm ==
  /\ phase = "running" /\ ~latched /\ ready
  /\ boot = None

CanArm ==
  /\ phase = "running" /\ ~latched /\ ready
  /\ ~captured /\ boot = None

\* _notify_listeners ends with one automatic attempt per start.  The caller
\* says which calls wait already.
Notify(calls) ==
  IF Automatic /\ ~attempted /\ CanArm'
  THEN attempted' = TRUE /\ arming' = calls \cup {now}
  ELSE attempted' = attempted /\ arming' = calls

\* _schedule_bootstrap_expiry: a fired handle is cancelled in vain
Schedule(until) ==
  /\ timers' = (timers \ {handle}) \cup {until}
  /\ handle' = until

CancelTimer == timers' = timers \ {handle} /\ handle' = None
NoTimer     == UNCHANGED <<timers, handle>>

\* A window that would outlast the run's clock is not armed.
InBounds(at) == arms < MaxArms /\ at + Window <= MaxTime

\* async_persist_and_commit up to its suspension.  Without a listener it
\* latches; latched, it raises.
Persist(op, family, image) ==
  IF latched THEN UNCHANGED <<txn, latched>>
  ELSE IF phase = "loading" THEN latched' = TRUE /\ txn' = txn
  ELSE /\ txn' = [op |-> op, family |-> family, image |-> image]
       /\ latched' = latched

-----------------------------------------------------------------------------
(* async_arm_baseline_bootstrap *)

\* The button: the call takes its time before it waits for the lock.
PressButton ==
  /\ phase = "running" /\ arming = {} /\ InBounds(now)
  /\ arming' = {now}
  /\ UNCHANGED <<now, phase, ready, window, latched, attempted, expirers, poll,
                 txn, disk, sends, failed, arms, restarts>>

Arm(at) ==
  /\ Free /\ phase = "running" /\ at \in arming
  /\ arming' = arming \ {at}
  /\ IF CanArm /\ InBounds(at)
     THEN /\ arms' = arms + 1
          /\ Persist("arm", "settings",
               [boot |-> [id |-> arms + 1, until |-> at + Window, served |-> {}],
                captured |-> captured])
     ELSE UNCHANGED <<arms, txn, latched>>
  /\ UNCHANGED <<now, phase, ready, window, attempted, expirers, poll,
                 disk, sends, failed, restarts>>

-----------------------------------------------------------------------------
(* Polls *)

PollArrives(family) ==
  /\ phase = "running" /\ poll[family] = None
  /\ poll' = [poll EXCEPT ![family] = now]
  /\ UNCHANGED <<now, phase, ready, window, latched, attempted, expirers, arming,
                 txn, disk, sends, failed, arms, restarts>>

\* _async_clear_expired_bootstrap_locked
Expired(at) == ~captured /\ boot # None /\ at > boot.until

WrongServes(family, at) ==
  /\ ~captured /\ boot # None /\ at <= boot.until
  /\ family = "auto" => "settings" \in boot.served

\* _bootstrap_active with the flags of the two handlers
Serves(family, at) ==
  /\ ~captured /\ boot # None /\ at <= boot.until
  /\ family \notin boot.served
  /\ family = "auto" => "settings" \in boot.served

Poll(family) ==
  /\ Free /\ phase = "running" /\ poll[family] # None
  /\ poll' = [poll EXCEPT ![family] = None]
  /\ IF Expired(poll[family])
     THEN Persist("clear", family, [boot |-> None, captured |-> captured])
     ELSE IF Serves(family, poll[family])
     THEN Persist("serve", family,
            [boot |-> [boot EXCEPT !.served = @ \cup {family}], captured |-> captured])
     ELSE UNCHANGED <<txn, latched>>
  /\ UNCHANGED <<now, phase, ready, window, attempted, expirers, arming,
                 disk, sends, failed, arms, restarts>>

-----------------------------------------------------------------------------
(* Uploads *)

\* prepare_settings_snapshot.  It reads no time, so an upload that waits for
\* the lock is one that comes later.
Upload ==
  /\ Free /\ phase = "running"
  /\ Persist("capture", "settings", [boot |-> None, captured |-> TRUE])
  /\ UNCHANGED <<now, phase, ready, window, attempted, waiting, disk, sends,
                 failed, arms, restarts>>

-----------------------------------------------------------------------------
(* The timer *)

\* Between Restore and SetListener the loop runs only while a logo is read.
LoopRuns == phase = "running" \/ (phase = "loading" /\ HasLogo)

\* The callback runs without the lock and creates a task that waits for it.
TimerFires(at) ==
  /\ LoopRuns /\ at \in timers /\ at <= now
  /\ timers' = timers \ {at} /\ expirers' = expirers + 1
  /\ UNCHANGED <<now, phase, ready, boot, captured, handle, latched, attempted,
                 arming, poll, txn, disk, sends, failed, arms, restarts>>

\* _async_expire_bootstrap
Expire ==
  /\ Free /\ LoopRuns /\ expirers > 0 /\ expirers' = expirers - 1
  /\ IF captured \/ boot = None
     THEN handle' = None /\ UNCHANGED <<timers, txn, latched>>
     ELSE IF now < boot.until
     THEN /\ timers' = timers \cup {boot.until} /\ handle' = boot.until
          /\ UNCHANGED <<txn, latched>>
     ELSE /\ handle' = None /\ timers' = timers
          /\ Persist("expire", "settings", [boot |-> None, captured |-> captured])
  /\ UNCHANGED <<now, phase, ready, boot, captured, attempted, arming, poll,
                 disk, sends, failed, arms, restarts>>

-----------------------------------------------------------------------------
(* The end of a write *)

\* The commit callbacks: what each transaction does to the timer
TimerOf(op, image) ==
  CASE op = "arm"                  -> Schedule(image.boot.until)
    [] op \in {"clear", "capture"} -> CancelTimer
    [] op = "expire"               -> handle' = None /\ timers' = timers
    [] op = "serve"                -> NoTimer

WrongLanded(image) == [image EXCEPT !.boot =
                         IF @ # None /\ disk.boot # None THEN disk.boot ELSE @]
Landed(image) == image

\* The body is written after the commit; a cancelled request writes none.
Sent ==
  \/ /\ txn.op = "serve"
     /\ sends' = [sends EXCEPT ![<<txn.image.boot.id, txn.family>>] = @ + 1]
  \/ sends' = sends

Commit ==
  /\ txn # None /\ txn' = None
  /\ disk' = Landed(txn.image)
  /\ boot' = txn.image.boot /\ captured' = txn.image.captured
  /\ TimerOf(txn.op, txn.image)
  /\ Sent
  /\ UNCHANGED <<now, phase, ready, latched>>
  /\ Notify(arming)
  /\ UNCHANGED <<expirers, poll, failed, arms, restarts>>

\* The write raised or its task was cancelled; it may have reached the disk.
PersistFails ==
  /\ txn # None /\ txn' = None
  /\ disk' \in {disk, txn.image}
  /\ latched' = TRUE /\ failed' = TRUE
  /\ UNCHANGED <<now, phase, ready, window, attempted, waiting, sends,
                 arms, restarts>>

-----------------------------------------------------------------------------
(* Monitor reports, time, restarts *)

MonitorReport ==
  /\ Free /\ phase = "running" /\ ~ready /\ ready' = TRUE
  /\ UNCHANGED <<phase, boot, captured, latched>>
  /\ Notify(arming)
  /\ UNCHANGED <<now, timers, handle, expirers, poll, txn, disk, sends,
                 failed, arms, restarts>>

\* The thermostat falls silent (the liveness timer) or control is enabled.
Lapse ==
  /\ phase = "running" /\ ready /\ ready' = FALSE
  /\ UNCHANGED <<now, phase, window, latched, attempted, waiting, txn, disk,
                 sends, failed, arms, restarts>>

Tick ==
  /\ now < MaxTime /\ now' = now + 1
  /\ UNCHANGED <<phase, ready, window, latched, attempted, waiting, txn, disk,
                 sends, failed, arms, restarts>>

Stopped ==
  /\ phase' = "down" /\ txn' = None
  /\ timers' = {} /\ handle' = None /\ expirers' = 0 /\ arming' = {}
  /\ poll' = [f \in Families |-> None]
  /\ UNCHANGED <<now, ready, boot, captured, latched, attempted, sends, failed,
                 arms>>

\* Home Assistant dies in or out of a write, or async_shutdown with the lock.
Down ==
  /\ phase # "down"
  /\ restarts < MaxRestarts /\ restarts' = restarts + 1
  /\ disk' \in {disk} \cup (IF Free THEN {} ELSE {txn.image})
  /\ Stopped

WrongRestore ==
  /\ phase = "down" /\ phase' = "loading"
  /\ boot' = disk.boot /\ captured' = disk.captured
  /\ NoTimer
  /\ latched' = FALSE /\ attempted' = FALSE /\ ready' = FALSE
  /\ UNCHANGED <<now, waiting, txn, disk, sends, failed, arms, restarts>>

\* A new runtime with async_restore_persistent_baselines.  The file is read
\* before a loop that has timers to run gets control.
Restore ==
  /\ phase = "down" /\ phase' = "loading"
  /\ boot' = disk.boot /\ captured' = disk.captured
  /\ IF disk.boot = None THEN NoTimer ELSE Schedule(disk.boot.until)
  /\ latched' = FALSE /\ attempted' = FALSE /\ ready' = FALSE
  /\ UNCHANGED <<now, waiting, txn, disk, sends, failed, arms, restarts>>

\* NuveApiServer.__init__ sets the listener; without a logo nothing runs
\* between the two.
SetListener ==
  /\ phase = "loading" /\ phase' = "running"
  /\ UNCHANGED <<ready, boot, captured, latched>>
  /\ Notify(arming)
  /\ UNCHANGED <<now, timers, handle, expirers, poll, txn, disk, sends,
                 failed, arms, restarts>>

-----------------------------------------------------------------------------
Init ==
  /\ now = 0 /\ phase = "down" /\ ready = FALSE
  /\ boot = None /\ captured = FALSE /\ latched = FALSE /\ attempted = FALSE
  /\ timers = {} /\ handle = None /\ expirers = 0 /\ arming = {}
  /\ poll = [f \in Families |-> None]
  /\ txn = None /\ disk = [boot |-> None, captured |-> FALSE]
  /\ sends = [b \in Ids \X Families |-> 0] /\ failed = FALSE
  /\ arms = 0 /\ restarts = 0

Next ==
  \/ PressButton \/ \E at \in arming : Arm(at)
  \/ \E family \in Families : PollArrives(family) \/ Poll(family)
  \/ Upload
  \/ \E at \in timers : TimerFires(at)
  \/ Expire \/ Commit \/ PersistFails
  \/ MonitorReport \/ Lapse \/ Tick
  \/ Down \/ Restore \/ SetListener

Spec == Init /\ [][Next]_vars

\* A write ends, the loop runs what is due, the lock is first come, first
\* served, and a set-up that was begun goes on.  Nobody need poll.
Fairness ==
  /\ WF_vars(Commit \/ PersistFails)
  /\ WF_vars(\E at \in timers : TimerFires(at))
  /\ SF_vars(Expire)
  /\ WF_vars(Tick) /\ WF_vars(Restore) /\ WF_vars(SetListener)

FairSpec == Spec /\ Fairness

-----------------------------------------------------------------------------
(* Properties *)

\* A body of a window is sent at most once, whatever polls, fails or restarts:
\* a second Settings body would make the firmware save and upload again.
ServedOnce == \A b \in Ids \X Families : sends[b] <= 1

\* What the thermostat may have is on disk: a restart cannot forget it.
BodiesAreJournaled ==
  disk.boot # None =>
    \A family \in Families :
      sends[<<disk.boot.id, family>>] > 0 => family \in disk.boot.served

\* What is on disk passes the checks of the next load (storage.py): a journal
\* excludes a captured baseline, and Auto is served after Settings.
JournalLoads ==
  disk.boot # None =>
    ~disk.captured /\ ("auto" \in disk.boot.served => "settings" \in disk.boot.served)

\* An armed window ends although nobody polls and Home Assistant restarts.
EveryWindowEnds == boot # None ~> boot = None \/ latched

\* What the docstring of _async_persist_candidate and the Repairs issue say:
\* the latch is there for a storage failure.
LatchedMeansFailed == latched => failed
=============================================================================
