------------------------------- MODULE Resync -------------------------------
(***************************************************************************)
(* Revisions and the monitor resynchronisation of class NuveRuntime        *)
(* (runtime.py), with next_revision (protocol.py).                         *)
(*                                                                         *)
(* Every body and acknowledgement carries a revision, a second of UTC that *)
(* must increase although the clock does not: it steps back, or two are    *)
(* made in one second.  While the runtime lacks a current full monitor     *)
(* report, a Settings poll gets, in turn, a reset body that turns the      *)
(* thermostat's monitor sender off and a wake body whose fresh command     *)
(* time turns it on again; only that transition makes a full report.  The  *)
(* thermostat follows each Settings fetch with an Auto fetch, for which    *)
(* one companion body is kept ready.                                       *)
(*                                                                         *)
(* Each action is one locked section.  A section suspends only in a write  *)
(* or a send, and nothing that runs meanwhile reads or changes what is     *)
(* modelled here; so a section that dies half-way is a failed write, or a  *)
(* body that was sent followed by a restart.  Revisions are numbers of     *)
(* seconds, NoRev stands for the code's None.                              *)
(*                                                                         *)
(* The thermostat is external: it acts on a command time other than the    *)
(* last one it acted on.  docs/firmware-architecture.md leaves open        *)
(* whether a reset makes it forget that time; here it does not, so that    *)
(* the server's part is the harder one.                                    *)
(***************************************************************************)
EXTENDS Integers

CONSTANTS
  MaxClock,     \* largest value of the clock
  FutureSkew,   \* MONITOR_FUTURE_SKEW_SECONDS
  MaxUploads, MaxCommands, MaxRestarts,
  MaxMishaps,   \* lost bodies and reports, failed sends, lapses, idle polls
  None

Families == {"settings", "auto"}
NoRev    == -1
Rev      == Nat \cup {NoRev}

ASSUME ConstantsAssumption ==
  /\ MaxClock \in Nat /\ FutureSkew \in Nat /\ MaxUploads \in Nat
  /\ MaxCommands \in Nat /\ MaxRestarts \in Nat /\ MaxMishaps \in Nat

Sent == [family : Families, revision : Nat]

ASSUME NoneAssumption == None \notin Sent

VARIABLES
  clock,      \* datetime.now, in seconds; it may move either way
  \* NuveRuntime
  mem,        \* rev: settings_revision, auto_mode_revision; floor: their
              \* floors; live: live_data_command_time; uncertain: the journal
  disk,       \* the same, as the store would load it
  latched,    \* persistence_fault_latched
  pending,    \* the delivered command and its revision
  consistent, \* canonical_live_consistency_ready
  phase,      \* _monitor_resync_next
  wakeTime,   \* _monitor_wake_command_time
  companion,  \* _monitor_resync_auto_companion_revision
  \* the thermostat
  online,     \* whether it sends monitor reports
  heard,      \* the last command time it acted on
  report,     \* a full monitor report is on its way
  \* history, read by no guard
  top,        \* the greatest revision sent, of each family
  newest,     \* the greatest command time sent by this runtime
  owed,       \* a resynchronisation body was sent after the last Auto poll
  uploads,    \* uploads, and reports that move a baseline
  commands, restarts, mishaps

memory  == <<mem, disk>>
cycle   == <<phase, wakeTime, companion>>
device  == <<online, heard, report>>
sent    == <<top, newest, owed>>
bounds  == <<uploads, commands, restarts, mishaps>>
vars    == <<clock, memory, latched, pending, consistent, cycle, device, sent,
             bounds>>

-----------------------------------------------------------------------------
(* Revisions *)

\* _latest_revision
Latest(a, b) == IF a >= b THEN a ELSE b

\* next_revision
NextRevision(prior, t) == IF t > prior THEN t ELSE prior + 1

RevisionOf(c) == IF c = None THEN NoRev ELSE c.revision
Pending(f) == pending # None /\ pending.family = f

FamilyOf(kind) == IF kind = "auto" THEN "auto" ELSE "settings"

\* The revision an upload is acknowledged with: _settings_snapshot_revision,
\* prepare_partial_settings, _auto_snapshot_revision.
UploadRevision(kind) ==
  LET settings == Latest(mem.rev["settings"], mem.floor["settings"])
      auto     == Latest(mem.rev["auto"], mem.floor["auto"])
  IN NextRevision(
       CASE kind = "settings" -> Latest(settings, RevisionOf(pending))
         [] kind = "partial"  -> settings
         [] kind = "auto"     -> Latest(settings,
                                        Latest(auto, RevisionOf(pending))),
       clock)

\* The durable candidates.
UploadImage(kind, settles) ==
  [mem EXCEPT !.rev[FamilyOf(kind)] = UploadRevision(kind),
              !.floor[FamilyOf(kind)] = Latest(@, UploadRevision(kind)),
              !.uncertain = IF settles THEN None ELSE @]

CommandRevision(f) == NextRevision(Latest(mem.rev[f], mem.floor[f]), clock)

\* _async_journal_delivery
JournalImage(f) ==
  [mem EXCEPT !.floor[f] = CommandRevision(f),
              !.uncertain = [family |-> f, revision |-> CommandRevision(f)]]

\* _confirm_from_monitor; the report's stamp is the thermostat's clock.
ConfirmImage(stamp) ==
  LET f == pending.family
      r == NextRevision(Latest(mem.floor[f],
                               Latest(mem.rev[f], pending.revision)), stamp)
  IN [mem EXCEPT !.rev[f] = r, !.floor[f] = r, !.uncertain = None,
                 !.live = IF f = "settings" THEN pending.revision ELSE @]

\* A report that disagrees with the baseline of family f moves it:
\* _merge_monitor_settings_baseline, _merge_monitor_auto_baseline.
MergeRevision(m, f, stamp) ==
  LET settings == Latest(m.rev["settings"], m.floor["settings"])
      auto     == Latest(m.rev["auto"], m.floor["auto"])
  IN NextRevision(IF f = "auto" THEN Latest(settings, auto) ELSE settings,
                  stamp)

Moved(m, f, stamp) == [m EXCEPT !.rev[f]   = MergeRevision(m, f, stamp),
                                !.floor[f] = MergeRevision(m, f, stamp)]

WrongMergeImage(m, families, stamp) ==
  IF families = {} THEN m
  ELSE LET f == CHOOSE g \in families : TRUE
       IN [m EXCEPT !.rev[f] = NextRevision(m.rev[f], stamp)]

\* _merge_monitor_into_baselines
MergeImage(m, families, stamp) ==
  LET settings == IF "settings" \in families THEN Moved(m, "settings", stamp)
                                             ELSE m
  IN IF "auto" \in families THEN Moved(settings, "auto", stamp) ELSE settings

\* _confirm_from_monitor, _resolve_uncertainty_from_monitor
Verdicts == {"confirms", "resolves", "nothing"}
Says(verdict) ==
  CASE verdict = "confirms" -> pending # None
    [] verdict = "resolves" -> pending = None /\ mem.uncertain # None
    [] verdict = "nothing"  -> TRUE

VerdictImage(verdict, stamp) ==
  CASE verdict = "confirms" -> ConfirmImage(stamp)
    [] verdict = "resolves" -> [mem EXCEPT !.uncertain = None]
    [] verdict = "nothing"  -> mem

ReportImage(verdict, families, stamp) ==
  MergeImage(VerdictImage(verdict, stamp), families, stamp)

Store(image) == ~latched /\ mem' = image /\ disk' = image

\* A revision of family f leaves the server.
Shows(f, r) == top' = [top EXCEPT ![f] = Latest(@, r)]

\* A body with command time t leaves; the thermostat may hear it.
Commands(t, arrives) ==
  /\ newest' = Latest(newest, t)
  /\ IF arrives /\ t # heard
     THEN heard' = t /\ online' = TRUE /\ report' = (report \/ ~online)
     ELSE UNCHANGED device

Mishap == mishaps < MaxMishaps /\ mishaps' = mishaps + 1

-----------------------------------------------------------------------------
(* Uploads, commands, reports: what moves the revisions *)

UploadSaved(image) == Store(image)

\* An upload that is not the canonical echo takes the authority back; one that
\* shows the journalled fields settles the command.
UploadAccepted(kind, canonical, settles) ==
  /\ uploads < MaxUploads /\ uploads' = uploads + 1
  /\ settles => /\ kind = "settings" /\ mem.uncertain # None
                /\ mem.uncertain.family = "settings"
  /\ UploadSaved(UploadImage(kind, settles))
  /\ consistent' = (consistent /\ canonical)
  /\ pending' = IF settles THEN None ELSE pending
  /\ Shows(FamilyOf(kind), UploadRevision(kind))
  /\ UNCHANGED <<clock, latched, cycle, device, newest, owed, commands,
                 restarts, mishaps>>

\* A body is sent once its journal is durable.  The gates may close meanwhile,
\* and the write of the boundary that follows the send may latch a fault.
CommandSent(f, leaves, arrives, faults) ==
  /\ commands < MaxCommands /\ commands' = commands + 1
  /\ consistent /\ pending = None /\ mem.uncertain = None
  /\ f = "auto" => mem.rev["auto"] # NoRev
  /\ arrives \/ faults => leaves
  /\ Store(JournalImage(f))
  /\ latched' = faults
  /\ IF leaves
     THEN /\ pending' = [family |-> f, revision |-> CommandRevision(f)]
          /\ Shows(f, CommandRevision(f))
     ELSE UNCHANGED <<pending, top>>
  /\ IF leaves /\ f = "settings"
     THEN Commands(CommandRevision(f), arrives)
     ELSE UNCHANGED <<device, newest>>
  /\ companion' = IF f = "auto" THEN NoRev ELSE companion
  /\ owed' = (owed /\ f # "auto")
  /\ UNCHANGED <<clock, consistent, phase, wakeTime, uploads, restarts,
                 mishaps>>

\* The same body again, at the next poll of its family
CommandRepeated(arrives) ==
  /\ ~latched /\ consistent /\ pending # None
  /\ Shows(pending.family, pending.revision)
  /\ IF pending.family = "settings"
     THEN /\ Commands(pending.revision, arrives)
          /\ UNCHANGED <<companion, owed>>
     ELSE companion' = NoRev /\ owed' = FALSE /\ UNCHANGED <<device, newest>>
  /\ UNCHANGED <<clock, memory, latched, pending, consistent, phase, wakeTime,
                 bounds>>

\* _merge_monitor_state_in_place and the commit of its shadow; the stamp is the
\* thermostat's clock.
ReportMerged(verdict, families, stamp) ==
  /\ Says(verdict)
  /\ IF families = {} THEN UNCHANGED uploads
     ELSE uploads < MaxUploads /\ uploads' = uploads + 1
  /\ Store(ReportImage(verdict, families, stamp))
  /\ pending' = IF verdict = "confirms" THEN None ELSE pending

\* A sparse report leaves the authority as it is.
SparseReport(verdict, families, stamp) ==
  /\ online /\ verdict # "resolves"
  /\ "auto" \in families => mem.rev["auto"] # NoRev
  /\ ReportMerged(verdict, families, stamp)
  /\ UNCHANGED <<clock, latched, consistent, cycle, device, sent, commands,
                 restarts, mishaps>>

\* A caller gives up: the command goes, its journal stays.
CommandWithdrawn ==
  /\ pending # None /\ pending' = None
  /\ UNCHANGED <<clock, memory, latched, consistent, cycle, device, sent,
                 bounds>>

Images ==
  {UploadImage(k, settles) : k \in {"settings", "partial", "auto"},
                             settles \in BOOLEAN}
  \cup {JournalImage(f) : f \in Families}
  \cup {ReportImage(v, families, clock + s) : v \in {w \in Verdicts : Says(w)},
                                             families \in SUBSET Families,
                                             s \in 0..FutureSkew}

\* A write fails, and may have reached the disk.
WriteFails ==
  /\ ~latched /\ latched' = TRUE
  /\ mishaps < MaxMishaps /\ mishaps' = mishaps + 1
  /\ disk' \in Images
  /\ UNCHANGED <<clock, mem, pending, consistent, cycle, device, sent,
                 uploads, commands, restarts>>

-----------------------------------------------------------------------------
(* Polls *)

\* A canonical echo, or the schedule-preserving body: the command time is
\* live_data_command_time in both.
SettingsEcho(arrives) ==
  /\ ~latched /\ consistent
  /\ ~Pending("settings")
  /\ Shows("settings", mem.rev["settings"])
  /\ Commands(mem.live, arrives)
  /\ UNCHANGED <<clock, memory, latched, pending, consistent, cycle, owed,
                 bounds>>

UncertainRevision == RevisionOf(mem.uncertain)

WrongNextWakeTime ==
  NextRevision(Latest(mem.live, UncertainRevision), clock)

\* later than every revision and command time the runtime knows of
NextWakeTime ==
  NextRevision(Latest(Latest(mem.rev["settings"], mem.floor["settings"]),
                      Latest(Latest(mem.live, UncertainRevision), wakeTime)),
               clock)

Arm == mem.rev["auto"]

WrongAfterBody(raises) ==
  /\ phase' = phase /\ companion' = IF raises THEN companion ELSE Arm
  /\ owed' = (owed \/ ~raises)

\* Phase and companion move on only after a send that did not raise.
AfterBody(raises) ==
  IF raises
  THEN UNCHANGED <<phase, companion, owed>>
  ELSE /\ phase' = IF phase = "reset" THEN "wake" ELSE "reset"
       /\ companion' = Arm
       /\ owed' = (mem.rev["auto"] # NoRev)

\* Progress costs nothing; every other poll is one of the bounded mishaps.
ResyncPoll(arrives, raises) ==
  /\ ~latched /\ ~consistent
  /\ IF arrives /\ ~raises /\ ~report THEN UNCHANGED mishaps ELSE Mishap
  /\ Shows("settings", mem.rev["settings"])
  /\ AfterBody(raises)
  /\ UNCHANGED <<clock, memory, latched, pending, consistent, uploads,
                 commands, restarts>>

\* _async_monitor_resync_response
ResetPoll(arrives, raises) ==
  /\ phase = "reset"
  /\ ResyncPoll(arrives, raises)
  /\ online' = (online /\ ~arrives)
  /\ UNCHANGED <<wakeTime, heard, report, newest>>

WakePoll(arrives, raises) ==
  /\ phase = "wake"
  /\ ResyncPoll(arrives, raises)
  /\ wakeTime' = NextWakeTime
  /\ Commands(NextWakeTime, arrives)

AutoPollBounds ==
  /\ ~latched /\ mem.rev["auto"] # NoRev
  /\ owed' = FALSE
  /\ UNCHANGED <<clock, memory, latched, pending, consistent, phase, wakeTime,
                 device, newest, bounds>>

\* async_get_auto_mode_response without current live state: the companion
\* once, then {}
AutoPollInconsistent ==
  /\ ~consistent
  /\ AutoPollBounds
  /\ companion' = NoRev
  /\ IF companion # NoRev THEN Shows("auto", companion)
                          ELSE UNCHANGED top

WrongAfterAutoEcho == UNCHANGED companion

AfterAutoEcho == companion' = NoRev

AutoEcho ==
  /\ consistent
  /\ ~Pending("auto")
  /\ AutoPollBounds
  /\ AfterAutoEcho
  /\ Shows("auto", mem.rev["auto"])

-----------------------------------------------------------------------------
(* Live state, time, restarts *)

\* A full report gives the authority back unless it lacks something; it is also
\* where an Auto baseline that is missing comes from.
FullReport(complete, verdict, families, stamp) ==
  /\ report /\ report' = FALSE
  /\ complete => mem.rev["auto"] # NoRev \/ "auto" \in families
  /\ ReportMerged(verdict, families, stamp)
  /\ consistent' = complete
  /\ IF complete THEN UNCHANGED mishaps ELSE Mishap
  /\ UNCHANGED <<clock, latched, cycle, online, heard, sent, commands,
                 restarts>>

\* It is lost, or a latched runtime only shows what it says.
ReportLost ==
  /\ report /\ report' = FALSE
  /\ Mishap
  /\ UNCHANGED <<clock, memory, latched, pending, consistent, cycle, online,
                 heard, sent, uploads, commands, restarts>>

\* No contact, a stale monitor, or telemetry that disagrees with the baselines
Lapse ==
  /\ consistent /\ consistent' = FALSE
  /\ Mishap
  /\ UNCHANGED <<clock, memory, latched, pending, cycle, device, sent,
                 uploads, commands, restarts>>

ClockMoves ==
  /\ clock' \in 0..MaxClock
  /\ UNCHANGED <<memory, latched, pending, consistent, cycle, device, sent,
                 bounds>>

\* A new runtime restores what is durable; the cycle starts over.
Restart ==
  /\ restarts < MaxRestarts /\ restarts' = restarts + 1
  /\ mem' = disk /\ latched' = FALSE /\ pending' = None
  /\ consistent' = FALSE
  /\ phase' = "reset" /\ wakeTime' = NoRev /\ companion' = NoRev
  /\ newest' = NoRev /\ owed' = FALSE
  /\ UNCHANGED <<clock, disk, device, top, uploads, commands, mishaps>>

\* A commissioned thermostat just after a restart: a Settings baseline, with or
\* without an Auto baseline, from the last second of the clock or from before.
Init ==
  /\ clock \in 0..MaxClock
  /\ \E auto \in {NoRev, 0} :
       mem = [rev   |-> [f \in Families |-> IF f = "auto" THEN auto ELSE 0],
              floor |-> [f \in Families |-> 0], live |-> 0, uncertain |-> None]
  /\ disk = mem /\ latched = FALSE /\ pending = None /\ consistent = FALSE
  /\ phase = "reset" /\ wakeTime = NoRev /\ companion = NoRev
  /\ online \in BOOLEAN /\ heard \in {NoRev, 0} /\ report = FALSE
  /\ top = [f \in Families |-> NoRev]
  /\ newest = NoRev /\ owed = FALSE
  /\ uploads = 0 /\ commands = 0 /\ restarts = 0 /\ mishaps = 0

CommandStep ==
  \/ \E f \in Families, leaves, arrives, faults \in BOOLEAN :
       CommandSent(f, leaves, arrives, faults)
  \/ \E arrives \in BOOLEAN : CommandRepeated(arrives)
  \/ CommandWithdrawn

ReportStep ==
  \/ \E verdict \in Verdicts, families \in SUBSET Families, s \in 0..FutureSkew :
       \/ SparseReport(verdict, families, clock + s)
       \/ \E complete \in BOOLEAN :
            FullReport(complete, verdict, families, clock + s)
  \/ ReportLost

PollStep ==
  \/ \E arrives \in BOOLEAN : SettingsEcho(arrives)
  \/ \E arrives, raises \in BOOLEAN :
       ResetPoll(arrives, raises) \/ WakePoll(arrives, raises)
  \/ AutoPollInconsistent \/ AutoEcho

UploadStep ==
  \E kind \in {"settings", "partial", "auto"}, canonical, settles \in BOOLEAN :
    UploadAccepted(kind, canonical, settles)

Next ==
  \/ UploadStep \/ CommandStep \/ ReportStep \/ WriteFails \/ PollStep
  \/ Lapse \/ ClockMoves \/ Restart

Spec == Init /\ [][Next]_vars

\* The thermostat polls for ever, and a body of either step is not lost each
\* time it is sent.
Fairness ==
  /\ SF_vars(ResetPoll(TRUE, FALSE))
  /\ SF_vars(WakePoll(TRUE, FALSE))

FairSpec == Spec /\ Fairness

-----------------------------------------------------------------------------
(* Properties *)

Memory == [rev : [Families -> Rev], floor : [Families -> Nat], live : Nat,
           uncertain : Sent \cup {None}]

\* Every variable keeps its type.
TypeOK ==
  /\ clock \in Nat
  /\ mem \in Memory /\ disk \in Memory
  /\ latched \in BOOLEAN /\ pending \in Sent \cup {None}
  /\ consistent \in BOOLEAN
  /\ phase \in {"reset", "wake"} /\ wakeTime \in Rev /\ companion \in Rev
  /\ online \in BOOLEAN /\ heard \in Rev /\ report \in BOOLEAN
  /\ top \in [Families -> Rev]
  /\ newest \in Rev /\ owed \in BOOLEAN
  /\ uploads \in Nat /\ commands \in Nat /\ restarts \in Nat
  /\ mishaps \in Nat

\* A new revision - of an upload, of a command body, of a confirmed command -
\* is later than every revision of its family that ever left the server:
\* whatever the clock does, over failed writes and restarts.  next_revision
\* sees only what the runtime knows, so each floor is durable before its
\* revision leaves.
RevisionsAdvance ==
  [][/\ \A f \in Families : mem'.rev[f] # mem.rev[f] => mem'.rev[f] > top[f]
     /\ pending' # pending /\ pending' # None =>
          pending'.revision > top[pending'.family]]_vars

\* A wake carries a command time later than every one this runtime sent, in an
\* echo, a command or an earlier wake; the thermostat ignores one it knows.
WakeIsNewest ==
  [][wakeTime' # wakeTime /\ wakeTime' # NoRev => wakeTime' > newest]_vars

\* A companion answers an Auto fetch that follows a resynchronisation body, not
\* a later one; and when that fetch comes it is there, or the thermostat backs
\* off to a poll a minute and the cycle takes as long.
CompanionFollowsBody == owed <=> companion # NoRev

\* Without current live state the cycle brings a full report about: from a
\* restart, a lapse, or in the middle of a cycle whose bodies were lost.
ResyncRecovers ==
  (~consistent /\ ~latched) ~> (report \/ consistent \/ latched)

(* What the repository says of the program and its code does not do *)

\* field-matrix.md: last_update is "strictly monotonic" in "each response".
\* Repeats of a baseline aside, the next echo or resynchronisation body, which
\* carries the baseline's revision, does not go back behind what was sent.
LastUpdateMonotonic ==
  ~latched /\ ~Pending("settings") => mem.rev["settings"] >= top["settings"]

=============================================================================
