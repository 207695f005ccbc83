---------------------------- MODULE Coordinator ----------------------------
(***************************************************************************)
(* The command coordinator of one commissioned thermostat: class           *)
(* NuveRuntime of runtime.py with the request handlers of server.py that   *)
(* drive it.  A Home Assistant caller queues one change; the thermostat's  *)
(* next poll fetches it in a whole-snapshot body, after a write-ahead      *)
(* journal is durable; a monitor report or an upload of the thermostat     *)
(* later tells what happened.  Everything that touches durable state runs  *)
(* under one lock, _transaction_lock.                                      *)
(*                                                                         *)
(* A transaction that suspends (at the disk write or at the socket write)  *)
(* is a value of txn; between its actions only what the code does without  *)
(* the lock may happen: contacts, the liveness timer, the passing of time. *)
(* Operations whose locked section never suspends are one action.          *)
(*                                                                         *)
(* Data.  One field stands for every value with the same owner:            *)
(*   temp   the target temperature, a monitor-owned Settings field         *)
(*   prefs  fan, backlight, display objects: owned by Settings uploads     *)
(*   auto   the Auto bounds: the Auto snapshot, monitor-owned              *)
(* Revisions (strings of seconds) are in no guard of this module.          *)
(* A definition that starts with Wrong is a plausible mistake in the next  *)
(* one; nothing uses it but the experiments that show what a property sees.*)
(* Server stamps are ticks; a thermostat stamp is a whole second of the    *)
(* thermostat's clock, which is ClockOffset ticks ahead (behind, if         *)
(* negative) of the server's.                                              *)
(***************************************************************************)
EXTENDS Integers, FiniteSets

CONSTANTS
  Callers,        \* Home Assistant service calls in progress
  Values,         \* values of a field
  CommandFields,  \* fields Home Assistant changes
  EditItems,      \* what the local user changes: fields, "schedule"
  SparseItems,    \* what sparse monitor reports show, one item each
  Uploads,        \* kinds of upload the thermostat makes
  TicksPerSecond, \* resolution of server stamps
  FutureSkew,     \* MONITOR_FUTURE_SKEW_SECONDS, in ticks
  ClockOffset,    \* how far the thermostat's clock is ahead, in ticks
  MaxTime, MaxCommands, MaxEdits, MaxLapses, MaxRestarts, \* bounds of a run
  None            \* "no record here"

SettingsFields == {"temp", "prefs"}
MonitorFields  == {"temp", "auto"}
Fields         == SettingsFields \cup MonitorFields
NoTime         == -1

ASSUME ConstantsAssumption ==
  /\ Callers # {} /\ Values # {}
  /\ CommandFields \subseteq Fields
  /\ EditItems \subseteq Fields \cup {"schedule"}
  /\ SparseItems \subseteq MonitorFields \cup {"schedule"}
  /\ Uploads \subseteq {"settings", "auto", "partial"}
  /\ TicksPerSecond \in Nat \ {0}
  /\ FutureSkew \in Nat /\ ClockOffset \in Int /\ ClockOffset =< FutureSkew
  /\ MaxTime \in Nat /\ MaxCommands \in Nat /\ MaxEdits \in Nat
  /\ MaxLapses \in Nat /\ MaxRestarts \in Nat

VARIABLES
  \* the thermostat and the network
  now,        \* server clock, in ticks
  dev,        \* the thermostat's settings
  devSchedule,\* whether a schedule of the thermostat is active
  body,       \* a command body on its way to the thermostat
  monitor,    \* a monitor report on its way to the server
  upload,     \* an upload that has arrived and waits for the lock
  \* NuveRuntime
  baseline,   \* settings_snapshot and auto_mode_snapshot
  live,       \* state: monitor values, schedule_type, sample_time
  available,  \* state.available
  authority,  \* authoritative_control_monitor_seen
  fresh,      \* monitor_is_fresh
  pending,    \* _pending_command
  uncertain,  \* uncertain_command
  latched,    \* persistence_fault_latched
  txn,        \* the suspended holder of _transaction_lock
  disk,       \* what the store would load
  caller,     \* phase or last outcome of each caller
  \* history, read by no guard
  truth,      \* what became of the latest command
  commands, edits, lapses, restarts

device  == <<now, dev, devSchedule, edits>>
network == <<body, monitor, upload>>
gates   == <<live, available, authority, fresh>>
failures == <<lapses, restarts>>
durable == <<baseline, uncertain, disk>>
vars    == <<device, network, gates, durable, pending, latched, txn, caller,
             truth, commands, failures>>

-----------------------------------------------------------------------------
(* Values *)

Second(t)      == t - (t % TicksPerSecond)
DeviceStamp(t) == Second(t + ClockOffset)
Epoch          == IF ClockOffset < 0 THEN -ClockOffset ELSE 0
Times          == Nat \cup {NoTime}

KindOf(f)   == IF f = "auto" THEN "auto" ELSE "settings"
FieldsOf(k) == IF k = "auto" THEN {"auto"} ELSE SettingsFields

\* g where it is defined, f elsewhere, on the domain of f
Overlay(f, g) == [x \in DOMAIN f |-> IF x \in DOMAIN g THEN g[x] ELSE f[x]]
Part(f, S)    == [x \in S |-> f[x]]

Partial(S)  == UNION {[T -> Values] : T \in SUBSET S}
Command     == [owner : Callers, field : CommandFields, want : Values,
                from : Values, payload : Partial(Fields), queuedAt : Nat,
                delivered : BOOLEAN, deliveredAt : Times, echoAt : Times]
Journal     == [field : CommandFields, want : Values, deliveredAt : Times]
Report      == [vals : Partial(MonitorFields), full : BOOLEAN, stamp : Nat,
                schedule : {"none", "active", "absent"}, post : BOOLEAN]
Upload      == [kind : Uploads, vals : Partial(Fields), at : Nat,
                post : BOOLEAN]
Live        == [vals : [MonitorFields -> Values], sample : Times,
                schedule : {"none", "active", "unknown"}]
Image       == [baseline : [Fields -> Values], uncertain : Journal \cup {None}]
Shadow      == [baseline : [Fields -> Values], live : Live,
                authority : BOOLEAN, pending : Command \cup {None},
                uncertain : Journal \cup {None},
                verdict : {"open", "confirmed", "state_changed"}]
Transaction == [op : {"journal", "send"}]
               \cup [op : {"boundary"}, at : Nat]
               \cup [op : {"monitor"}, shadow : Shadow]
               \cup [op : {"upload"}, report : Upload]
Waiting     == {"waiting", "expiring", "cancelling"}
Outcomes    == {"none", "confirmed", "state_changed", "not_ready", "timeout",
                "outcome_uncertain", "stopped", "cancelled", "lost"}
History     == [field : CommandFields, want : Values, sent : BOOLEAN,
                held : BOOLEAN, shown : SUBSET {"full", "sparse", "upload"}]

ASSUME NoneAssumption ==
  /\ None \notin Callers /\ None \notin Command /\ None \notin Journal /\ None \notin Report
  /\ None \notin Upload /\ None \notin Transaction /\ None \notin History
  /\ None \notin [field : CommandFields, want : Values]

-----------------------------------------------------------------------------
(* Gates *)

LiveMatchesBaseline == \A f \in MonitorFields : live.vals[f] = baseline[f]

\* canonical_live_consistency_ready
LiveConsistent == available /\ authority /\ fresh /\ LiveMatchesBaseline

WrongCanonicalSafe == TRUE

\* canonical_response_block_reason is None, once commissioned
CanonicalSafe == ~latched

\* control_authority_block_reason is None
CanEnableControl == CanonicalSafe /\ LiveConsistent

\* what makes _reject_blocked_pending withdraw a command
Blocked == live.schedule # "none" \/ ~CanEnableControl

WrongBlockedNow == live.schedule # "none"

\* the same, asked again after the journal was written
BlockedNow == Blocked

Persisted == [baseline |-> baseline, uncertain |-> uncertain]

\* _complete_pending answers the caller, unless it was cancelled
Answer(result) ==
  caller' = [caller EXCEPT ![pending.owner] =
                             IF @ \in {"waiting", "expiring"} THEN result ELSE @]
Complete(result) == pending' = None /\ Answer(result)
NoAnswer == UNCHANGED caller

WrongUndone(result) == result

\* What a withdrawn command answers.
Undone(result) == IF pending.delivered THEN "outcome_uncertain" ELSE result

\* Reports already on their way are older than what happens now.
Aged(r) == IF r = None THEN None ELSE [r EXCEPT !.post = FALSE]

-----------------------------------------------------------------------------
(* Home Assistant callers *)

WrongReady == pending = None /\ ~Blocked

\* _assert_ready
Ready == uncertain = None /\ pending = None /\ ~Blocked

\* _command_payload
CommandPayload(base, f, v) ==
  Overlay(Part(base, FieldsOf(KindOf(f))), [x \in {f} |-> v])

\* async_request_settings_change, async_request_auto_mode_change: the checks
\* and _queue_command_locked are one step under the lock.
Request(c, f, v) ==
  /\ commands < MaxCommands
  /\ txn = None
  /\ caller[c] \notin Waiting
  /\ Ready
  /\ v # baseline[f]
  /\ pending' = [owner |-> c, field |-> f, want |-> v, from |-> baseline[f],
                 payload |-> CommandPayload(baseline, f, v),
                 queuedAt |-> now, delivered |-> FALSE,
                 deliveredAt |-> NoTime, echoAt |-> NoTime]
  /\ caller' = [caller EXCEPT ![c] = "waiting"]
  /\ truth' = [field |-> f, want |-> v, sent |-> FALSE,
               held |-> dev[f] = v, shown |-> {}]
  /\ monitor' = Aged(monitor) /\ upload' = Aged(upload)
  /\ commands' = commands + 1
  /\ UNCHANGED <<device, body, gates, durable, latched, txn, failures>>

\* wait_for gives up, or the service call is cancelled; either way
\* _wait_for_command now waits for the lock.
GiveUp(c, why) ==
  /\ caller[c] = "waiting"
  /\ caller' = [caller EXCEPT ![c] = why]
  /\ UNCHANGED <<device, network, gates, durable, pending, latched, txn,
                 truth, commands, failures>>

WrongOwns(c) == pending # None

Owns(c) == pending # None /\ pending.owner = c

\* The cleanup of _wait_for_command withdraws only the caller's own command.
Cleanup(c) ==
  /\ txn = None
  /\ caller[c] \in {"expiring", "cancelling"}
  /\ pending' = IF Owns(c) THEN None ELSE pending
  /\ caller' = [caller EXCEPT ![c] =
       IF @ = "cancelling" THEN "cancelled"
       ELSE IF Owns(c) THEN Undone("timeout") ELSE "outcome_uncertain"]
  /\ UNCHANGED <<device, network, gates, durable, latched, txn, truth,
                 commands, failures>>

\* A call that is cancelled while its cleanup waits for the lock leaves its
\* command to whatever ends it next.
Abandon(c) ==
  /\ caller[c] \in {"expiring", "cancelling"}
  /\ caller' = [caller EXCEPT ![c] = "cancelled"]
  /\ UNCHANGED <<device, network, gates, durable, pending, latched, txn,
                 truth, commands, failures>>

-----------------------------------------------------------------------------
(* Delivery: async_get_settings_response, async_get_auto_mode_response *)

\* A poll of the command's family that passes the canonical gates.  Other
\* polls get an echo, a resynchronisation or {} and change nothing here.
Poll ==
  /\ txn = None /\ body = None
  /\ CanonicalSafe /\ LiveConsistent /\ pending # None
  /\ IF Blocked
     THEN Complete(Undone("not_ready")) /\ UNCHANGED txn
     ELSE /\ txn' = [op |-> IF pending.delivered THEN "send" ELSE "journal"]
          /\ UNCHANGED <<pending, caller>>
  /\ UNCHANGED <<device, network, gates, durable, latched, truth, commands,
                 failures>>

\* The candidate image of a suspended transaction: what is being written.
WriteAhead(at) == [field |-> pending.field, want |-> pending.want,
                   deliveredAt |-> at]

\* After the journal the command is delivered; the gates are read again, for
\* they may have closed while the disk was busy.
JournalCommit(cancelled) ==
  /\ txn # None /\ txn.op = "journal"
  /\ uncertain' = WriteAhead(NoTime)
  /\ disk' = [Persisted EXCEPT !.uncertain = WriteAhead(NoTime)]
  /\ IF BlockedNow /\ ~cancelled
     THEN Complete("outcome_uncertain")
     ELSE pending' = [pending EXCEPT !.delivered = TRUE] /\ NoAnswer
  /\ txn' = IF BlockedNow \/ cancelled THEN None ELSE [op |-> "send"]
  /\ truth' = [truth EXCEPT !.shown = {}]
  /\ monitor' = Aged(monitor) /\ upload' = Aged(upload)
  /\ UNCHANGED <<device, body, gates, baseline, latched, commands, failures>>

WrongAfterSend(raises) == IF raises THEN txn ELSE [op |-> "boundary", at |-> now]

\* A first delivery that did not raise goes on to its boundary; else the lock
\* is released.
AfterSend(raises) ==
  IF ~raises /\ pending.deliveredAt = NoTime
  THEN [op |-> "boundary", at |-> now] ELSE None

\* The response is written to the socket; it may reach the thermostat whether
\* or not the write raises.
SendBody(arrives, raises) ==
  /\ txn # None /\ txn.op = "send"
  /\ body' = IF arrives THEN pending.payload ELSE body
  /\ truth' = IF ~truth.sent
              THEN [truth EXCEPT !.sent = TRUE, !.shown = {},
                                 !.held = dev[truth.field] = truth.want]
              ELSE truth
  /\ IF ~truth.sent
     THEN monitor' = Aged(monitor) /\ upload' = Aged(upload)
     ELSE UNCHANGED <<monitor, upload>>
  /\ txn' = AfterSend(raises)
  /\ IF ~raises /\ pending.deliveredAt # NoTime /\ Blocked
     THEN Complete("outcome_uncertain")
     ELSE UNCHANGED <<pending, caller>>
  /\ UNCHANGED <<device, gates, durable, latched, commands, failures>>

\* The confirmation boundary of _async_deliver_pending_response.
BoundaryCommit(cancelled) ==
  /\ txn # None /\ txn.op = "boundary"
  /\ uncertain' = WriteAhead(txn.at)
  /\ disk' = [Persisted EXCEPT !.uncertain = WriteAhead(txn.at)]
  /\ txn' = None
  /\ IF Blocked /\ ~cancelled
     THEN Complete("outcome_uncertain")
     ELSE pending' = [pending EXCEPT !.deliveredAt = txn.at] /\ NoAnswer
  /\ UNCHANGED <<device, network, gates, baseline, latched, truth, commands,
                 failures>>

-----------------------------------------------------------------------------
(* Monitor reports: async_process_monitor_state *)

\* _monitor_sample_is_current
SampleIsCurrent(r) == r.stamp =< now + FutureSkew /\ r.stamp > live.sample

Shows(r, f, v) == f \in DOMAIN r.vals /\ r.vals[f] = v

WrongPostDelivery(r) == r.stamp >= Second(pending.deliveredAt)

\* _monitor_evidence_is_post_delivery; the receipt is now
PostDelivery(r) ==
  \/ r.stamp > pending.deliveredAt
  \/ /\ pending.echoAt > pending.deliveredAt
     /\ now > pending.echoAt
     /\ r.stamp >= Second(pending.deliveredAt)

\* _confirm_from_monitor
Confirms(r) ==
  /\ pending # None /\ pending.delivered /\ pending.deliveredAt # NoTime
  /\ PostDelivery(r) /\ Shows(r, pending.field, pending.want)

WrongPostQueue(r) ==
  /\ pending # None /\ ~pending.delivered
  /\ r.stamp > pending.queuedAt

\* evidence_is_post_queue
PostQueue(r) ==
  /\ pending # None /\ ~pending.delivered
  /\ r.stamp > pending.queuedAt + FutureSkew

\* The fields _merge_monitor_into_baselines takes from a report: not the
\* command's own field, unless the sample is certainly later than the queueing.
Merged(r) ==
  {f \in DOMAIN r.vals : \/ pending = None \/ Confirms(r)
                         \/ pending.field # f \/ PostQueue(r)}

\* _reconcile_undelivered_pending_from_monitor
Reconciled(r) ==
  IF ~PostQueue(r) \/ pending.field \notin DOMAIN r.vals THEN "open"
  ELSE IF Shows(r, pending.field, pending.want) THEN "confirmed"
  ELSE IF Shows(r, pending.field, pending.from) THEN "open"
  ELSE "state_changed"

WrongResolves(r) ==
  /\ uncertain # None /\ uncertain.deliveredAt # NoTime
  /\ pending # None => ~pending.delivered
  /\ r.full /\ uncertain.field \in MonitorFields

WrongWhilePending(r) ==
  /\ uncertain # None /\ uncertain.deliveredAt # NoTime
  /\ r.full /\ r.stamp > uncertain.deliveredAt
  /\ uncertain.field \in MonitorFields

\* _resolve_uncertainty_from_monitor; pending and uncertain have one kind
Resolves(r) ==
  /\ uncertain # None /\ uncertain.deliveredAt # NoTime
  /\ pending # None => ~pending.delivered
  /\ r.full /\ r.stamp > uncertain.deliveredAt
  /\ uncertain.field \in MonitorFields

WrongRendered(p, news) == [p EXCEPT !.payload = Overlay(@, news)]
\* A queued body follows what the baseline learns; a delivered one does not.
Rendered(p, news) ==
  IF p.delivered THEN p ELSE [p EXCEPT !.payload = Overlay(@, news)]

\* _merge_monitor_state_in_place on the shadow copy, for a current sample
ShadowOf(r) ==
  LET seen  == Overlay(baseline, Part(r.vals, Merged(r)))
      moved == {f \in Merged(r) : r.vals[f] # baseline[f]}
      verdict == IF Confirms(r) THEN "confirmed" ELSE Reconciled(r)
  IN [live |-> [vals |-> Overlay(live.vals, r.vals), sample |-> r.stamp,
                schedule |-> IF r.schedule = "absent" THEN live.schedule
                             ELSE r.schedule],
      baseline |-> seen,
      authority |-> authority \/ r.full,
      pending |-> IF verdict # "open" THEN None
                  ELSE IF pending = None THEN None
                  ELSE Rendered(pending, Part(r.vals, moved)),
      uncertain |-> IF Confirms(r) \/ Resolves(r) THEN None ELSE uncertain,
      verdict |-> verdict]

\* _commit_monitor_shadow: also puts back available and authority as they
\* were when the shadow was made.
Install(shadow) ==
  /\ live' = shadow.live /\ baseline' = shadow.baseline
  /\ authority' = shadow.authority /\ available' = TRUE /\ fresh' = TRUE
  /\ pending' = shadow.pending /\ uncertain' = shadow.uncertain
  /\ IF shadow.verdict = "open" THEN NoAnswer ELSE Answer(shadow.verdict)

\* What the server learns of the latest command from a report.
Learn(r, tag) ==
  truth' = IF truth # None /\ r.post /\ truth.field \in DOMAIN r.vals
           THEN [truth EXCEPT !.shown = @ \cup {tag}] ELSE truth

\* A report whose sample is not current, or is older than MONITOR_MAX_AGE (any
\* may be, ticks being short), only proves contact.
MonitorRejected ==
  /\ txn = None /\ monitor # None
  /\ monitor' = None /\ available' = TRUE
  /\ UNCHANGED <<device, body, upload, live, authority, fresh, durable,
                 pending, latched, txn, caller, truth, commands, failures>>

\* Once a persistence fault is latched only telemetry is exposed.
MonitorWhileLatched ==
  /\ txn = None /\ monitor # None /\ SampleIsCurrent(monitor)
  /\ latched
  /\ live' = ShadowOf(monitor).live
  /\ available' = TRUE /\ fresh' = TRUE /\ monitor' = None
  /\ UNCHANGED <<device, body, upload, authority, durable, pending, latched,
                 txn, caller, truth, commands, failures>>

\* The shadow is exposed at once when nothing durable changed; otherwise it
\* is written first.
MonitorAccepted ==
  /\ txn = None /\ monitor # None /\ SampleIsCurrent(monitor)
  /\ ~latched
  /\ LET shadow == ShadowOf(monitor)
     IN IF shadow.baseline = baseline /\ shadow.uncertain = uncertain
        THEN Install(shadow) /\ UNCHANGED txn
        ELSE /\ txn' = [op |-> "monitor", shadow |-> shadow]
             /\ available' = TRUE
             /\ UNCHANGED <<live, authority, fresh, baseline, pending,
                            uncertain, caller>>
  /\ Learn(monitor, IF monitor.full THEN "full" ELSE "sparse")
  /\ monitor' = None
  /\ UNCHANGED <<device, body, upload, latched, disk, commands, failures>>

MonitorCommit ==
  /\ txn # None /\ txn.op = "monitor"
  /\ Install(txn.shadow)
  /\ disk' = [baseline |-> txn.shadow.baseline,
              uncertain |-> txn.shadow.uncertain]
  /\ txn' = None
  /\ UNCHANGED <<device, network, latched, truth, commands, failures>>

-----------------------------------------------------------------------------
(* Uploads: _update_settings, _update_auto_mode, _update_partial_settings *)

\* The server stamps an upload on arrival, then waits for the lock.
UploadArrives(kind) ==
  /\ upload = None
  /\ upload' = [kind |-> kind, at |-> now, post |-> TRUE,
                vals |-> Part(dev, IF kind = "partial" THEN {"prefs"}
                                   ELSE FieldsOf(kind))]
  /\ available' = TRUE
  /\ UNCHANGED <<device, body, monitor, live, authority, fresh, durable,
                 pending, latched, txn, caller, truth, commands, failures>>

UploadReceived ==
  /\ txn = None /\ upload # None
  /\ upload' = None
  /\ IF latched THEN UNCHANGED <<txn, truth>>
     ELSE /\ txn' = [op |-> "upload", report |-> upload]
          /\ IF upload.kind = "partial" THEN UNCHANGED truth
             ELSE Learn(upload, "upload")
  /\ UNCHANGED <<device, body, monitor, gates, durable, pending, latched,
                 caller, commands, failures>>

IsLater(u, cmd) == cmd.deliveredAt # NoTime /\ u.at > cmd.deliveredAt

\* _settings_owned_upload_result: a later full Settings upload decides a
\* prefs command, still pending or already uncertain.
Owned(u) ==
  LET cmd == IF pending # None /\ pending.delivered /\ pending.field = "prefs"
             THEN pending ELSE uncertain
      decides == /\ u.kind = "settings"
                 /\ cmd # None /\ cmd.field = "prefs" /\ IsLater(u, cmd)
  IN IF ~decides THEN "open"
     ELSE IF u.vals["prefs"] = cmd.want THEN "confirmed" ELSE "state_changed"

\* _delivered_echo_changes: the upload shows the delivered command
EchoesCommand(u) ==
  /\ pending # None /\ u.kind = KindOf(pending.field)
  /\ pending.delivered /\ IsLater(u, pending)
  /\ u.vals[pending.field] = pending.want

\* _settings_snapshot_is_canonical_echo, _auto_snapshot_is_canonical_echo
CanonicalEcho(u) ==
  /\ Owned(u) # "state_changed"
  /\ \A f \in DOMAIN u.vals :
       u.vals[f] # baseline[f] => EchoesCommand(u) /\ f = pending.field

AfterUpload(u) ==
  [baseline |-> Overlay(baseline, u.vals),
   uncertain |-> IF Owned(u) # "open" THEN None ELSE uncertain]

\* What an upload tells the pending command of its family: it ends one that
\* is still queued.
UploadVerdict(u) ==
  IF pending = None \/ u.kind # KindOf(pending.field) THEN "open"
  ELSE IF Owned(u) # "open" THEN Owned(u)
  ELSE IF ~pending.delivered THEN "state_changed" ELSE "open"

\* async_accept_settings_snapshot, async_accept_auto_mode_snapshot
FullUploadAccept(u) ==
  /\ authority' = (authority /\ CanonicalEcho(u))
  /\ live' = [live EXCEPT !.vals =
       IF u.kind = "settings" /\ live.schedule = "active" THEN @
       ELSE Overlay(@, u.vals)]
  /\ IF UploadVerdict(u) # "open"
     THEN Complete(UploadVerdict(u))
     ELSE /\ pending' = IF CanonicalEcho(u) /\ EchoesCommand(u)
                        THEN [pending EXCEPT !.echoAt = u.at] ELSE pending
          /\ NoAnswer

WrongPartialUploadAccept(u) == UNCHANGED <<pending, authority, live, caller>>

\* async_accept_partial_settings: a queued body keeps the command's own field
PartialUploadAccept(u) ==
  /\ pending' = IF pending # None /\ ~pending.delivered
                   /\ KindOf(pending.field) = "settings"
                THEN [pending EXCEPT !.payload =
                        CommandPayload(AfterUpload(u).baseline, pending.field,
                                       pending.want)]
                ELSE pending
  /\ UNCHANGED <<authority, live, caller>>

UploadCommit ==
  /\ txn # None /\ txn.op = "upload"
  /\ LET u == txn.report
     IN /\ baseline' = AfterUpload(u).baseline
        /\ uncertain' = AfterUpload(u).uncertain
        /\ disk' = AfterUpload(u)
        /\ IF u.kind = "partial" THEN PartialUploadAccept(u)
                                 ELSE FullUploadAccept(u)
  /\ txn' = None
  /\ UNCHANGED <<device, network, available, fresh, latched, truth, commands,
                 failures>>
-----------------------------------------------------------------------------
(* Failure of a write *)

Candidate ==
  CASE txn.op = "journal"  -> [Persisted EXCEPT !.uncertain = WriteAhead(NoTime)]
    [] txn.op = "boundary" -> [Persisted EXCEPT !.uncertain = WriteAhead(txn.at)]
    [] txn.op = "monitor"  -> [baseline |-> txn.shadow.baseline,
                               uncertain |-> txn.shadow.uncertain]
    [] txn.op = "upload"   -> AfterUpload(txn.report)

Writing == txn # None /\ txn.op # "send"

\* What the store may hold while a write is on its way, or after it failed.
Images == {disk} \cup (IF Writing THEN {Candidate} ELSE {})

WrongLatchFault == latched' = latched
LatchFault == latched' = TRUE

\* _async_persist_candidate: a write that raises, or whose task is cancelled,
\* latches the fault, and no commit runs.
PersistFails ==
  /\ Writing
  /\ disk' \in Images
  /\ LatchFault /\ txn' = None
  /\ UNCHANGED <<device, network, gates, baseline, uncertain, pending, caller,
                 truth, commands, failures>>

-----------------------------------------------------------------------------
(* What runs without the lock *)

\* async_note_authenticated_contact
Contact ==
  /\ available' = TRUE
  /\ UNCHANGED <<device, network, live, authority, fresh, durable, pending,
                 latched, txn, caller, truth, commands, failures>>

\* _async_mark_unavailable
MarkUnavailable ==
  /\ available /\ lapses < MaxLapses /\ lapses' = lapses + 1
  /\ available' = FALSE /\ authority' = FALSE
  /\ UNCHANGED <<device, network, live, fresh, durable, pending, latched, txn,
                 caller, truth, commands, restarts>>

\* monitor_is_fresh turns false; after the gap _note_monitor_upload may also
\* have taken the authority back.
MonitorStale ==
  /\ fresh /\ lapses < MaxLapses /\ lapses' = lapses + 1
  /\ fresh' = FALSE
  /\ authority' \in {authority, FALSE}
  /\ UNCHANGED <<device, network, live, available, durable, pending, latched,
                 txn, caller, truth, commands, restarts>>

Tick ==
  /\ now < MaxTime
  /\ now' = now + 1
  /\ UNCHANGED <<dev, devSchedule, edits, network, gates, durable, pending,
                 latched, txn, caller, truth, commands, failures>>

-----------------------------------------------------------------------------
(* The thermostat and the network *)

\* The thermostat now has settings d.
Holds(d) ==
  /\ dev' = d
  /\ truth' = IF truth = None THEN None
              ELSE [truth EXCEPT !.held = @ \/ d[truth.field] = truth.want]

EditField(f) ==
  /\ edits < MaxEdits /\ edits' = edits + 1
  /\ f \in EditItems
  /\ \E v \in Values \ {dev[f]} : Holds([dev EXCEPT ![f] = v])
  /\ UNCHANGED <<now, devSchedule, network, gates, durable, pending, latched,
                 txn, caller, commands, failures>>

EditSchedule ==
  /\ edits < MaxEdits /\ edits' = edits + 1
  /\ "schedule" \in EditItems
  /\ devSchedule' = IF devSchedule = "none" THEN "active" ELSE "none"
  /\ UNCHANGED <<now, dev, network, gates, durable, pending, latched, txn,
                 caller, truth, commands, failures>>

\* A body carries the whole snapshot of its family.
ApplyBody ==
  /\ body # None
  /\ Holds(Overlay(dev, body)) /\ body' = None
  /\ UNCHANGED <<now, devSchedule, edits, monitor, upload, gates, durable,
                 pending, latched, txn, caller, commands, failures>>

DropBody ==
  /\ body # None /\ body' = None
  /\ UNCHANGED <<device, monitor, upload, gates, durable, pending, latched,
                 txn, caller, truth, commands, failures>>

\* A full report shows everything, a sparse one a single field.
CaptureMonitor(shown, full) ==
  /\ monitor = None
  /\ full <=> shown = MonitorFields \cup {"schedule"}
  /\ monitor' = [vals |-> Part(dev, shown \ {"schedule"}), full |-> full,
                 stamp |-> DeviceStamp(now), post |-> TRUE,
                 schedule |-> IF "schedule" \in shown THEN devSchedule
                              ELSE "absent"]
  /\ UNCHANGED <<device, body, upload, gates, durable, pending, latched, txn,
                 caller, truth, commands, failures>>

\* REQUEST_TIMEOUT_SECONDS may end a request that waits for the lock.
LoseUpload ==
  /\ upload # None /\ upload' = None
  /\ UNCHANGED <<device, body, monitor, gates, durable, pending, latched, txn,
                 caller, truth, commands, failures>>

LoseMonitor ==
  /\ monitor # None /\ monitor' = None
  /\ UNCHANGED <<device, body, upload, gates, durable, pending, latched, txn,
                 caller, truth, commands, failures>>

-----------------------------------------------------------------------------
(* Restarts *)

\* A new NuveRuntime with async_restore_persistent_baselines.
Restore(image) ==
  /\ baseline' = image.baseline /\ uncertain' = image.uncertain
  /\ live' = [vals |-> Part(image.baseline, MonitorFields), sample |-> NoTime,
              schedule |-> "unknown"]
  /\ available' = FALSE /\ authority' = FALSE /\ fresh' = FALSE
  /\ pending' = None /\ latched' = FALSE /\ txn' = None /\ upload' = None

\* Home Assistant dies; bodies and reports on the network survive.
Crash ==
  /\ restarts < MaxRestarts /\ restarts' = restarts + 1
  /\ \E image \in Images : Restore(image) /\ disk' = image
  /\ caller' = [c \in Callers |-> IF caller[c] \in Waiting THEN "lost"
                                  ELSE caller[c]]
  /\ UNCHANGED <<device, body, monitor, truth, commands, lapses>>

\* async_shutdown under the lock, then a new set-up of the entry
Reload ==
  /\ restarts < MaxRestarts /\ restarts' = restarts + 1
  /\ txn = None
  /\ Restore(disk) /\ disk' = disk
  /\ IF pending # None THEN Answer("stopped") ELSE NoAnswer
  /\ UNCHANGED <<device, body, monitor, truth, commands, lapses>>

-----------------------------------------------------------------------------
(* A commissioned thermostat in the steady state *)

Init ==
  /\ \E v \in Values : dev = [f \in Fields |-> v]
  /\ now = Epoch /\ devSchedule = "none"
  /\ body = None /\ monitor = None /\ upload = None
  /\ baseline = dev
  /\ live = [vals |-> Part(dev, MonitorFields), sample |-> 0,
             schedule |-> "none"]
  /\ available = TRUE /\ authority = TRUE /\ fresh = TRUE
  /\ pending = None /\ uncertain = None /\ latched = FALSE /\ txn = None
  /\ disk = Persisted
  /\ caller = [c \in Callers |-> "none"]
  /\ truth = None /\ commands = 0
  /\ edits = 0 /\ lapses = 0 /\ restarts = 0

TransactionStep ==
  \/ \E cancelled \in BOOLEAN : JournalCommit(cancelled) \/ BoundaryCommit(cancelled)
  \/ \E arrives, raises \in BOOLEAN : SendBody(arrives, raises)
  \/ MonitorCommit \/ UploadCommit \/ PersistFails

CallerStep ==
  \E c \in Callers :
    \/ \E f \in CommandFields, v \in Values : Request(c, f, v)
    \/ GiveUp(c, "expiring") \/ GiveUp(c, "cancelling")
    \/ Cleanup(c) \/ Abandon(c)

LockedStep ==
  \/ Poll \/ UploadReceived
  \/ MonitorRejected \/ MonitorWhileLatched \/ MonitorAccepted

UnlockedStep == Contact \/ MarkUnavailable \/ MonitorStale \/ Tick

DeviceStep ==
  \/ \E f \in Fields : EditField(f)
  \/ EditSchedule \/ ApplyBody \/ DropBody \/ LoseMonitor \/ LoseUpload
  \/ \E item \in SparseItems : CaptureMonitor({item}, FALSE)
  \/ CaptureMonitor(MonitorFields \cup {"schedule"}, TRUE)
  \/ \E kind \in Uploads : UploadArrives(kind)

Next ==
  \/ TransactionStep \/ CallerStep \/ LockedStep \/ UnlockedStep
  \/ DeviceStep \/ Crash \/ Reload

Spec == Init /\ [][Next]_vars

\* A disk or socket write ends; the timer of wait_for fires; asyncio.Lock is
\* first come, first served, so a caller that waits for it gets it.
Fairness ==
  /\ WF_vars(TransactionStep)
  /\ \A c \in Callers : WF_vars(GiveUp(c, "expiring")) /\ SF_vars(Cleanup(c))

FairSpec == Spec /\ Fairness

-----------------------------------------------------------------------------
(* Properties *)

\* Every variable keeps its type.
TypeOK ==
  /\ now \in Nat /\ Epoch =< now /\ dev \in [Fields -> Values]
  /\ devSchedule \in {"none", "active"}
  /\ body \in Partial(Fields) \cup {None}
  /\ monitor \in Report \cup {None} /\ upload \in Upload \cup {None}
  /\ baseline \in [Fields -> Values] /\ live \in Live
  /\ available \in BOOLEAN /\ authority \in BOOLEAN
  /\ fresh \in BOOLEAN /\ latched \in BOOLEAN
  /\ pending \in Command \cup {None} /\ uncertain \in Journal \cup {None}
  /\ txn \in Transaction \cup {None} /\ disk \in Image
  /\ caller \in [Callers -> Waiting \cup Outcomes]
  /\ truth \in History \cup {None}
  /\ commands \in Nat /\ edits \in Nat /\ lapses \in Nat /\ restarts \in Nat

\* While a command body may have reached the thermostat and the server has
\* seen nothing of its result, the journal on disk names the command: the
\* write-ahead of _async_journal_delivery, kept over every failure and restart.
JournalCoversWire ==
  truth # None /\ truth.sent /\ truth.shown = {} =>
    /\ disk.uncertain # None
    /\ disk.uncertain.field = truth.field /\ disk.uncertain.want = truth.want

\* A command that is only queued has not been sent, and no earlier command is
\* open: _assert_ready keeps one command between queueing and a known outcome.
QueuedIsUnsent ==
  pending # None /\ ~pending.delivered => ~truth.sent /\ uncertain = None

\* With no write under way and no fault, memory and disk agree: every mutation
\* of durable state goes through async_persist_and_commit.
DiskMatchesMemory == txn = None /\ ~latched => disk = Persisted

\* A queued whole snapshot changes nothing but the command's own field, however
\* many reports and uploads moved the baseline since it was rendered.
PayloadTracksBaseline ==
  pending # None /\ ~pending.delivered =>
    pending.payload = Overlay(Part(baseline, FieldsOf(KindOf(pending.field))),
                              [x \in {pending.field} |-> pending.want])

\* A delivered command is the journalled one, with the same boundary, so the
\* reports that decide the one decide the other.
DeliveredIsJournaled ==
  pending # None /\ pending.delivered =>
    uncertain = [field |-> pending.field, want |-> pending.want,
                 deliveredAt |-> pending.deliveredAt]

\* A caller that waits for its future owns the pending command: _complete_pending
\* is the only way a command goes, so nobody waits for nothing.
WaiterOwnsCommand ==
  \A c \in Callers :
    caller[c] \in {"waiting", "expiring"} => pending # None /\ pending.owner = c

Becomes(c, outcomes) == caller[c] \notin outcomes /\ caller'[c] \in outcomes

\* A call succeeds only if the thermostat held the value at some moment after
\* its body was first sent (after queueing, if it was never sent), and a report
\* captured since then has shown the field.
SuccessNeedsEvidence ==
  [][\A c \in Callers :
       Becomes(c, {"confirmed"}) => truth'.held /\ truth'.shown # {}]_vars

\* Whatever the thermostat's clock says, within the accepted skew, a command
\* succeeds only on evidence if it was never sent, if uploads own its field, or
\* if one has echoed it: the margin of evidence_is_post_queue and the server's
\* own stamps see to it.
SuccessAtAnyClock ==
  [][\A c \in Callers :
       /\ Becomes(c, {"confirmed"})
       /\ \/ ~truth.sent \/ truth.field = "prefs"
          \/ pending # None /\ pending.echoAt # NoTime
       => truth'.held /\ truth'.shown # {}]_vars

\* CommandTimeoutError ("no change was delivered") and ControlNotReadyError are
\* raised only for a command of which no body was written.
TimeoutMeansUnsent ==
  [][\A c \in Callers : Becomes(c, {"timeout", "not_ready"}) => ~truth.sent]_vars

\* The gates are open when a body starts to be written, even if they closed
\* while its journal was on its way to disk.
SendStartsUnblocked ==
  [][txn' # txn /\ txn' = [op |-> "send"] => ~Blocked]_vars

\* A latched fault freezes durable state and stops bodies until a restart.
LatchedIsFrozen ==
  [][latched /\ latched' =>
       UNCHANGED durable /\ (body' = body \/ body' = None)]_vars

\* What may be on the wire is never rewritten: a redelivery repeats the body.
DeliveredIsFixed ==
  [][pending # None /\ pending' # None /\ pending.delivered =>
       pending'.payload = pending.payload /\ pending'.want = pending.want]_vars

\* What callers and the next start may rely on: write-ahead, one command at a
\* time, and answers that say no more than is known.
CommandOf(r) ==
  IF r = None THEN None ELSE [field |-> r.field, want |-> r.want]
WasSent == truth # None /\ truth.sent
WasHeld == truth # None /\ truth.held
WasSeen == truth # None /\ truth.shown # {}
Owner   == IF pending = None THEN None ELSE pending.owner
Heard   == [c \in Callers |-> IF caller[c] = "expiring" THEN "waiting"
                              ELSE caller[c]]
Contract ==
  INSTANCE CommandContract WITH
    Commands <- [field : CommandFields, want : Values],
    command <- CommandOf(truth), sent <- WasSent, held <- WasHeld,
    seen <- WasSeen, owner <- Owner, record <- CommandOf(disk.uncertain),
    outcome <- Heard
ContractSpec == Contract!Spec

(* What the repository says of the program and its code does not do *)

\* strings.json: after an uncertain outcome, "Further writes are blocked until
\* fresh device state arrives."  Fresh state: a full monitor report and a full
\* upload, both captured after the latest command was sent.
FreshStateEndsLockout ==
  /\ pending = None /\ txn = None /\ ~latched
  /\ truth # None /\ {"full", "upload"} \subseteq truth.shown
  => uncertain = None

\* errors.py, ControlStateChangedError: "A local edit superseded a queued command
\* before delivery."
StateChangedMeansEdited ==
  [][\A c \in Callers : Becomes(c, {"state_changed"}) => edits > 0]_vars

\* security-privacy.md: the runtime "requires strictly post-delivery,
\* field-owning evidence before success".
EvidenceIsPostDelivery ==
  [][\A c \in Callers :
       Becomes(c, {"confirmed"}) /\ truth.sent => truth'.shown # {}]_vars

\* Every call is answered.
EveryCallerAnswered ==
  \A c \in Callers : caller[c] \in Waiting ~> caller[c] \notin Waiting

=============================================================================
