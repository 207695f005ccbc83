----------------------- MODULE CoordinatorInvariants -----------------------
(***************************************************************************)
(* Why the properties of Coordinator hold: the inductive invariants of its *)
(* proofs, apart from them so that TLC can check an invariant first.       *)
(***************************************************************************)
EXTENDS Coordinator

-----------------------------------------------------------------------------
(* The command and its records *)

\* A step of a delivery has its command, in the phase the step expects.
DeliveryHasCommand ==
  txn # None =>
    /\ txn.op \in {"journal", "send", "boundary"} => pending # None
    /\ txn.op = "journal" => ~pending.delivered
    /\ txn.op \in {"send", "boundary"} => pending.delivered
    /\ txn.op = "boundary" => pending.deliveredAt = NoTime

\* What a monitor report is about to install treats the command as the code
\* does in place: it keeps the very command, re-rendered while queued, with the
\* same journal, or it answers the caller.
KeepsCommand(shadow) ==
  /\ shadow.pending # None =>
       /\ pending # None
       /\ shadow.pending.owner = pending.owner
       /\ shadow.pending.field = pending.field
       /\ shadow.pending.want = pending.want
       /\ shadow.pending.delivered = pending.delivered
       /\ shadow.pending.deliveredAt = pending.deliveredAt
       /\ shadow.pending.queuedAt = pending.queuedAt
       /\ shadow.pending.echoAt = pending.echoAt
       /\ pending.delivered => shadow.pending = pending
       /\ shadow.uncertain = uncertain
  /\ shadow.verdict = "open" <=> pending = None \/ shadow.pending # None

ShadowKeepsCommand ==
  txn # None /\ txn.op = "monitor" => KeepsCommand(txn.shadow)

\* Why the command properties hold.  One command at a time goes from queued to
\* delivered to bounded, its journal with it, while the lock excludes the rest;
\* a fault ends every transaction, and until then disk follows memory.
CommandInv ==
  /\ latched => txn = None
  /\ ~latched => disk = Persisted
  /\ pending # None /\ ~pending.delivered => pending.deliveredAt = NoTime
  /\ DeliveredIsJournaled /\ QueuedIsUnsent /\ WaiterOwnsCommand
  /\ DeliveryHasCommand /\ ShadowKeepsCommand

-----------------------------------------------------------------------------
(* The queued body *)

\* A queued command p over a baseline: its body, and for a monitor-owned field
\* also the value it was to replace, which a merged report is compared with.
Tracks(p, base) ==
  p # None /\ ~p.delivered =>
    /\ p.payload = CommandPayload(base, p.field, p.want)
    /\ p.field \in MonitorFields => p.from = base[p.field]

\* A partial upload moves no field that monitors own, a full one of the other
\* family none of this family.
Shaped(u) ==
  DOMAIN u.vals = IF u.kind = "partial" THEN {"prefs"} ELSE FieldsOf(u.kind)

\* Why PayloadTracksBaseline holds, together with CommandInv.
PayloadInv ==
  /\ Tracks(pending, baseline)
  /\ txn # None /\ txn.op = "monitor" =>
       Tracks(txn.shadow.pending, txn.shadow.baseline)
  /\ upload # None => Shaped(upload)
  /\ txn # None /\ txn.op = "upload" => Shaped(txn.report)

-----------------------------------------------------------------------------
(* The contract *)

\* What a monitor report is about to install keeps the journal or drops it; it
\* drops it when it answers the caller.
AnswersSettle ==
  txn # None /\ txn.op = "monitor" =>
    /\ txn.shadow.uncertain \in {uncertain, None}
    /\ txn.shadow.verdict # "open" => txn.shadow.uncertain = None

-----------------------------------------------------------------------------
(* What the thermostat's words are worth *)

\* What its clock may add to the time.
Ahead == IF ClockOffset > 0 THEN ClockOffset ELSE 0

\* What the server may find in memory, now or after a restart.
Records == Images \cup {Persisted}

Named(image) == image.uncertain # None
Bounded(image) == Named(image) /\ image.uncertain.deliveredAt # NoTime

\* A journal names the latest command; with a boundary, that command was sent.
JournalsNameLatest ==
  \A image \in Records :
    /\ Named(image) => /\ truth # None /\ image.uncertain.field = truth.field
                       /\ image.uncertain.want = truth.want
    /\ Bounded(image) => truth.sent

CommandIsLatest ==
  pending # None =>
    /\ truth # None /\ truth.field = pending.field /\ truth.want = pending.want
    /\ pending.echoAt # NoTime =>
         pending.deliveredAt # NoTime /\ truth.shown # {} /\ truth.held

\* No record stops naming a command that may be on the wire unseen, as long as
\* the thermostat's clock is not ahead.
WireCovered ==
  Ahead = 0 /\ truth # None /\ truth.sent /\ truth.shown = {} =>
    \A image \in Records : Named(image)

\* What was captured before the latest command was sent is stamped no later than
\* any boundary of it, and than its queueing while it is queued; a stamp of the
\* thermostat may be ahead of that.
Dated(stamp, post) ==
  /\ stamp =< now
  /\ ~post => \A image \in Records :
                Bounded(image) => stamp =< image.uncertain.deliveredAt

StampsTell ==
  /\ monitor # None =>
       /\ Dated(monitor.stamp - Ahead, monitor.post)
       /\ pending # None /\ ~pending.delivered /\ ~monitor.post =>
            monitor.stamp - Ahead =< pending.queuedAt
       /\ monitor.full => MonitorFields \subseteq DOMAIN monitor.vals
  /\ upload # None => Dated(upload.at, upload.post)
  /\ txn # None /\ txn.op = "upload" => Dated(txn.report.at, txn.report.post)
  /\ txn # None /\ txn.op = "boundary" => txn.at =< now

\* What shows the wanted value was captured while the thermostat had it.
ShowsHeld(vals, post) ==
  truth # None /\ post /\ truth.field \in DOMAIN vals
    /\ vals[truth.field] = truth.want => truth.held

\* When a report tells whether the latest command succeeded: the thermostat's
\* clock is not ahead, the command was never sent, or an upload decides or has
\* echoed it.
Telling ==
  \/ Ahead = 0 \/ ~truth.sent \/ truth.field = "prefs"
  \/ pending # None /\ pending.echoAt # NoTime

Whole(u) == u.kind # "partial" => DOMAIN u.vals = FieldsOf(u.kind)

ValuesTell ==
  /\ truth # None /\ dev[truth.field] = truth.want => truth.held
  /\ monitor # None => ShowsHeld(monitor.vals, monitor.post)
  /\ upload # None => Whole(upload) /\ ShowsHeld(upload.vals, upload.post)
  /\ txn # None /\ txn.op = "upload" =>
       /\ Whole(txn.report) /\ ShowsHeld(txn.report.vals, txn.report.post)
       /\ truth # None /\ txn.report.post /\ txn.report.kind # "partial"
          /\ truth.field \in FieldsOf(txn.report.kind) => truth.shown # {}
  /\ txn # None /\ txn.op = "monitor" /\ txn.shadow.verdict = "confirmed"
       /\ Telling => truth # None /\ truth.held /\ truth.shown # {}

\* Why JournalCoversWire, SuccessNeedsEvidence and SuccessAtAnyClock hold.
EvidenceInv ==
  /\ JournalsNameLatest /\ CommandIsLatest /\ WireCovered
  /\ StampsTell /\ ValuesTell

=============================================================================
