# Nuve Local: a TLA+ verification project

`custom_components/nuve_local` is a Home Assistant integration that plays the
cloud of a Nuve thermostat on the local network. The thermostat polls an HTTP
server in the integration for whole snapshots of its settings, uploads its own
snapshots, and posts monitor packets; Home Assistant's entities read the result
and ask for changes. Almost everything that can go wrong silently goes wrong in
one place, the *command coordinator* (`runtime.py` with the handlers of
`server.py`): a change is a whole-snapshot body that the device fetches when it
likes, may or may not receive, and never acknowledges. This project started there
and now has every part that keeps state of its own.

## The system

| Component | State | Operations | What is hard | What makes it right |
|---|---|---|---|---|
| Command coordinator (`runtime.py`, `server.py`) | baselines, live state, authority, pending command, uncertain command, persistence latch, transaction lock | requests, GET Settings and GET Auto, full and partial uploads, monitor packets, contact, liveness timer, shutdown, restore | every operation waits for a disk or socket with the lock held while timers, cancellations and gates move; reports are late, reordered and stamped by another clock in whole seconds | a change that may have been sent is journalled; success needs evidence; a queued body undoes nothing; no caller waits for nothing |
| Baseline bootstrap (`runtime.py`) | armed window, what was served, timer | arm, serve Settings, serve Auto, expire, capture | timer against poll, restart in the window | each companion is served once, in order, inside its window |
| Monitor resynchronisation (`runtime.py`) | step of the two-poll cycle, wake time, Auto companion | reset and wake polls, Auto poll, report | a body or a report is lost, a restart or a report comes between the two polls | each body finds its companion; the cycle always brings the full report |
| Revisions (`protocol.py`, `runtime.py`) | a revision and a floor per family, the live command time | every upload, command, report and answer | the clock steps back or stands still; a write fails after the body went out | what is new is later than all that was sent |
| Baseline store (`storage.py`) | file, last good envelope, Store's pending data | load, save | Store swallows errors and defers writes; files are damaged | acknowledged means readable; recovery latches control off; the first capture is immutable |
| Request server, pairing (`server.py`, `auth.py`, `commissioning.py`, `config_flow.py`) | pairing window, token hash, token lock, slots | admit, pair, time out, stop, open a window, save options | two devices pair at once; a flow saves a stale copy; a stop while requests wait | one token per window, no window after a token, no stranger's handler; every request ends |
| Repairs (`repairs.py`) | active issues, grace timers | refresh, activate, shutdown | a condition that comes back while its timer runs, or changes while nobody notifies; a refused unload | an issue is raised only after a whole grace period, and what lasts is raised |
| Sources (`sources.py`) | running fetch, wanted fetch, observation | schedule, refresh, tick, close | an update during a fetch; close during a fetch | the last update is shown; nothing is set after close |
| Set-up and unload (`__init__.py`) | owned clean-ups, what `async_on_unload` holds | set up, unload, fail, be cancelled | one step of several fails; a clean-up has two owners | each clean-up runs once and nothing is left |
| Command validation, wire format, entities, diagnostics and trace | none shared | pure checks, parsing and rendering, projections, read-only views | – | – |

They interact through the runtime: handlers and entity services call it, it
calls the store through a persistence listener under `_transaction_lock`, and it
notifies entities, repairs and diagnostics through plain callbacks, which read
only.

## Modules

| Module | What it is |
|---|---|
| `Coordinator` | the command coordinator: state machine and properties |
| `CommandContract` | what the coordinator promises to its callers and to the next start: the abstract specification of one command |
| `CoordinatorInvariants` | the inductive invariants that explain its properties |
| `MCCoordinator` with `Coordinator*.cfg`, `FindingLockout.cfg` | its small instances for TLC |
| `CoordinatorSafety` | types, and the theorems that follow from `CommandInv` and `PayloadInv` |
| `CoordinatorEvidence` | the theorems that follow from `EvidenceInv`, and the refinement of `CommandContract` |
| `DurableCell` | what the coordinator may rely on from its storage: the abstract specification of `disk` |
| `BaselineStore` | envelope, Store, read-back, recovery; implements `DurableCell` |
| `BaselineStoreProofs` | its types, its history and the refinement |
| `Bootstrap` | capture of a first baseline: window, two bodies, journal, expiry timer |
| `BootstrapProofs` | its inductive invariant and what follows from it |
| `Resync` | revisions and the reset and wake cycle, with the thermostat's monitor sender |
| `ResyncProofs` | revisions advance, wakes are newest, companions follow |
| `RequestServer` | admission, the token lock, slots, pairing windows, reloads; implements `PairingContract` |
| `PairingContract` | what pairing promises: who is served, who teaches a token, and through which window |
| `RequestServerProofs` | one token, a spent window, known tokens, and the refinement |
| `Entry` | set-up, unload and stop of an entry with its outdoor observation and forecast |
| `EntryProofs` | ownership of clean-ups, and what the forecast shows |
| `Repairs` | the repair manager over the issue registry |
| `RepairsProofs` | the registry mirrors the conditions, graces are whole |
| `MCBaselineStore`, `MCBootstrap`, `MCResync`, `MCRequestServer`, `MCEntry`, `MCRepairs` with the `.cfg` of the same part, `FindingExpiredJournal.cfg` | the small instances |

Each component is checked on its own, and stands in the others by what it
promises: `Coordinator` and `Bootstrap` keep `disk` as `DurableCell` allows;
`Resync` has one fact, `consistent`, where `Coordinator` has the parts that
make live state current; a handler of `RequestServer` is an action of
`Coordinator`, `Bootstrap` or `Resync`; the conditions of `Repairs` are what those
make of the runtime; `Entry` brackets all of them between set-up and unload. Three
promises are specifications of their own that the detailed modules are shown to
implement: `DurableCell` (the store's), `CommandContract` (the coordinator's) and
`PairingContract` (the server's).

### How `Coordinator` corresponds to the code

*State.* `baseline` is `settings_snapshot` with `auto_mode_snapshot`; `live` the
control part of `state`; `available`, `authority`, `fresh` the inputs of the
safety gates; `pending` and `uncertain` are `_pending_command` and
`uncertain_command`; `latched` is `persistence_fault_latched`; `disk` is what
`NuveBaselineStore.async_load` would return; `caller[c]` is where a service call
stands in `_wait_for_command`, or what it raised. `dev`, `devSchedule`, `body`,
`monitor`, `upload` are the thermostat and what is on its way; `truth` is history
for the properties and guards nothing.

*The lock.* `_transaction_lock` is an `asyncio.Lock`. A handler that suspends
with the lock held (at `async_persist_and_commit` or at the response sender)
becomes a value of `txn` between two actions; a handler that does not suspend is
one action. What the code does without the lock (`async_note_authenticated_contact`,
the liveness timer, `_note_monitor_upload`'s gap, the passing of time, everything
of the thermostat) may happen between the two. So delivery is `Poll`,
`JournalCommit`, `SendBody`, `BoundaryCommit`: each with the variants where the
request is cancelled, the body arrives although the write raised, or the gates
closed meanwhile. `PersistFails` is a write that raised or whose task was cancelled:
the disk holds the old image or the new one.

*Data.* One field stands for all fields with the same owner: `temp` for the
monitor-owned Settings fields (target temperature, mode), `prefs` for those that
only uploads report (fan, backlight, display), `auto` for the Auto bounds. Values
are model values. Server stamps are ticks; thermostat stamps are truncated to
`TicksPerSecond` and shifted by `ClockOffset`, which may be negative; time starts at
`Epoch`, late enough for a clock that is behind.

*The contract.* `Contract` maps the latest command and what became of it (`truth`), the
owner of `pending`, the journal of `disk` and `caller` to `CommandContract`. There a
command is *exposed* while a body of it may have reached the thermostat and nothing was
seen of the result; its record may not go while it is. A caller that waits and one whose
timer has fired hear the same things, so both are `waiting`.

*Simplifications.* Receipt and processing of a monitor report are one instant
(the lock is first come, first served, and nothing is read before it); uploads are
stamped on arrival and wait in `upload`, as the code does. `last_settings_upload`
is set only where authority is withdrawn, so the gate on it is implied by
authority and left out. `monitor_is_fresh` is a Boolean that may turn false at any
time. A caller that is cancelled while its cleanup waits for the lock (`Abandon`) leaves
its command to whatever ends it next. The thermostat does not poll while a body is on
its way to it. Control is enabled and commissioning complete. Echoes that the
server sends when no command is pending are no-ops for the thermostat and not
modelled.

### How `BaselineStore` corresponds to the code

`file` is the baseline file as one envelope with its `previous_good`; `lastGood` is
`_last_good_envelope`, `deferred` is Store's `_data`, `mem` what
`persistent_baselines` would return. A save is `BeginSave` (the envelope is built
from `lastGood`), `StoreWrites` or `StoreDefers` (Store returns in either case, also
when the write failed) and `Verify` (the read-back; the runtime commits, or latches
if its commit raises). `SaveRaises` and `Down` may come in between and leave the old
file or the new one, since a replace is atomic. `Start` is a new set-up: the load
with its fallback and what `async_restore_persistent_baselines` makes of it.

Home Assistant's Store is not in the repository; it is modelled from what
`storage.py` says of it (it swallows write failures, defers writes while Core
stops, returns nothing for a file that it cannot parse) and from one more fact, that
it moves such a file aside. Damage is a set of parts: the current copy, the
previous one, the whole file. Hashes and shape checks decide only whether a part is
damaged. Images are a settings snapshot and a journal; the rest of the envelope
travels with them. The serial number of an entry does not change.

`Coordinator` keeps `disk` as one image and resolves a failed write at once;
`DurableCell` keeps the set of images a start could find (`may`) and resolves later.
Both say the same of every restart: an unlatched one finds the last acknowledged
image or one whose write was not answered. Damage, which `Coordinator` leaves out,
leads to a latched start.

### How `Bootstrap` corresponds to the code

`boot` and `captured` are the window and `has_settings_baseline` in memory, `disk`
what a load would return of them. As in `Coordinator`, an operation that persists is
an action up to the suspension and `Commit` or `PersistFails` after it; `Commit` runs
the commit callback, which differs between operations in what it does to the timer
(`TimerOf`), and lets the body go out or, when the request was cancelled, not. What
waits for the lock is state where it carries a time that was read before
(`poll`, `arming`) or holds a reference (`expirers`, tasks of fired timers). `handle`
is `_bootstrap_timer`, which may name a callback that has fired; `timers` is what the
loop will run. `Notify` is the end of `_notify_listeners`, which makes the one automatic
attempt of a start. A start is `Restore` and `SetListener`; the loop runs between the
two only while a contractor logo is read in the executor (`HasLogo`). `ready` stands for
the gates of `can_arm_bootstrap` that change at run time (state available, monitor
fresh, control off), the configured ones hold. A window has the number of its arming
for its revision. That the firmware uploads after a Settings body is not assumed: an
upload may come at any time or never.

`Coordinator` begins where this ends, with a captured baseline.

### How `Resync` corresponds to the code

Each action is one section under `_transaction_lock`; it suspends only in a write
or a send, and nothing that runs meanwhile touches what is modelled, so a section
that dies half-way is a failed write, or a body that went out before a restart.
`mem` and `disk` hold a revision and a floor per family, `live_data_command_time`
and the journal. Revisions are seconds of UTC as numbers, `NoRev` is `None`;
`NextRevision` and `Latest` are `next_revision` and `_latest_revision`. Uploads of
three kinds, command bodies, confirmations, merged reports, resets, wakes,
companions and echoes each make or send a revision as their handler does, from
the floors that handler reads. `phase`, `wakeTime` and `companion` are
`_monitor_resync_next`, `_monitor_wake_command_time` and
`_monitor_resync_auto_companion_revision`.

The thermostat is external: it turns its monitor sender off at a reset and on at a
wake whose command time is another than the last it acted on. The documents leave
open whether a reset makes it forget that time; here it does not, which makes the
server's part harder. The clock may step either way inside `0..MaxClock`.

### How `RequestServer` corresponds to the code

A request is `idle`, waits for the token `lock` or a `slot`, is in a `handler`, or is
`done`. `_security` is one action up to the lock; a request that came unpaired and
is past it holds the lock until its handler ends, so the lock is not a variable.
`entry` is what outlives a server (token hash, and the pairing deadline in `data` and
in `options`), `window` the deadline in the server's copy of the configuration, made
when its set-up began. Deadlines are numbered; `expired` says which have passed. A
flow reads the entry and writes it in one step each, and Home Assistant reloads the
entry some time after (`reload`), one set-up or unload at a time. A stop closes the
socket, then waits for handlers and cancels those that are left, as aiohttp does.
`late` marks requests that were under way when the user opened a window: one of them
may still be let in by the token or window of before, and the properties say so.
`Pairing` maps the holder of the lock to the contract's guest, the others inside to
members, and the windows in the entry and in the server that have not expired to those
through which a request may still pair.
Checks of source, host, serial and body reject without a change of state and are not
modelled.

### How `Entry` corresponds to the code

`pc` names the await at which the set-up or unload stands. `onUnload` and `calls`
show the two owners that `_own_cleanup` gives a callback: the local list that a failed
set-up runs in reverse, and `async_on_unload`; `release_once` makes the second call a
no-op, which the repair manager's shutdown, registered directly, does not have. A
set-up can fail or be cancelled at each await; Home Assistant may or may not run
`async_on_unload` after a failed one. States of the weather entity are numbered, so a
fetch is as good as the number it started from; `fetch`, `repeat`, `closed` and
`listening` are the lock, `_refresh_again`, `_closed` and the state listener of
`ForecastRefresh`. The entry has a weather entity and an override sensor; what a
forecast becomes on the wire (`weather.py`) and units are left out.

### How `Repairs` corresponds to the code

The conditions are free, since any of them may change at a notification; two kinds
also change while nobody notifies, because they depend on the age of the last
report. `status` is `_status`, `handles` the kinds in `_handles`, `timer` how long each
has run; the registry, `issues`, is persistent and is what a former manager left.
A refused unload leaves a manager that the runtime no longer calls (`deaf`) but that
can be shut down and whose callback is registered. `held` counts how long each
refresh in turn has seen a condition.

## Runs

Each run asks one question; twelve in all. Two values, at most two callers, two or
three ticks and one local edit are enough for every order of queueing, delivery,
capture and receipt of one command with a stale or fresh report; a second command is
there where two commands interact. `MaxTime` bounds stamps; every other `Max...`
bounds a counter that only its own actions read. The store needs three saves: a
predecessor, the image that is damaged or in doubt, and one on top of it. Bootstrap
needs two windows, one after the other, and one restart. In `Resync` one upload,
command, restart, mishap and step of the clock already meet in every order. Three
requests with two tokens and one slot let one hold the lock while one waits for it and
one for the slot; the second window is the one that overtakes requests. Three
set-ups and three changes let a fetch of an old set-up outlive it and a change
arrive during the repeat of a fetch. Repairs has one kind of each sort, a grace of two
steps, so that a timer can be half-way, and two managers, so that one inherits
the other's registry. Callers and values are symmetric (only equality is asked of
them); runs with liveness use no symmetry.

| Run | Question |
|---|---|
| `CoordinatorMonitor` | temperature against full and sparse reports, two ticks to a second, a clock one tick behind, skew, lapses: success needs evidence, and no body starts through a closed gate |
| `CoordinatorUploads` | Settings commands decided by uploads that waited for the lock, and the same-second rule after a coherent echo, with a clock one tick ahead, which is all the skew accepted: what succeeds unsent, by an upload or after an echo has evidence |
| `CoordinatorRestart` | crash and reload at every point, failing writes, partial and Auto uploads: a queued body follows the baseline, a delivered one does not change, the journal covers the wire; the contract of one command is kept |
| `CoordinatorCallers` | two callers, time-outs and cancellations, an Auto command while a schedule starts or ends: nobody takes another's command, the contract is kept over two commands, and every caller is answered |
| `BaselineStore` | swallowed, deferred, failing and interrupted saves, damage, unreadable files: the store implements the cell, the recovery copy is the predecessor, the first capture stays |
| `Bootstrap` | arming by hand and automatically, polls, uploads, a timer that waits for the lock, cancelled and failing writes, a restart: each body once, never unjournalled, a journal that loads, a window that ends |
| `Resync` | a clock that steps back, three kinds of upload, commands, lost bodies and reports, lapses, failed writes, a restart: revisions advance, each wake is heard, each body finds its companion, the full report comes |
| `RequestServer` | two tokens race for the lock and a slot, hang, fail and are cancelled by a stop, while windows expire, are opened and saved over and the entry is reloaded: the pairing contract is kept (one token, through a window that is open), no window after it, no stranger's handler, every request ends, an opened window takes effect |
| `Entry` | set-ups that fail or are cancelled at each await, unloads, refusals and Home Assistant's stop, while sources change and forecasts are fetched: released once, nothing left, nothing set after close, the last state shown |
| `Repairs` | conditions that come and go with and without a notification against timers, reloads, refused unloads and removal: the registry mirrors the conditions, only whole graces raise, what lasts is raised |
| `FindingLockout`, `FindingExpiredJournal` | what the repository says and the code does not do (below) |

Deadlock is checked wherever the system never rests. `RequestServer`, `Entry` and
`Repairs` have bounded requests, set-ups and managers and may come to rest when these
are used up; there progress is the liveness property.

### Fairness

* `CoordinatorCallers`. Weak fairness of `TransactionStep`: a disk or socket write
  ends, one way or the other (`REQUEST_TIMEOUT_SECONDS` cancels the request). Weak
  fairness of `GiveUp(c, "expiring")`: the timer of `asyncio.wait_for`. Strong fairness
  of `Cleanup(c)`: `asyncio.Lock` wakes its waiters in order, so one that waits gets
  it although others take it again and again. The thermostat owes nothing.
* `Bootstrap`. A write ends, the loop runs a timer that is due, time passes, a set-up
  that was begun goes on (weak fairness), and the expiry task gets the lock it waits
  for (strong fairness, for the reason above). Nobody need poll, upload or press, and a
  window that a stopped Home Assistant leaves on disk is ended by the next start.
* `Resync`. The thermostat polls for ever and not every body is lost: strong
  fairness of a reset poll and of a wake poll that arrive. The integration cannot
  recover without it; nothing is assumed of uploads, reports or the clock.
* `RequestServer`. Timers fire (a request that hangs is cut off, also while it waits for
  a slot), the lock is passed on, a stop cancels what is left, a scheduled reload is
  done. A handler owes nothing.
* `Entry`. Awaits end, a fetch ends within its time-out, the interval timer ticks.
* `Repairs`. Time passes, timers fire, the runtime notifies again and again (every
  authenticated contact does).

## Proofs

The assumptions are those named in the modules (`ConstantsAssumption`,
`NoneAssumption`): the constants have their types and `None` is no value. Three
theorems of `CoordinatorEvidence` (`JournalKept`, `SuccessKept`, `ContractKept`) assume
`ClockOffset =< 0` as well: the thermostat's clock is not ahead; it may be behind.
Every theorem is for all values of the constants; the strengthenings that the proofs
use were model-checked first on the instances above and are not rechecked by the runs.

**Coordinator.** `TypeCorrect` is by one lemma per action group. `CommandInv` is
inductive with the types: it says that a command is queued, journalled, then bounded,
with the same journal in memory; that each suspended step of a delivery has its
command in the phase it expects; that the shadow a monitor transaction is about to
install treats the command as the code does in place; and that a latched fault
excludes every transaction while, without one, disk equals memory. `QueuedIsUnsent`,
`WaiterOwnsCommand`, `DeliveredIsJournaled`, `DiskMatchesMemory` and the step
properties `TimeoutMeansUnsent`, `SendStartsUnblocked`, `LatchedIsFrozen` and
`DeliveredIsFixed` follow.

`PayloadInv` explains `PayloadTracksBaseline`: a queued body is the baseline with its own
field replaced, in memory and in the shadow of every transaction under way; the value
the command was made from is the baseline's for fields that the monitor owns; and an
upload that waits has the shape of its kind, so that rebasing on it touches nothing
else. The shadows are why the property alone is not inductive: a transaction
suspended in its write installs what it computed before.

`EvidenceInv` adds what stamps are worth: every image the server could find in
memory or on disk names the latest command or nothing (`JournalsNameLatest`); a report
captured before the command was sent is stamped no later than any boundary, give or
take `Ahead`, what the thermostat's clock may add (`Dated`); what shows the wanted
value was captured while the thermostat had it. It is inductive together with
`CommandInv` for every clock. Two of its parts say something only while reports tell
what they seem to: `WireCovered` (no image drops the name of a command of which nothing
was seen since its body was first written) if the clock is not ahead, and the evidence
of a shadow that is about to confirm if `Telling`, that is, if the clock is not
ahead, or the command was never sent, or an upload decides or has echoed it. So
`JournalKept` (`JournalCoversWire`) and `SuccessKept` (`SuccessNeedsEvidence`) assume a
clock that is not ahead, which is needed (see `EvidenceIsPostDelivery` below), and
`SuccessKeptAtAnyClock` says what remains for any clock within the accepted skew:
`evidence_is_post_queue` leaves the skew as a margin, and uploads are stamped by the
server.

`ContractKept` shows that `Coordinator` implements `CommandContract`. Two invariants
carry it. `WireCovered` makes the record of an exposed command stay in whatever image a
cut-off write leaves, so that every commit, failure, crash and restart is the
contract's `Journal`, `Settle` or `Die`; `AnswersSettle` says that the shadow of a
suspended monitor report keeps the journal or drops it, and drops it when it answers, so
that installing it is one step of the contract and not two. Each action is mapped by a
lemma of its own (`ContractCaller`, `ContractPoll`, ..., `ContractOutside`); most map to
a stutter, and the time at which the caller's timer fires is not visible.

**Store.** `ChainInv` says that whatever may reach the file (the save under way, a
deferred one, the next one built from `lastGood`) carries the runtime's state as its
predecessor, and `CaptureInv` that it carries the first capture; from them
`PredecessorCorrect` and `InitialCaptureKept`. `StoreImplementsCell` maps `may` to the
contents of the file if it is valid and of the writes under way, and needs that only a
loaded and unlatched runtime saves, and that what Store holds belongs to a save
that is not yet read back or that latched. `DurableCell` lets a latched start give up
a cell that it finds damaged.

**Bootstrap.** `BInv` says that a transaction runs only in an unlatched runtime, that
an unlatched runtime holds what is on disk (`InSync`), that windows are numbered in
order (`IdsInOrder`), and what the image of each kind of transaction adds to the disk
(`TxnOK`). `Lands` draws the conclusion that whichever image a cut-off write leaves is
good: it loads, and it names what was sent. `BodiesServedOnce`, `SentBodiesJournaled`
and `JournalAlwaysLoads` follow, and with the types `BootstrapTypeCorrect`.

**Resync.** `RevInv` is the chain sent ≤ floor in memory ≤ floor on disk for each family:
a body goes out only after its revision is durable, so neither a failed write, nor
a restart, nor the clock gets behind what was sent (`RevisionsAlwaysAdvance`). For
wakes the order is within one runtime (`WakesAreNewest`); for the Auto companion, that
it is there exactly while a resynchronisation body awaits its Auto poll
(`CompanionsFollowBodies`).

**Request server.** `LockInv`: at most one request that came unpaired is past the lock,
and while one is the entry knows no token; `SpentInv`: an entry that knows a token has
no window left, nor has the server or the runtime made from it. From them
`OneTokenIsLearned`, `WindowIsSpent` and `OnlyKnownTokens`. `PairingKept` shows that
the server implements `PairingContract`; it needs in addition that a window which is
about to be opened has not expired and that a token leaves no window in a server
(`WindowInv`). The lock is the contract's single guest, and what it does while a
request waits for a slot, or a reload replaces the server, is a stutter.

**Entry.** `PhaseInv` says for each await what is held, registered and released;
`Numbered` that no number of a set-up to come is in use; `ForecastInv` what a running or
repeated fetch will show. `EachReleasedOnce`, `NothingLeft`, `OutdoorCorrect`,
`NoChangeLost` and `ClosedIsSilent` follow.

**Repairs.** `StatusInv`: `_status` and the registry agree, and no issue is there whose
condition the last refresh did not see; `TimerInv`: a timer has run no longer than its
condition was held.
`RegistryMirrors`, `RaisedWithReason` and `UnloadedIsSilent` follow.

Only model-checked: the liveness properties `EveryCallerAnswered`, `EveryWindowEnds`,
`ResyncRecovers`, `EveryRequestEnds`, `WindowTakesEffect`, `SourceIsFetched` and
`LastingIsRaised`, which are out of the proof system's reach.

## Findings

Two runs show the repository disagree with itself:

* `FindingLockout`: after an uncertain outcome "further writes are blocked until
  fresh device state arrives" (`strings.json`), but a journal without a boundary
  (the write raised, the request was cancelled, or the process died between the two
  writes) is never resolved by any state.
* `FindingExpiredJournal`: a bootstrap window that expired while Home Assistant was down
  is ended by a timer with delay 0; if set-up then reads a contractor logo, the timer's
  task runs before the persistence listener is set and latches a storage fault that is
  none. The journal stays, so the next start may do the same.

Five more disagreements are stated as properties in the modules without a run of
their own. TLC finds each violated when the property is added to a `.cfg` with the
constants given:

| Property | Constants | What the repository says, and what the code does |
|---|---|---|
| `Coordinator!StateChangedMeansEdited` | `CoordinatorUploads.cfg` with `CommandFields` and `EditItems` `{"temp"}`, one tick a second, `MaxTime` 1 | `ControlStateChangedError` (`errors.py`) says that a local edit superseded the command; any full upload of its family while it is queued raises it, also the echo that the firmware uploads after each Settings poll |
| `Coordinator!EvidenceIsPostDelivery` | `CoordinatorMonitor.cfg` with `ClockOffset` 1, one tick a second, `MaxTime` 1 | "strictly post-delivery evidence" (`security-privacy.md`) compares the thermostat's clock with the server's; if it is ahead within the accepted skew, a report captured before the delivery confirms the command |
| `BaselineStore!LostJournalLatches` | `Settings` {s1}, `Commands` {c1}, `Parts` {"file"}, `MaxSaves` 2 | a file that cannot be parsed latches writes off, because a journal may have been in it, but only until the next set-up: the file is then gone, which counts as a first start |
| `Resync!LastUpdateMonotonic` | `Resync.cfg` | `field-matrix.md` calls the last-update value "strictly monotonic" in "each response"; an echo or a resynchronisation body carries the baseline's revision, which can be behind one that was sent for a command |
| `Repairs!RemovedHasNoIssues` | `Repairs.cfg` | the docstring of the removal (`repairs.py`) says that the entry's issues are deleted; after a refused unload the old manager still runs, and its refresh or grace timer raises one again |

## Not modelled

* Command validation: pure checks of ranges and shapes of a requested value.
* Wire format: parsing and rendering of packets and bodies; `Coordinator` has the fields
  that matter to it, one per owner.
* Configuration flow: forms, schemas and the checks of certificates and logos. Its
  writes to the entry are in `RequestServer`.
* Entities: projections of the runtime, and callers of its two request methods, which
  are the callers of `Coordinator`.
* Diagnostics and trace: bounded, redacted, read-only views.
* Of modelled parts: current-sensor and stage uploads and read-only answers (weather,
  contractor, forecast), the conversion of forecasts and units, and the checks of source,
  host and serial that reject without a change of state.

## Plan

1. Composition of `RequestServer` with `Entry`: the stop of a server whose handlers
   still hold the runtime that the unload takes down.
2. Current-sensor and stage uploads in `Coordinator`; the conversion of a forecast as a
   function checked against its definition.
