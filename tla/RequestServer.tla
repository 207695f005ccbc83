--------------------------- MODULE RequestServer ---------------------------
(***************************************************************************)
(* Class NuveApiServer (server.py): how a request is let in, and how the   *)
(* first one of a pairing window teaches the entry its token; with the     *)
(* windows (commissioning.py), the flows that open them (config_flow.py)   *)
(* and the set-up and unload that replace the server (__init__.py).        *)
(*                                                                         *)
(* The token lives in the config entry, which outlives a server; a server  *)
(* checks the window in its own copy of the configuration, made when its   *)
(* set-up began.  Source, host and serial are checked before anything      *)
(* modelled here, and a request that fails them changes nothing: requests  *)
(* here have passed.  A step of a request is what it does up to the next   *)
(* await that can suspend: the token lock, a request slot, the handler.    *)
(*                                                                         *)
(* Home Assistant is external: it runs one set-up or unload of an entry at *)
(* a time, reloads after an options flow, tries a failed set-up again, and *)
(* leaves an entry alone whose unload was refused.  aiohttp is external:   *)
(* to clean up, it closes the socket, waits for the handlers for a while   *)
(* and cancels those that are left.                                        *)
(***************************************************************************)
EXTENDS Integers, FiniteSets

CONSTANTS
  Requests,     \* requests, each sent once
  Tokens,       \* well-formed bearer tokens
  MaxSlots,     \* MAX_CONCURRENT_REQUESTS
  MaxWindows,   \* pairing windows the user opens, the first included
  MaxSaves,     \* other options flows
  MaxFailures,  \* set-ups that fail, unloads that are refused
  None

ASSUME ConstantsAssumption ==
  /\ MaxSlots \in Nat \ {0} /\ MaxWindows \in Nat \ {0}
  /\ MaxSaves \in Nat /\ MaxFailures \in Nat
  /\ None \notin Tokens /\ None \notin 1..MaxWindows

Windows == 1..MaxWindows

VARIABLES
  entry,    \* token: CONF_TOKEN_SHA256 in entry.data; data, options:
            \* CONF_PAIRING_DEADLINE in either, the number of its window
  expired,  \* windows whose deadline has passed
  phase,    \* of the entry: down, starting, up, draining, stuck
  window,   \* CONF_PAIRING_DEADLINE of NuveApiServer._config
  paired,   \* NuveRuntime.paired
  req,      \* at: where the request is; token; first: it came unpaired
  reload,   \* a reload is scheduled
  opened, saves, failures,
  \* history, read by no guard
  late,     \* requests that were in flight when the user opened a window
  taught    \* the tokens learned since then

bounds == <<opened, saves, failures>>
vars   == <<entry, expired, phase, window, paired, req, reload, bounds, late,
            taught>>

-----------------------------------------------------------------------------
(* Requests *)

InFlight(r)  == req[r].at \in {"lock", "slot", "handler"}
Inside(r)    == req[r].at \in {"slot", "handler"}    \* _call_handler
HoldsLock(r) == Inside(r) /\ req[r].first
LockFree     == \A r \in Requests : ~HoldsLock(r)
SlotFree     == Cardinality({r \in Requests : req[r].at = "handler"}) < MaxSlots

Listening == phase \in {"up", "stuck"}
Running   == phase \in {"up", "stuck", "draining"}

WrongWindowOpen == window # None

\* pairing_window_is_open, of the server's configuration
WindowOpen == window # None /\ window \notin expired

\* _call_handler begins.
Enter == IF SlotFree THEN "handler" ELSE "slot"

\* The entry knows a token: the request must present it.
Compare(r, t) ==
  req' = [req EXCEPT ![r] =
            [at    |-> IF t = entry.token THEN Enter ELSE "done",
             token |-> t, first |-> FALSE]]

\* _security: a request while the entry knows a token
Arrive(r, t) ==
  /\ Listening /\ req[r].at = "idle" /\ entry.token # None
  /\ Compare(r, t)
  /\ UNCHANGED <<entry, expired, phase, window, paired, reload, bounds, late,
                 taught>>

\* while it knows none: the window is checked before the lock is asked for,
\* and nothing runs in between when the lock is free.
ArriveUnpaired(r, t) ==
  /\ Listening /\ req[r].at = "idle" /\ entry.token = None
  /\ req' = [req EXCEPT ![r] =
               [at    |-> IF ~WindowOpen THEN "done"
                          ELSE IF LockFree THEN Enter ELSE "lock",
                token |-> t, first |-> WindowOpen]]
  /\ UNCHANGED <<entry, expired, phase, window, paired, reload, bounds, late,
                 taught>>

WrongTakeLock(r) == req' = [req EXCEPT ![r].at = Enter]

\* What the entry knows is read again under the lock.
TakeLock(r) ==
  IF entry.token = None
  THEN req' = [req EXCEPT ![r].at = Enter]
  ELSE Compare(r, req[r].token)

LockTaken(r) ==
  /\ Running /\ req[r].at = "lock" /\ LockFree
  /\ TakeLock(r)
  /\ UNCHANGED <<entry, expired, phase, window, paired, reload, bounds, late,
                 taught>>

SlotGranted(r) ==
  /\ Running /\ req[r].at = "slot" /\ SlotFree
  /\ req' = [req EXCEPT ![r].at = "handler"]
  /\ UNCHANGED <<entry, expired, phase, window, paired, reload, bounds, late,
                 taught>>

WrongLearn(t) ==
  /\ entry' = [entry EXCEPT !.token = t, !.data = None]
  /\ window' = None /\ paired' = TRUE

\* The pairing: entry, configuration of the server and runtime in one step.
Learn(t) ==
  /\ entry' = [token |-> t, data |-> None, options |-> None]
  /\ window' = None /\ paired' = TRUE

\* A handler returns; of those of unpaired requests a success is learned from.
HandlerReturns(r, success) ==
  /\ Running /\ req[r].at = "handler"
  /\ req' = [req EXCEPT ![r].at = "done"]
  /\ IF req[r].first /\ success
     THEN Learn(req[r].token) /\ taught' = taught \cup {req[r].token}
     ELSE UNCHANGED <<entry, window, paired, taught>>
  /\ UNCHANGED <<expired, phase, reload, bounds, late>>

WrongTimed(r) == req[r].at = "slot"

\* asyncio.timeout runs over the wait for a slot and the handler.
Timed(r) == Inside(r)

\* The handler raises, is cancelled, or does not finish in time.
HandlerRaises(r) ==
  /\ Running /\ req[r].at = "handler"
  /\ req' = [req EXCEPT ![r].at = "done"]
  /\ UNCHANGED <<entry, expired, phase, window, paired, reload, bounds, late,
                 taught>>

TimesOut(r) ==
  /\ Running /\ Timed(r)
  /\ req' = [req EXCEPT ![r].at = "done"]
  /\ UNCHANGED <<entry, expired, phase, window, paired, reload, bounds, late,
                 taught>>

-----------------------------------------------------------------------------
(* Windows and flows *)

Expire(w) ==
  /\ w <= opened /\ w \notin expired
  /\ expired' = expired \cup {w}
  /\ UNCHANGED <<entry, phase, window, paired, req, reload, bounds, late,
                 taught>>

\* async_step_pairing and _save
Opened(w) == [token |-> None, data |-> None, options |-> w]

OpenWindow ==
  /\ opened < MaxWindows /\ opened' = opened + 1
  /\ entry' = Opened(opened')
  /\ reload' = TRUE
  /\ late' = late \cup {r \in Requests : InFlight(r)}
  /\ taught' = {}
  /\ UNCHANGED <<expired, phase, window, paired, req, saves, failures>>

\* The other steps of the options flow; the deadline is among the options kept.
SaveOptions ==
  /\ saves < MaxSaves /\ saves' = saves + 1
  /\ reload' = TRUE
  /\ UNCHANGED <<entry, expired, phase, window, paired, req, opened, failures,
                 late, taught>>

-----------------------------------------------------------------------------
(* Set-up and unload *)

WrongMerged == entry.data

\* {**entry.data, **entry.options}
Merged == IF entry.options # None THEN entry.options ELSE entry.data

\* async_setup_entry up to its first await
SetUpBegins ==
  /\ phase = "down" /\ phase' = "starting"
  /\ window' = Merged
  /\ paired' = (entry.token # None)
  /\ reload' = FALSE
  /\ UNCHANGED <<entry, expired, req, bounds, late, taught>>

\* The listener serves; the platforms are set up.
SetUpSucceeds ==
  /\ phase = "starting" /\ phase' = "up"
  /\ UNCHANGED <<entry, expired, window, paired, req, reload, bounds, late,
                 taught>>

\* OSError: ConfigEntryNotReady, tried again later
SetUpFails ==
  /\ failures < MaxFailures /\ failures' = failures + 1
  /\ phase = "starting" /\ phase' = "down"
  /\ UNCHANGED <<entry, expired, window, paired, req, reload, opened, saves,
                 late, taught>>

\* async_unload_entry: the platforms first
UnloadRefused ==
  /\ failures < MaxFailures /\ failures' = failures + 1
  /\ reload /\ phase = "up" /\ phase' = "stuck"
  /\ UNCHANGED <<entry, expired, window, paired, req, reload, opened, saves,
                 late, taught>>

\* async_stop
StopBegins ==
  /\ reload /\ phase = "up" /\ phase' = "draining"
  /\ UNCHANGED <<entry, expired, window, paired, req, reload, bounds, late,
                 taught>>

\* aiohttp gives up on the handlers that are left.
Cancelled(r) ==
  /\ phase = "draining" /\ InFlight(r)
  /\ req' = [req EXCEPT ![r].at = "done"]
  /\ UNCHANGED <<entry, expired, phase, window, paired, reload, bounds, late,
                 taught>>

StopEnds ==
  /\ phase = "draining" /\ \A r \in Requests : ~InFlight(r)
  /\ phase' = "down"
  /\ UNCHANGED <<entry, expired, window, paired, req, reload, bounds, late,
                 taught>>

\* async_step_commissioning of the first flow creates the entry with a window.
Init ==
  /\ entry = [token |-> None, data |-> 1, options |-> None]
  /\ expired = {} /\ phase = "down" /\ window = None /\ paired = FALSE
  /\ req = [r \in Requests |-> [at |-> "idle", token |-> None, first |-> FALSE]]
  /\ reload = FALSE
  /\ opened = 1 /\ saves = 0 /\ failures = 0
  /\ late = {} /\ taught = {}

RequestStep(r) ==
  \/ \E t \in Tokens : Arrive(r, t) \/ ArriveUnpaired(r, t)
  \/ LockTaken(r) \/ SlotGranted(r)
  \/ \E success \in BOOLEAN : HandlerReturns(r, success)
  \/ HandlerRaises(r) \/ TimesOut(r) \/ Cancelled(r)

Next ==
  \/ \E r \in Requests : RequestStep(r)
  \/ \E w \in Windows : Expire(w)
  \/ OpenWindow \/ SaveOptions
  \/ SetUpBegins \/ SetUpSucceeds \/ SetUpFails
  \/ UnloadRefused \/ StopBegins \/ StopEnds

Spec == Init /\ [][Next]_vars

\* Timers run out and a free lock is passed on; whether a handler ever returns
\* is not known.  A reload proceeds, and its set-up either works or fails.
Fairness ==
  /\ \A r \in Requests :
       WF_vars(TimesOut(r)) /\ WF_vars(LockTaken(r)) /\ WF_vars(Cancelled(r))
  /\ WF_vars(StopBegins \/ UnloadRefused) /\ WF_vars(StopEnds)
  /\ WF_vars(SetUpBegins) /\ WF_vars(SetUpSucceeds \/ SetUpFails)

FairSpec == Spec /\ Fairness

-----------------------------------------------------------------------------
(* Properties *)

Places == {"idle", "lock", "slot", "handler", "done"}

\* Every variable keeps its type.
TypeOK ==
  /\ entry \in [token : Tokens \cup {None}, data : Windows \cup {None},
                options : Windows \cup {None}]
  /\ expired \subseteq Windows
  /\ phase \in {"down", "starting", "up", "draining", "stuck"}
  /\ window \in Windows \cup {None} /\ paired \in BOOLEAN
  /\ req \in [Requests -> [at : Places, token : Tokens \cup {None},
                           first : BOOLEAN]]
  /\ reload \in BOOLEAN
  /\ opened \in Windows /\ saves \in 0..MaxSaves /\ failures \in 0..MaxFailures
  /\ late \subseteq Requests /\ taught \subseteq Tokens

\* A window pairs one thermostat: whatever requests wait for the lock when the
\* first of them succeeds, and whichever server they came to.
OneTokenPerWindow == taught = {} \/ taught = {entry.token}

\* A token ends the window it came through, in the entry and in the server; a
\* deadline that stayed would open again when the token is forgotten.
PairingSpendsWindow ==
  entry.token # None =>
    /\ entry.data = None /\ entry.options = None
    /\ Running => window = None /\ paired

\* A request inside a handler has the entry's token, or holds the lock while
\* there is none; except for one the user overtook by opening a window.
HandlersKnowTheToken ==
  \A r \in Requests \ late :
    Inside(r) => IF entry.token = None THEN req[r].first
                                       ELSE req[r].token = entry.token

\* Pairing keeps its promise: a token is learned from one request that came
\* through a window which had neither expired nor taught, and from no other.
PlaceOf(q) ==
  CASE q.at = "idle" -> "away" [] q.at = "done" -> "gone"
    [] q.at = "lock" -> "waiting"
    [] OTHER -> IF q.first THEN "guest" ELSE "member"
Placed   == [r \in Requests |-> PlaceOf(req[r])]
Offered  == [r \in Requests |-> req[r].token]
Pairable == ({entry.data, entry.options, window} \ {None}) \ expired
Pairing  ==
  INSTANCE PairingContract WITH
    token <- entry.token, open <- Pairable, place <- Placed, offer <- Offered
PairingSpec == Pairing!Spec

\* Every request is answered, however long its handler hangs: whether it waits
\* for the lock behind others that hang, or for a slot.
EveryRequestEnds ==
  \A r \in Requests : InFlight(r) ~> ~InFlight(r)

\* A window the user opens is the one a server goes by, also when it is opened
\* in the middle of a set-up or after a flow that has not reloaded yet.
WindowTakesEffect ==
  \A w \in Windows :
    (entry.options = w) ~> \/ Listening /\ window = w
                           \/ w \in expired \/ entry.options # w
                           \/ phase = "stuck"

=============================================================================
