------------------------------- MODULE Entry -------------------------------
(***************************************************************************)
(* The life of a config entry: set-up and unload (__init__.py), and the    *)
(* outdoor observation and the daily forecast that it feeds the runtime,   *)
(* register_outdoor_updates and class ForecastRefresh (sources.py), for an *)
(* entry with a weather entity and an override sensor.                     *)
(*                                                                         *)
(* Set-up and unload are one coroutine at a time, cut at the awaits that   *)
(* can suspend (pc); in between, source states change and fetches end.     *)
(* Every set-up makes its own server, runtime and forecast.  States of the *)
(* weather entity are numbered in the order in which they appear; a fetch  *)
(* is as good as the state it started from.                                *)
(*                                                                         *)
(* Home Assistant is external: it does one set-up or unload at a time,     *)
(* starts tasks eagerly, calls what is left of async_on_unload after an    *)
(* unload and after some failed set-ups, in reverse order, and may cancel  *)
(* a set-up.                                                               *)
(***************************************************************************)
EXTENDS Integers

CONSTANTS
  MaxSetUps,   \* set-ups begun
  MaxChanges,  \* source states after the first
  MaxTicks,    \* timer ticks that find nothing to do
  None

ASSUME ConstantsAssumption ==
  /\ MaxSetUps \in Nat \ {0} /\ MaxChanges \in Nat /\ MaxTicks \in Nat
  /\ None \notin Nat

\* What _own_cleanup is given, and what only async_on_unload gets: the repair
\* manager.
Owned     == {"state", "report", "forecast", "stop"}
Resources == Owned \cup {"repairs"}
SetUps    == 1..MaxSetUps

VARIABLES
  state,     \* ConfigEntryState: none, setup, loaded, failed, unloading, refused
  pc,        \* where the set-up or unload is; idle between them
  gen,       \* number of the last set-up
  server,    \* the set-ups whose listener is open
  onUnload,  \* entry._on_unload, <<set-up, resource>> each
  cleanups,  \* cleanups of async_setup_entry
  calls,     \* how often each resource was released
  \* ForecastRefresh of the last set-up
  fetch,     \* the source state a fetch has read, or None
  repeat, closed, listening,
  forecast,  \* NuveRuntime.forecast_payload: the source state it is from
  outdoor,   \* NuveRuntime.outdoor_source: none, sensor or weather
  \* the entities
  source,    \* the number of the weather entity's state
  weather,   \* unusable (unknown, unavailable), bad (no valid temperature), good
  sensor,    \* the override sensor: bad or good
  ticks,
  \* history, read by no guard
  noticed    \* the newest source state that schedule was called for

entry   == <<state, pc, gen, server, onUnload, cleanups, calls>>
refresh == <<fetch, repeat, closed, listening, forecast, noticed>>
world   == <<source, weather, sensor>>
vars    == <<entry, refresh, outdoor, world, ticks>>

usable == weather # "unusable"

Own(r) == <<gen, r>>

-----------------------------------------------------------------------------
(* register_outdoor_updates *)

WrongObservation(s, w) ==
  CASE s = "good" -> "sensor" [] s # "good" /\ w = "good" -> "weather"
    [] OTHER -> outdoor

\* update_outdoor_temperature: the first source with a valid temperature
Observation(s, w) ==
  CASE s = "good" -> "sensor" [] s # "good" /\ w = "good" -> "weather"
    [] OTHER -> "none"

Observing == Own("state") \in onUnload /\ calls[Own("state")] = 0

\* a state change or report of either entity
Observe(s, w) == outdoor' = IF Observing THEN Observation(s, w) ELSE outdoor

SensorChanges ==
  /\ \E s \in {"bad", "good"} : sensor' = s
  /\ Observe(sensor', weather)
  /\ UNCHANGED <<entry, refresh, source, weather, ticks>>

-----------------------------------------------------------------------------
(* ForecastRefresh *)

\* async_refresh up to its first await: an unusable source is shown at once.
StartRefresh(s, isUsable) ==
  IF isUsable THEN fetch' = s /\ UNCHANGED forecast
              ELSE fetch' = None /\ forecast' = s

WrongCoalesce == UNCHANGED repeat

Coalesce == repeat' = TRUE

\* schedule; with the lock free a new task runs to its first await.
Schedule(s, isUsable) ==
  /\ noticed' = s
  /\ IF fetch # None
     THEN Coalesce /\ UNCHANGED <<fetch, forecast>>
     ELSE repeat' = FALSE /\ StartRefresh(s, isUsable)

WrongMayEnd == TRUE

\* async_close cancels the task.
MayEnd == ~closed

\* _run_until_quiet goes round, or the task ends.
RunUntilQuiet ==
  IF repeat
  THEN /\ repeat' = FALSE
       /\ IF usable THEN fetch' = source /\ forecast' = fetch
                    ELSE fetch' = None /\ forecast' = source
  ELSE fetch' = None /\ forecast' = fetch /\ UNCHANGED repeat

\* A fetch is answered, fails or times out; all of them set the forecast.
FetchEnds ==
  /\ pc # "refresh" /\ fetch # None /\ MayEnd
  /\ RunUntilQuiet
  /\ UNCHANGED <<entry, closed, listening, noticed, outdoor, world,
                 ticks>>

WeatherChanges ==
  /\ source < MaxChanges /\ source' = source + 1
  /\ weather' \in {"unusable", "bad", "good"}
  /\ Observe(sensor, weather')
  /\ IF listening /\ ~closed
     THEN /\ Schedule(source', weather' # "unusable")
          /\ UNCHANGED <<closed, listening>>
     ELSE UNCHANGED refresh
  /\ UNCHANGED <<entry, sensor, ticks>>

WrongTimer == FALSE

\* async_track_time_interval
Timer == listening /\ ~closed

\* A tick that finds nothing new is one of the bounded ones.
Tick ==
  /\ Timer
  /\ IF forecast # source THEN UNCHANGED ticks
     ELSE ticks < MaxTicks /\ ticks' = ticks + 1
  /\ Schedule(source, usable)
  /\ UNCHANGED <<entry, closed, listening, outdoor, world>>

-----------------------------------------------------------------------------
(* Releasing *)

WrongOnce(p) == TRUE

\* release_once
Once(p) == calls[p] = 0

\* The callbacks of S, each of them a release_once except the repair manager's
Call(S) ==
  calls' = [p \in DOMAIN calls |-> IF p \in S /\ (p[2] = "repairs" \/ Once(p))
                                   THEN calls[p] + 1 ELSE calls[p]]

\* async_close is among S, unless it ran before.
Closes(S) == <<gen, "forecast">> \in S /\ ~closed

CloseForecast(S) ==
  /\ closed' = (closed \/ Closes(S))
  /\ listening' = (listening /\ ~Closes(S))
  /\ UNCHANGED <<fetch, repeat, forecast, noticed>>

\* The close waits for the task it cancelled.
Waits(S) == Closes(S) /\ fetch # None

\* _own_cleanup
Acquire(R) ==
  /\ onUnload' = onUnload \cup {Own(r) : r \in R}
  /\ cleanups' = cleanups \cup {Own(r) : r \in R \cap Owned}

-----------------------------------------------------------------------------
(* Set-up *)

SetUpBegins ==
  /\ state \in {"none", "failed"} /\ pc = "idle"
  /\ gen < MaxSetUps /\ gen' = gen + 1
  /\ state' = "setup" /\ pc' = "start" /\ cleanups' = {}
  /\ fetch' = None /\ repeat' = FALSE /\ closed' = FALSE /\ listening' = FALSE
  /\ forecast' = None /\ noticed' = source /\ outdoor' = "none"
  /\ UNCHANGED <<server, onUnload, calls, world, ticks>>

\* listen, the stop listener, and on to the platforms
Listen ==
  /\ listening' = TRUE /\ noticed' = source
  /\ pc' = "forward"

\* The listener is open; the outdoor updates are registered, the forecast made
\* and the first refresh begun.
Started ==
  /\ pc = "start"
  /\ server' = server \cup {gen}
  /\ StartRefresh(source, usable)
  /\ IF usable
     THEN pc' = "refresh" /\ Acquire(Owned \ {"stop"})
          /\ UNCHANGED <<listening, noticed>>
     ELSE Listen /\ Acquire(Owned)
  /\ outdoor' = Observation(sensor, weather)
  /\ UNCHANGED <<state, gen, calls, repeat, closed, world, ticks>>

\* The first refresh is no task: a change meanwhile is left to the next tick.
FirstRefreshed ==
  /\ pc = "refresh"
  /\ fetch' = None /\ forecast' = fetch
  /\ listening' = TRUE /\ noticed' = fetch
  /\ pc' = "forward"
  /\ Acquire({"stop"})
  /\ UNCHANGED <<state, gen, server, calls, repeat, closed, outdoor, world,
                 ticks>>

Loaded ==
  /\ pc = "forward" /\ pc' = "idle" /\ state' = "loaded"
  /\ Acquire({"repairs"})
  /\ UNCHANGED <<gen, server, calls, refresh, outdoor, world, ticks>>

WrongReleased(S) == S \ {Own("forecast")}

\* what _async_run_setup_cleanups releases
Released(S) == S

\* The listener does not open, the platforms raise, or the set-up is cancelled.
SetUpFails ==
  /\ pc \in {"start", "refresh", "forward"}
  /\ fetch' = IF pc = "refresh" THEN None ELSE fetch
  /\ LET S     == Released(cleanups)
         waits == Closes(S) /\ fetch' # None
         after == IF waits THEN S \cap {Own("report"), Own("state")} ELSE {}
     IN /\ Call(S \ after) /\ cleanups' = after
        /\ closed' = (closed \/ Closes(S))
        /\ listening' = (listening /\ ~Closes(S))
        /\ pc' = IF waits THEN "close" ELSE "stop"
  /\ UNCHANGED <<state, gen, server, onUnload, repeat, forecast, noticed,
                 outdoor, world, ticks>>

-----------------------------------------------------------------------------
(* Unload, and the ends of both *)

UnloadBegins ==
  /\ state = "loaded" /\ pc = "idle"
  /\ state' = "unloading" /\ pc' = "platforms"
  /\ UNCHANGED <<gen, server, onUnload, cleanups, calls, refresh, outdoor,
                 world, ticks>>

PlatformsRefuse ==
  /\ pc = "platforms" /\ pc' = "idle" /\ state' = "refused"
  /\ UNCHANGED <<gen, server, onUnload, cleanups, calls, refresh, outdoor,
                 world, ticks>>

PlatformsUnloaded ==
  /\ pc = "platforms" /\ pc' = "stop"
  /\ UNCHANGED <<state, gen, server, onUnload, cleanups, calls, refresh,
                 outdoor, world, ticks>>

\* async_stop ends the unload: Home Assistant calls what is in async_on_unload.
StoppedForUnload ==
  /\ pc = "stop" /\ state = "unloading"
  /\ server' = server \ {gen}
  /\ Call(onUnload) /\ onUnload' = {}
  /\ CloseForecast(onUnload)
  /\ IF Waits(onUnload) THEN pc' = "close" /\ UNCHANGED state
                        ELSE pc' = "idle" /\ state' = "none"
  /\ UNCHANGED <<gen, cleanups, outdoor, world, ticks>>

\* async_stop ends a failed set-up; whether the callbacks are called depends on
\* what was raised.
StoppedForFailure(processed) ==
  /\ pc = "stop" /\ state = "setup"
  /\ server' = server \ {gen}
  /\ pc' = "idle" /\ state' = "failed"
  /\ IF processed THEN Call(onUnload) /\ onUnload' = {} /\ CloseForecast(onUnload)
                  ELSE UNCHANGED <<calls, onUnload, refresh>>
  /\ UNCHANGED <<gen, cleanups, outdoor, world, ticks>>

\* The cancelled task is gone.
CloseEnds ==
  /\ pc = "close" /\ fetch' = None
  /\ IF state = "setup" THEN pc' = "stop" /\ UNCHANGED state
                        ELSE pc' = "idle" /\ state' = "none"
  /\ Call(cleanups) /\ cleanups' = {}
  /\ UNCHANGED <<gen, server, onUnload, repeat, closed, listening, forecast, noticed, outdoor, world, ticks>>

\* EVENT_HOMEASSISTANT_STOP: the listener is closed, the entry stays.
HomeAssistantStops ==
  /\ Own("stop") \in onUnload /\ calls[Own("stop")] = 0
  /\ gen \in server
  /\ server' = server \ {gen}
  /\ UNCHANGED <<state, pc, gen, onUnload, cleanups, calls, refresh, outdoor,
                 world, ticks>>

Init ==
  /\ state = "none" /\ pc = "idle" /\ gen = 0 /\ server = {}
  /\ onUnload = {} /\ cleanups = {}
  /\ calls = [p \in SetUps \X Resources |-> 0]
  /\ fetch = None /\ repeat = FALSE /\ closed = FALSE /\ listening = FALSE
  /\ forecast = None /\ source = 0 /\ noticed = 0
  /\ weather \in {"unusable", "bad", "good"} /\ sensor \in {"bad", "good"}
  /\ outdoor = "none"
  /\ ticks = 0

ForecastStep ==
  \/ FetchEnds \/ Tick
  \/ WeatherChanges \/ SensorChanges

SetUpStep == SetUpBegins \/ Started \/ FirstRefreshed \/ Loaded \/ SetUpFails

UnloadStep ==
  \/ UnloadBegins \/ PlatformsRefuse \/ PlatformsUnloaded
  \/ StoppedForUnload
  \/ \E processed \in BOOLEAN : StoppedForFailure(processed)
  \/ CloseEnds \/ HomeAssistantStops

Next == ForecastStep \/ SetUpStep \/ UnloadStep

Spec == Init /\ [][Next]_vars

\* Every await of a set-up or unload ends, a fetch within its time-out; the
\* interval timer ticks.
Fairness ==
  /\ WF_vars(FetchEnds) /\ WF_vars(Tick)
  /\ WF_vars(Started \/ SetUpFails) /\ WF_vars(FirstRefreshed)
  /\ WF_vars(Loaded) /\ WF_vars(PlatformsRefuse \/ PlatformsUnloaded)
  /\ WF_vars(StoppedForUnload) /\ WF_vars(CloseEnds)
  /\ WF_vars(\E processed \in BOOLEAN : StoppedForFailure(processed))

FairSpec == Spec /\ Fairness

-----------------------------------------------------------------------------
(* Properties *)

Pairs == SetUps \X Resources

\* Every variable keeps its type.
TypeOK ==
  /\ state \in {"none", "setup", "loaded", "failed", "unloading", "refused"}
  /\ pc \in {"idle", "start", "refresh", "forward", "platforms", "stop",
             "close"}
  /\ gen \in 0..MaxSetUps /\ server \subseteq SetUps
  /\ onUnload \subseteq Pairs /\ cleanups \subseteq Pairs
  /\ calls \in [Pairs -> Nat]
  /\ fetch \in Nat \cup {None} /\ forecast \in Nat \cup {None}
  /\ repeat \in BOOLEAN /\ closed \in BOOLEAN /\ listening \in BOOLEAN
  /\ outdoor \in {"none", "sensor", "weather"}
  /\ source \in Nat /\ weather \in {"unusable", "bad", "good"}
  /\ sensor \in {"bad", "good"} /\ ticks \in Nat /\ noticed \in Nat

\* Nothing is released twice, although a failed set-up releases by itself what
\* Home Assistant releases at once, at the next unload, or never.
ReleasedOnce == \A p \in Pairs : calls[p] <= 1

\* After a failed set-up or an unload nothing is left of it: no listener, no
\* callback unreleased, no fetch.
NothingIsLeft ==
  state \in {"none", "failed"} /\ pc = "idle" =>
    /\ server = {} /\ fetch = None /\ ~listening
    /\ \A p \in onUnload : calls[p] = 1

\* While the updates are registered, the observation is the best there is: a
\* source that goes away takes its value with it, also during a set-up.
OutdoorIsCurrent ==
  Observing =>
    /\ outdoor = "sensor" <=> sensor = "good"
    /\ outdoor = "weather" <=> sensor # "good" /\ weather = "good"

\* A source change that arrives during a fetch is fetched after it: what is
\* shown is from the newest state noticed, or a fetch that will be is under way.
NoChangeIsLost ==
  listening /\ ~closed =>
    \/ forecast # None /\ forecast >= noticed
    \/ fetch # None /\ (fetch >= noticed \/ repeat)

\* Once it is closed, the forecast sets nothing in the runtime.
NothingSetAfterClose ==
  [][closed /\ closed' => UNCHANGED forecast]_vars

\* What the source shows last comes to the runtime, however its changes meet the
\* fetches; a change that the first fetch of the set-up hides, by the timer.
SourceIsFetched ==
  <>[](state \in {"loaded", "refused"} => forecast = source)

=============================================================================
