---------------------------- MODULE EntryProofs ----------------------------
(***************************************************************************)
(* What is proved of Entry, for any number of set-ups, source states and   *)
(* ticks: types; that nothing is released twice and nothing is left of a   *)
(* set-up that failed or was unloaded; that the observation is the best    *)
(* there is; that no source change is lost while the forecast listens, and *)
(* that a closed forecast sets nothing.                                    *)
(*                                                                         *)
(* PhaseInv says, for each await of set-up and unload, what the entry      *)
(* holds there: everything it acquired and none of it released (Holding),  *)
(* or nothing (Ended), or, while a close waits, what is still to release.  *)
(***************************************************************************)
EXTENDS Entry, TLAPS

Numbered ==
  /\ gen = 0 => state = "none"
  /\ \A p \in onUnload : p[1] <= gen
  /\ \A p \in Pairs : p[1] > gen => calls[p] = 0
  /\ ReleasedOnce
  /\ server \subseteq {gen}
  /\ cleanups \subseteq {<<gen, r>> : r \in Owned}

\* The set-up has R and released none of it, earlier ones left nothing.
Holding(R) ==
  /\ ~closed
  /\ \A r \in Resources : calls[<<gen, r>>] = 0
  /\ \A p \in onUnload : p[1] < gen => calls[p] = 1 /\ p[2] # "repairs"
  /\ \A r \in Resources : <<gen, r>> \in onUnload <=> r \in R
  /\ cleanups = {<<gen, r>> : r \in R \cap Owned}

Ended ==
  /\ fetch = None /\ ~listening
  /\ \A p \in onUnload : calls[p] = 1 /\ p[2] # "repairs"

PhaseInv ==
  /\ state \in {"none", "failed"} => pc = "idle" /\ server = {} /\ Ended
  /\ state = "setup" => pc \in {"start", "refresh", "forward", "close", "stop"}
  /\ state \in {"loaded", "refused"} =>
       pc = "idle" /\ Holding(Resources) /\ listening
  /\ state = "unloading" => pc \in {"platforms", "stop", "close"}
  /\ pc \in {"start", "refresh", "forward"} => state = "setup"
  /\ pc = "start" => server = {} /\ Holding({}) /\ fetch = None /\ ~listening
  /\ pc = "refresh" => Holding(Owned \ {"stop"}) /\ fetch # None /\ ~listening
  /\ pc = "forward" => Holding(Owned) /\ listening
  /\ pc = "platforms" =>
       state = "unloading" /\ Holding(Resources) /\ listening
  /\ pc = "stop" /\ state = "setup" => Ended
  /\ pc = "stop" /\ state = "unloading" => Holding(Resources) /\ listening
  /\ pc = "close" => closed /\ ~listening
  /\ pc = "close" /\ state = "setup" =>
       \A p \in onUnload : p[2] # "repairs" /\ (calls[p] = 1 \/ p \in cleanups)
  /\ pc = "close" /\ state = "unloading" => server = {} /\ onUnload = {}

\* What is under way or shown is as new as what was noticed.
Newer(x) == x # None /\ x >= noticed
UpToDate == IF fetch # None THEN Newer(fetch) \/ repeat ELSE Newer(forecast)

ForecastInv ==
  /\ noticed <= source /\ (fetch # None => fetch <= source)
  /\ listening /\ ~closed => UpToDate

Inv == TypeOK /\ Numbered /\ PhaseInv /\ ForecastInv /\ OutdoorIsCurrent

-----------------------------------------------------------------------------
(* The helpers *)

\* Whatever was released before, a callback of S is released once afterwards,
\* if the repair manager, which has no guard of its own, was not.
LEMMA CallOnce ==
  ASSUME calls \in [Pairs -> Nat], ReleasedOnce, NEW S, Call(S),
         \A p \in S : p[2] = "repairs" => calls[p] = 0
  PROVE  /\ calls' \in [Pairs -> Nat] /\ ReleasedOnce'
         /\ \A p \in Pairs : calls'[p] = IF p \in S THEN 1 ELSE calls[p]
<1>1. \A p \in Pairs : calls[p] \in {0, 1}
  BY DEF ReleasedOnce
<1>2. \A p \in Pairs : calls'[p] = IF p \in S /\ (p[2] = "repairs" \/ Once(p))
                                   THEN calls[p] + 1 ELSE calls[p]
  BY DEF Call
<1>3. \A p \in Pairs : calls'[p] = IF p \in S THEN 1 ELSE calls[p]
  BY <1>1, <1>2 DEF Once
<1>4. calls' \in [Pairs -> Nat]
  BY <1>1 DEF Call
<1> QED  BY <1>1, <1>3, <1>4 DEF ReleasedOnce

\* A set-up that is under way has a number; what it may acquire is a pair.
LEMMA OwnPairs ==
  ASSUME TypeOK, Numbered, state # "none"
  PROVE  gen \in SetUps /\ \A r \in Resources : <<gen, r>> \in Pairs
  BY ConstantsAssumption DEF TypeOK, Numbered, SetUps, Pairs

\* A step that leaves what the entry holds alone keeps the numbers.
LEMMA NumberedFrame ==
  ASSUME Numbered, UNCHANGED <<gen, onUnload, calls>>,
         gen = 0 => state' = "none",
         server' \subseteq server \cup {gen},
         cleanups' \subseteq cleanups
  PROVE  Numbered'
  BY DEF Numbered, ReleasedOnce

-----------------------------------------------------------------------------
(* The observation and the forecast *)

LEMMA InvInit == Init => Inv
<1> SUFFICES ASSUME Init PROVE Inv
  OBVIOUS
<1>1. TypeOK
  <2>1. gen \in 0..MaxSetUps /\ calls \in [Pairs -> Nat]
    BY ConstantsAssumption DEF Init, Pairs
  <2> QED  BY <2>1 DEF Init, TypeOK
<1>2. Numbered
  BY DEF Init, Numbered, ReleasedOnce, Pairs
<1>3. PhaseInv /\ ForecastInv /\ OutdoorIsCurrent
  BY DEF Init, PhaseInv, Ended, ForecastInv, OutdoorIsCurrent, Observing, Own
<1> QED  BY <1>1, <1>2, <1>3 DEF Inv

\* The world and the fetches move nothing that the entry holds.
LEMMA PhaseFrame ==
  ASSUME Inv, UNCHANGED <<entry, closed, listening>>,
         fetch' # fetch => listening
  PROVE  Numbered' /\ PhaseInv'
<1>1. Numbered'
  BY NumberedFrame DEF Inv, Numbered, entry
<1>2. PhaseInv'
  BY DEF Inv, PhaseInv, Holding, Ended, entry
<1> QED  BY <1>1, <1>2

LEMMA ObservationRight ==
  ASSUME NEW s \in {"bad", "good"}, NEW w \in {"unusable", "bad", "good"}
  PROVE  /\ Observation(s, w) \in {"none", "sensor", "weather"}
         /\ Observation(s, w) = "sensor" <=> s = "good"
         /\ Observation(s, w) = "weather" <=> s # "good" /\ w = "good"
  BY DEF Observation

LEMMA InvSensor ==
  ASSUME Inv, SensorChanges
  PROVE  Inv'
<1>1. /\ sensor' \in {"bad", "good"} /\ weather \in {"unusable", "bad", "good"}
      /\ Observe(sensor', weather) /\ UNCHANGED <<entry, refresh, source, weather, ticks>>
  BY DEF SensorChanges, Inv, TypeOK
<1>2. OutdoorIsCurrent' /\ outdoor' \in {"none", "sensor", "weather"}
  BY <1>1, ObservationRight DEF Observe, OutdoorIsCurrent, Observing, Own, entry, Inv, TypeOK
<1>3. TypeOK'
  BY <1>1, <1>2 DEF Inv, TypeOK, entry, refresh
<1>4. ForecastInv'
  BY <1>1 DEF Inv, ForecastInv, UpToDate, Newer, refresh
<1> QED  BY <1>1, <1>2, <1>3, <1>4, PhaseFrame DEF Inv, refresh

\* What schedule does, whether or not the source is usable.
Scheduled(s) ==
  /\ noticed' = s
  /\ fetch # None => repeat' = TRUE /\ UNCHANGED <<fetch, forecast>>
  /\ fetch = None => /\ repeat' = FALSE
                     /\ \/ fetch' = s /\ UNCHANGED forecast
                        \/ fetch' = None /\ forecast' = s

\* What is scheduled is fetched now or after the fetch under way.
LEMMA ScheduledIsFetched ==
  ASSUME Inv, NEW s \in Nat, s >= source, Scheduled(s)
  PROVE  /\ UpToDate' /\ noticed' = s /\ (fetch' # None => fetch' <= s)
         /\ fetch' \in Nat \cup {None} /\ forecast' \in Nat \cup {None}
         /\ repeat' \in BOOLEAN
<1>1. /\ fetch \in Nat \cup {None} /\ forecast \in Nat \cup {None} /\ None \notin Nat
      /\ source \in Nat /\ (fetch # None => fetch <= source)
  BY ConstantsAssumption DEF Inv, TypeOK, ForecastInv
<1>2. /\ noticed' = s /\ (fetch' # None => fetch' <= s)
      /\ fetch' \in Nat \cup {None} /\ forecast' \in Nat \cup {None}
  BY <1>1 DEF Scheduled
<1>3. repeat' \in BOOLEAN
  BY DEF Scheduled
<1>4. CASE fetch # None
  <2>1. repeat' /\ fetch' # None
    BY <1>4 DEF Scheduled
  <2>2. UpToDate'
    BY <2>1, Zenon DEF UpToDate
  <2> QED  BY <1>2, <1>3, <2>2
<1>5. CASE fetch = None
  <2>1. fetch' # None => Newer(fetch)'
    BY <1>1, <1>5 DEF Scheduled, Newer
  <2>2. fetch' = None => Newer(forecast)'
    BY <1>1, <1>5 DEF Scheduled, Newer
  <2> QED  BY <1>2, <1>3, <2>1, <2>2 DEF UpToDate
<1> QED  BY <1>2, <1>3, <1>4, <1>5

LEMMA InvWeather ==
  ASSUME Inv, WeatherChanges
  PROVE  Inv'
<1>1. /\ source' \in Nat /\ source' = source + 1
      /\ sensor \in {"bad", "good"} /\ weather' \in {"unusable", "bad", "good"}
      /\ Observe(sensor, weather') /\ UNCHANGED <<entry, sensor, ticks>>
  BY DEF WeatherChanges, Inv, TypeOK
<1>2. OutdoorIsCurrent' /\ outdoor' \in {"none", "sensor", "weather"}
  BY <1>1, ObservationRight DEF Observe, OutdoorIsCurrent, Observing, Own, entry, Inv, TypeOK
<1>3. /\ ForecastInv' /\ UNCHANGED <<closed, listening>>
      /\ fetch' # fetch => listening
      /\ fetch' \in Nat \cup {None} /\ forecast' \in Nat \cup {None}
      /\ repeat' \in BOOLEAN /\ noticed' \in Nat
  <2>1. CASE listening /\ ~closed
    <3>1. Scheduled(source') /\ UNCHANGED <<closed, listening>>
      BY <2>1 DEF WeatherChanges, Schedule, Coalesce, StartRefresh, Scheduled
    <3>2. source' >= source
      BY <1>1 DEF Inv, TypeOK
    <3> QED  BY <1>1, <2>1, <3>1, <3>2, ScheduledIsFetched DEF ForecastInv, UpToDate, Newer
  <2>2. CASE ~(listening /\ ~closed)
    <3>1. UNCHANGED refresh
      BY <2>2 DEF WeatherChanges
    <3> QED  BY <1>1, <2>2, <3>1 DEF ForecastInv, refresh, Inv, TypeOK
  <2> QED  BY <2>1, <2>2
<1>4. TypeOK'
  BY <1>1, <1>2, <1>3 DEF Inv, TypeOK, entry
<1> QED  BY <1>1, <1>2, <1>3, <1>4, PhaseFrame DEF Inv

LEMMA InvTick ==
  ASSUME Inv, Tick
  PROVE  Inv'
<1>1. /\ listening /\ ~closed /\ Scheduled(source) /\ source \in Nat
      /\ UNCHANGED <<entry, closed, listening, outdoor, world>>
      /\ ticks' \in Nat
  BY DEF Tick, Timer, Schedule, Coalesce, StartRefresh, Scheduled, Inv, TypeOK
<1>2. /\ ForecastInv' /\ noticed' \in Nat /\ repeat' \in BOOLEAN
      /\ fetch' \in Nat \cup {None} /\ forecast' \in Nat \cup {None}
  BY <1>1, ScheduledIsFetched DEF ForecastInv, world
<1>3. TypeOK'
  BY <1>1, <1>2 DEF Inv, TypeOK, entry, world
<1>4. OutdoorIsCurrent'
  BY <1>1 DEF Inv, OutdoorIsCurrent, Observing, Own, entry, world
<1> QED  BY <1>1, <1>2, <1>3, <1>4, PhaseFrame DEF Inv

LEMMA InvFetch ==
  ASSUME Inv, FetchEnds
  PROVE  Inv'
<1>1. /\ pc # "refresh" /\ fetch # None /\ ~closed /\ RunUntilQuiet
      /\ UNCHANGED <<entry, closed, listening, noticed, outdoor, world, ticks>>
  BY DEF FetchEnds, MayEnd
<1>2. listening
  BY <1>1 DEF Inv, PhaseInv, Ended, TypeOK
<1>3. /\ ForecastInv' /\ repeat' \in BOOLEAN
      /\ fetch' \in Nat \cup {None} /\ forecast' \in Nat \cup {None}
  <2>1. /\ fetch \in Nat /\ source \in Nat /\ noticed \in Nat /\ None \notin Nat
        /\ fetch <= source /\ noticed <= source
        /\ UNCHANGED <<source, noticed, listening, closed>>
    BY <1>1, ConstantsAssumption DEF ForecastInv, Inv, TypeOK, world
  <2>2. /\ fetch' # None => fetch' = source
        /\ fetch' = None => forecast' \in {source, fetch}
        /\ fetch' \in Nat \cup {None} /\ forecast' \in Nat \cup {None}
    BY <1>1, <2>1 DEF RunUntilQuiet
  <2>3. repeat \in BOOLEAN /\ repeat' \in BOOLEAN
    BY <1>1 DEF RunUntilQuiet, Inv, TypeOK
  <2>4. CASE repeat
    <3>1. fetch' = None => forecast' = source
      BY <1>1, <2>1, <2>4 DEF RunUntilQuiet
    <3>2. /\ fetch' # None => Newer(fetch)'
          /\ fetch' = None => Newer(forecast)'
      BY <2>1, <2>2, <3>1 DEF Newer
    <3> QED  BY <2>1, <2>2, <2>3, <3>2 DEF ForecastInv, UpToDate
  <2>5. CASE ~repeat
    <3>1. Newer(fetch)
      BY <1>1, <1>2, <2>5 DEF Inv, ForecastInv, UpToDate
    <3>2. fetch' = None /\ forecast' = fetch
      BY <1>1, <2>5 DEF RunUntilQuiet
    <3>3. Newer(forecast)'
      BY <2>1, <3>1, <3>2 DEF Newer
    <3> QED  BY <2>1, <2>2, <2>3, <3>2, <3>3 DEF ForecastInv, UpToDate
  <2> QED  BY <2>4, <2>5
<1>4. TypeOK'
  BY <1>1, <1>3 DEF Inv, TypeOK, entry, world
<1>5. OutdoorIsCurrent'
  BY <1>1 DEF Inv, OutdoorIsCurrent, Observing, Own, entry, world
<1> QED  BY <1>1, <1>2, <1>3, <1>4, <1>5, PhaseFrame DEF Inv

-----------------------------------------------------------------------------
(* Set-up *)

LEMMA InvBegins ==
  ASSUME Inv, SetUpBegins
  PROVE  Inv'
<1>1. /\ gen \in Nat /\ gen' = gen + 1 /\ gen' \in 1..MaxSetUps
      /\ state' = "setup" /\ pc' = "start" /\ cleanups' = {}
      /\ fetch' = None /\ repeat' = FALSE /\ closed' = FALSE /\ listening' = FALSE
      /\ forecast' = None /\ noticed' = source /\ outdoor' = "none"
      /\ UNCHANGED <<server, onUnload, calls, world, ticks>>
      /\ server = {} /\ Ended
  <2>1. gen \in 0..MaxSetUps /\ MaxSetUps \in Nat
    BY ConstantsAssumption DEF Inv, TypeOK
  <2>2. gen < MaxSetUps /\ state \in {"none", "failed"}
    BY DEF SetUpBegins
  <2>3. server = {} /\ Ended
    BY <2>2 DEF Inv, PhaseInv
  <2> QED  BY <2>1, <2>2, <2>3 DEF SetUpBegins
<1>2. TypeOK'
  <2>1. gen' \in 0..MaxSetUps
    BY <1>1, ConstantsAssumption
  <2>2. repeat' \in BOOLEAN /\ closed' \in BOOLEAN /\ listening' \in BOOLEAN
    BY <1>1
  <2> QED  BY <1>1, <2>1, <2>2 DEF Inv, TypeOK, world
<1>3. Numbered'
  BY <1>1 DEF Inv, Numbered, ReleasedOnce, TypeOK, Pairs, SetUps
<1>4. \A r \in Resources : <<gen', r>> \in Pairs /\ <<gen', r>> \notin onUnload
  BY <1>1 DEF Inv, Numbered, Pairs, SetUps
<1>5. Holding({})'
  BY <1>1, <1>4 DEF Holding, Ended, Inv, Numbered
<1>6. PhaseInv'
  BY <1>1, <1>5 DEF PhaseInv
<1>7. ForecastInv' /\ OutdoorIsCurrent'
  BY <1>1, <1>4 DEF ForecastInv, OutdoorIsCurrent, Observing, Own, world, Inv, TypeOK,
                    Resources, Owned
<1> QED  BY <1>2, <1>3, <1>6, <1>7 DEF Inv

\* Whatever is registered belongs to a set-up that began.
Registered ==
  /\ onUnload \subseteq Pairs /\ cleanups \subseteq Pairs
  /\ \A p \in onUnload : p[1] <= gen
  /\ cleanups \subseteq {<<gen, r>> : r \in Owned}

\* What a set-up holds after it acquired more.
LEMMA Acquired ==
  ASSUME TypeOK, Numbered, state # "none", NEW R \in SUBSET Resources,
         NEW Q \in SUBSET Resources, Holding(Q), Acquire(R),
         UNCHANGED <<gen, calls, closed>>
  PROVE  Holding(Q \cup R)' /\ Registered'
<1>1. /\ onUnload' = onUnload \cup {<<gen, r>> : r \in R}
      /\ cleanups' = cleanups \cup {<<gen, r>> : r \in R \cap Owned}
      /\ gen \in Nat
  BY DEF Acquire, Own, TypeOK
<1>2. \A p \in {<<gen, r>> : r \in R} : p \in Pairs /\ p[1] = gen
  BY OwnPairs
<1>3. Registered'
  BY <1>1, <1>2 DEF TypeOK, Numbered, Registered
<1>4. \A p \in onUnload' : p[1] < gen => calls[p] = 1 /\ p[2] # "repairs"
  BY <1>1, <1>2 DEF Holding
<1>5. \A r \in Resources : <<gen, r>> \in onUnload' <=> r \in Q \cup R
  BY <1>1 DEF Holding
<1>6. cleanups' = {<<gen, r>> : r \in (Q \cup R) \cap Owned}
  BY <1>1 DEF Holding
<1> QED  BY <1>3, <1>4, <1>5, <1>6 DEF Holding

LEMMA InvStarted ==
  ASSUME Inv, Started
  PROVE  Inv'
<1>1. /\ pc = "start" /\ state = "setup" /\ server' = server \cup {gen} /\ server = {}
      /\ StartRefresh(source, usable) /\ outdoor' = Observation(sensor, weather)
      /\ UNCHANGED <<state, gen, calls, repeat, closed, world, ticks>>
      /\ Holding({}) /\ ~listening /\ ~closed
      /\ source \in Nat /\ None \notin Nat
  BY ConstantsAssumption DEF Started, Inv, PhaseInv, TypeOK, Holding
<1>2. PICK R \in {Owned \ {"stop"}, Owned} :
        /\ Acquire(R)
        /\ IF usable THEN pc' = "refresh" /\ R = Owned \ {"stop"}
                          /\ UNCHANGED <<listening, noticed>>
                     ELSE Listen /\ R = Owned
  <2>1. CASE usable
    BY <2>1 DEF Started
  <2>2. CASE ~usable
    BY <2>2 DEF Started
  <2> QED  BY <2>1, <2>2
<1>3. R \in SUBSET Resources /\ {} \cup R = R
  BY DEF Resources
<1>4. Holding(R)' /\ Registered'
  <2>1. Holding({} \cup R)' /\ Registered'
    BY <1>1, <1>2, <1>3, Acquired DEF Inv
  <2> QED  BY <1>3, <2>1
<1>5. gen \in SetUps
  BY <1>1, OwnPairs DEF Inv
<1>6. TypeOK'
  BY <1>1, <1>2, <1>4, <1>5, ObservationRight
  DEF Registered, Inv, TypeOK, StartRefresh, Listen, world
<1>7. Numbered'
  BY <1>1, <1>4 DEF Inv, Numbered, ReleasedOnce, Registered
<1>8. PhaseInv'
  BY <1>1, <1>2, <1>4 DEF PhaseInv, StartRefresh, Listen
<1>9. ForecastInv'
  <2>1. /\ noticed <= source /\ (fetch' # None => fetch' <= source)
        /\ source' = source /\ noticed' <= source
    BY <1>1, <1>2 DEF ForecastInv, Inv, StartRefresh, Listen, world, TypeOK
  <2>2. listening' => fetch' = None /\ Newer(forecast)'
    <3>1. CASE usable
      BY <1>1, <1>2, <3>1
    <3>2. CASE ~usable
      BY <1>1, <1>2, <3>2 DEF StartRefresh, Listen, Newer
    <3> QED  BY <3>1, <3>2
  <2> QED  BY <2>1, <2>2 DEF ForecastInv, UpToDate
<1>10. OutdoorIsCurrent'
  BY <1>1, ObservationRight DEF OutdoorIsCurrent, Inv, TypeOK, world
<1> QED  BY <1>6, <1>7, <1>8, <1>9, <1>10 DEF Inv

\* A step that registers no outdoor update, releases none and moves no source
\* leaves the observation right.
LEMMA OutdoorFrame ==
  ASSUME OutdoorIsCurrent, Observing' => Observing, UNCHANGED <<outdoor, world>>
  PROVE  OutdoorIsCurrent'
  BY DEF OutdoorIsCurrent, world

LEMMA InvFirstRefreshed ==
  ASSUME Inv, FirstRefreshed
  PROVE  Inv'
<1>1. /\ pc = "refresh" /\ state = "setup" /\ pc' = "forward"
      /\ fetch' = None /\ forecast' = fetch /\ listening' = TRUE /\ noticed' = fetch
      /\ Acquire({"stop"}) /\ Holding(Owned \ {"stop"}) /\ ~closed
      /\ UNCHANGED <<state, gen, server, calls, repeat, closed, outdoor, world, ticks>>
      /\ fetch \in Nat /\ None \notin Nat
  BY ConstantsAssumption DEF FirstRefreshed, Inv, PhaseInv, TypeOK, Holding
<1>2. {"stop"} \in SUBSET Resources /\ (Owned \ {"stop"}) \in SUBSET Resources
      /\ (Owned \ {"stop"}) \cup {"stop"} = Owned
  BY DEF Resources, Owned
<1>3. Holding(Owned)' /\ Registered'
  <2>1. Holding((Owned \ {"stop"}) \cup {"stop"})' /\ Registered'
    BY <1>1, <1>2, Acquired DEF Inv
  <2> QED  BY <1>2, <2>1
<1>4. TypeOK'
  BY <1>1, <1>3 DEF Inv, TypeOK, Registered, world
<1>5. Numbered'
  BY <1>1, <1>3 DEF Inv, Numbered, ReleasedOnce, Registered
<1>6. PhaseInv'
  BY <1>1, <1>3 DEF PhaseInv
<1>7. ForecastInv'
  BY <1>1 DEF ForecastInv, UpToDate, Newer, Inv, world, TypeOK
<1>8. Observing' => Observing
  BY <1>1 DEF Observing, Acquire, Own
<1> QED  BY <1>1, <1>4, <1>5, <1>6, <1>7, <1>8, OutdoorFrame DEF Inv

LEMMA InvLoaded ==
  ASSUME Inv, Loaded
  PROVE  Inv'
<1>1. /\ pc = "forward" /\ state = "setup" /\ pc' = "idle" /\ state' = "loaded"
      /\ Acquire({"repairs"}) /\ Holding(Owned) /\ listening
      /\ UNCHANGED <<gen, server, calls, refresh, outdoor, world, ticks>>
  BY DEF Loaded, Inv, PhaseInv
<1>2. {"repairs"} \in SUBSET Resources /\ Owned \in SUBSET Resources
      /\ Owned \cup {"repairs"} = Resources
  BY DEF Resources, Owned
<1>3. Holding(Resources)' /\ Registered'
  <2>1. Holding(Owned \cup {"repairs"})' /\ Registered'
    BY <1>1, <1>2, Acquired DEF Inv, refresh
  <2> QED  BY <1>2, <2>1
<1>4. TypeOK'
  BY <1>1, <1>3 DEF Inv, TypeOK, Registered, world, refresh
<1>5. Numbered'
  BY <1>1, <1>3 DEF Inv, Numbered, ReleasedOnce, Registered
<1>6. PhaseInv'
  BY <1>1, <1>3 DEF PhaseInv, refresh
<1>7. ForecastInv'
  BY <1>1 DEF ForecastInv, UpToDate, Newer, Inv, world, refresh
<1>8. Observing' => Observing
  BY <1>1 DEF Observing, Acquire, Own
<1> QED  BY <1>1, <1>4, <1>5, <1>6, <1>7, <1>8, OutdoorFrame DEF Inv

-----------------------------------------------------------------------------
(* The ends *)

LEMMA InvFails ==
  ASSUME Inv, SetUpFails
  PROVE  Inv'
<1> DEFINE waits == Closes(cleanups) /\ fetch' # None
           after == IF waits THEN cleanups \cap {Own("report"), Own("state")} ELSE {}
<1>1. /\ pc \in {"start", "refresh", "forward"} /\ state = "setup"
      /\ fetch' = IF pc = "refresh" THEN None ELSE fetch
      /\ Call(cleanups \ after) /\ cleanups' = after
      /\ closed' = (closed \/ Closes(cleanups))
      /\ listening' = (listening /\ ~Closes(cleanups))
      /\ pc' = IF waits THEN "close" ELSE "stop"
      /\ UNCHANGED <<state, gen, server, onUnload, repeat, forecast, noticed,
                     outdoor, world, ticks>>
  BY DEF SetUpFails, Released, Inv, PhaseInv
<1>2. PICK R \in SUBSET Owned :
        /\ Holding(R) /\ (pc = "start" => R = {} /\ fetch = None /\ ~listening)
        /\ pc # "start" => "forecast" \in R
  <2>1. {} \in SUBSET Owned /\ Owned \ {"stop"} \in SUBSET Owned /\ Owned \in SUBSET Owned
        /\ "forecast" \in Owned \ {"stop"}
    BY DEF Owned
  <2> QED  BY <1>1, <2>1 DEF Inv, PhaseInv
<1>3. /\ Closes(cleanups) <=> pc # "start"
      /\ ~closed /\ waits => pc = "forward"
      /\ closed' \in BOOLEAN /\ listening' = FALSE
  BY <1>1, <1>2 DEF Closes, Holding
<1> HIDE DEF waits
<1>4. /\ calls' \in [Pairs -> Nat] /\ ReleasedOnce'
      /\ \A p \in Pairs : calls'[p] = IF p \in cleanups \ after THEN 1 ELSE calls[p]
  <2>1. \A p \in cleanups \ after : p[2] # "repairs"
    BY DEF Inv, Numbered, Owned
  <2> QED  BY <1>1, <2>1, CallOnce DEF Inv, TypeOK, Numbered
<1>5. cleanups' \subseteq cleanups /\ fetch' \in Nat \cup {None}
  BY <1>1 DEF Inv, TypeOK
<1>6. TypeOK'
  BY <1>1, <1>3, <1>4, <1>5 DEF Inv, TypeOK, world
<1>7. Numbered'
  <2>1. \A p \in Pairs : p[1] > gen => p \notin cleanups
    BY DEF Inv, Numbered, TypeOK
  <2> QED  BY <1>1, <1>4, <1>5, <2>1 DEF Inv, Numbered
<1>8. \A p \in onUnload : p[2] # "repairs" /\ (calls'[p] = 1 \/ p \in after)
  <2> TAKE p \in onUnload
  <2>1. p \in Pairs /\ p[1] <= gen /\ p[1] \in Nat /\ gen \in Nat /\ p[2] \in Resources
        /\ p = <<p[1], p[2]>>
    BY DEF Inv, TypeOK, Numbered, Pairs, SetUps
  <2>2. CASE p[1] < gen
    BY <1>2, <1>4, <2>1, <2>2 DEF Holding
  <2>3. CASE p[1] = gen
    <3>1. p[2] \in R /\ p \in cleanups
      BY <1>2, <2>1, <2>3 DEF Holding
    <3> QED  BY <1>2, <1>4, <2>1, <3>1 DEF Owned
  <2> QED  BY <2>1, <2>2, <2>3
<1>9. PhaseInv'
  <2>1. CASE waits
    BY <1>1, <1>3, <1>8, <2>1 DEF PhaseInv
  <2>2. CASE ~waits
    <3>1. fetch' = None
      BY <1>1, <1>2, <1>3, <2>2 DEF waits
    <3> QED  BY <1>1, <1>3, <1>8, <2>2, <3>1 DEF PhaseInv, Ended
  <2> QED  BY <2>1, <2>2
<1>10. ForecastInv'
  BY <1>1, <1>3 DEF Inv, ForecastInv, world
<1>11. Observing' => Observing
  <2>1. ASSUME Observing' PROVE Observing
    <3>1. Own("state") \in onUnload /\ calls'[Own("state")] = 0 /\ Own("state") \in Pairs
      BY <1>1, <2>1 DEF Observing, Own, Inv, TypeOK
    <3> QED  BY <1>4, <3>1 DEF Observing
  <2> QED  BY <2>1
<1> QED  BY <1>1, <1>6, <1>7, <1>9, <1>10, <1>11, OutdoorFrame DEF Inv

\* Steps of an unload that release nothing, and the stop of Home Assistant.
LEMMA InvUnload ==
  ASSUME Inv, UnloadBegins \/ PlatformsRefuse \/ PlatformsUnloaded \/ HomeAssistantStops
  PROVE  Inv'
<1>1. /\ UNCHANGED <<gen, onUnload, cleanups, calls, refresh, outdoor, world, ticks>>
      /\ server' \subseteq server
  BY DEF UnloadBegins, PlatformsRefuse, PlatformsUnloaded, HomeAssistantStops
<1>2. /\ state' \in {"none", "setup", "loaded", "failed", "unloading", "refused"}
      /\ pc' \in {"idle", "start", "refresh", "forward", "platforms", "stop", "close"}
      /\ gen = 0 => state' = "none"
  BY DEF UnloadBegins, PlatformsRefuse, PlatformsUnloaded, HomeAssistantStops, Inv, TypeOK,
         PhaseInv, Numbered
<1>3. TypeOK'
  BY <1>1, <1>2 DEF Inv, TypeOK, refresh, world
<1>4. Numbered'
  BY <1>1, <1>2, NumberedFrame DEF Inv
<1>5. \A R : Holding(R) => Holding(R)'
  BY <1>1 DEF Holding, refresh
<1>6. PhaseInv'
  BY <1>1, <1>5 DEF UnloadBegins, PlatformsRefuse, PlatformsUnloaded, HomeAssistantStops,
                    Inv, PhaseInv, Ended, refresh
<1>7. ForecastInv' /\ OutdoorIsCurrent'
  BY <1>1 DEF Inv, ForecastInv, UpToDate, Newer, OutdoorIsCurrent, Observing, Own, refresh,
              world
<1> QED  BY <1>3, <1>4, <1>6, <1>7 DEF Inv

LEMMA InvStopped ==
  ASSUME Inv, StoppedForUnload
  PROVE  Inv'
<1>1. /\ pc = "stop" /\ state = "unloading" /\ server' = server \ {gen}
      /\ Call(onUnload) /\ onUnload' = {} /\ CloseForecast(onUnload)
      /\ IF Waits(onUnload) THEN pc' = "close" /\ UNCHANGED state
                            ELSE pc' = "idle" /\ state' = "none"
      /\ UNCHANGED <<gen, cleanups, outdoor, world, ticks>>
      /\ Holding(Resources) /\ listening
  BY DEF StoppedForUnload, Inv, PhaseInv
<1>2. /\ closed' = TRUE /\ listening' = FALSE /\ server' = {}
      /\ UNCHANGED <<fetch, repeat, forecast, noticed>>
      /\ Waits(onUnload) <=> fetch # None
  BY <1>1 DEF Holding, CloseForecast, Closes, Waits, Resources, Owned, Inv, Numbered
<1>3. /\ calls' \in [Pairs -> Nat] /\ ReleasedOnce'
      /\ \A p \in Pairs : calls'[p] = IF p \in onUnload THEN 1 ELSE calls[p]
  <2>1. \A p \in onUnload : p[2] = "repairs" => calls[p] = 0
    <3> TAKE p \in onUnload
    <3>1. p \in Pairs /\ p[1] <= gen /\ p[1] \in Nat /\ gen \in Nat /\ p = <<p[1], p[2]>>
      BY DEF Inv, TypeOK, Numbered, Pairs, SetUps
    <3>2. CASE p[1] < gen
      BY <1>1, <3>2 DEF Holding
    <3>3. CASE p[1] = gen
      BY <1>1, <3>1, <3>3 DEF Holding, Resources
    <3> QED  BY <3>1, <3>2, <3>3
  <2> QED  BY <1>1, <2>1, CallOnce DEF Inv, TypeOK, Numbered
<1>4. TypeOK'
  BY <1>1, <1>2, <1>3 DEF Inv, TypeOK, world
<1>5. Numbered'
  <2>1. \A p \in Pairs : p[1] > gen => p \notin onUnload
    BY DEF Inv, Numbered, TypeOK, Pairs, SetUps
  <2> QED  BY <1>1, <1>2, <1>3, <2>1 DEF Inv, Numbered
<1>6. PhaseInv'
  BY <1>1, <1>2 DEF PhaseInv, Ended
<1>7. ForecastInv'
  BY <1>1, <1>2 DEF Inv, ForecastInv, world
<1>8. ~Observing'
  BY <1>1 DEF Observing
<1> QED  BY <1>1, <1>4, <1>5, <1>6, <1>7, <1>8, OutdoorFrame DEF Inv

LEMMA InvStoppedFailed ==
  ASSUME Inv, NEW processed \in BOOLEAN, StoppedForFailure(processed)
  PROVE  Inv'
<1>1. /\ server' = {} /\ pc' = "idle" /\ state' = "failed" /\ gen # 0
      /\ UNCHANGED <<gen, cleanups, outdoor, world, ticks>>
      /\ Ended
      /\ \/ Call(onUnload) /\ onUnload' = {} /\ CloseForecast(onUnload)
         \/ UNCHANGED <<calls, onUnload, refresh>>
  BY DEF StoppedForFailure, Inv, PhaseInv, Numbered
<1>2. /\ closed' \in BOOLEAN /\ listening' = FALSE /\ fetch' = None
      /\ UNCHANGED <<fetch, repeat, forecast, noticed>>
  BY <1>1 DEF Ended, CloseForecast, refresh, Inv, TypeOK
<1>3. /\ calls' \in [Pairs -> Nat] /\ ReleasedOnce'
      /\ \A p \in Pairs : calls'[p] = IF p \in onUnload THEN 1 ELSE calls[p]
  <2>1. \A p \in onUnload : p[2] # "repairs" /\ calls[p] = 1
    BY <1>1 DEF Ended
  <2>2. CASE Call(onUnload)
    BY <2>1, <2>2, CallOnce DEF Inv, TypeOK, Numbered
  <2>3. CASE UNCHANGED calls
    BY <2>1, <2>3 DEF Inv, TypeOK, Numbered, ReleasedOnce
  <2> QED  BY <1>1, <2>2, <2>3
<1>4. onUnload' \subseteq onUnload
  BY <1>1
<1>5. TypeOK'
  BY <1>1, <1>2, <1>3, <1>4 DEF Inv, TypeOK, world
<1>6. Numbered'
  <2>1. \A p \in Pairs : p[1] > gen => p \notin onUnload
    BY DEF Inv, Numbered, TypeOK, Pairs, SetUps
  <2> QED  BY <1>1, <1>3, <1>4, <2>1 DEF Inv, Numbered
<1>7. Ended'
  BY <1>1, <1>2, <1>3, <1>4 DEF Ended, Inv, TypeOK
<1>8. PhaseInv'
  BY <1>1, <1>7 DEF PhaseInv
<1>9. ForecastInv'
  BY <1>1, <1>2 DEF Inv, ForecastInv, world
<1>10. ~Observing'
  <2>1. \A p \in onUnload' : calls'[p] # 0
    BY <1>3, <1>4 DEF Inv, TypeOK
  <2> QED  BY <2>1 DEF Observing
<1> QED  BY <1>1, <1>5, <1>6, <1>8, <1>9, <1>10, OutdoorFrame DEF Inv

LEMMA InvClosed ==
  ASSUME Inv, CloseEnds
  PROVE  Inv'
<1>1. /\ pc = "close" /\ fetch' = None /\ closed /\ ~listening
      /\ IF state = "setup" THEN pc' = "stop" /\ UNCHANGED state
                            ELSE pc' = "idle" /\ state' = "none"
      /\ Call(cleanups) /\ cleanups' = {}
      /\ UNCHANGED <<gen, server, onUnload, repeat, closed, listening, forecast, noticed,
                     outdoor, world, ticks>>
      /\ state = "setup" \/ (state = "unloading" /\ server = {} /\ onUnload = {})
  BY DEF CloseEnds, Inv, PhaseInv, TypeOK
<1>2. /\ calls' \in [Pairs -> Nat] /\ ReleasedOnce'
      /\ \A p \in Pairs : calls'[p] = IF p \in cleanups THEN 1 ELSE calls[p]
  <2>1. \A p \in cleanups : p[2] # "repairs"
    BY DEF Inv, Numbered, Owned
  <2> QED  BY <1>1, <2>1, CallOnce DEF Inv, TypeOK, Numbered
<1>3. TypeOK'
  BY <1>1, <1>2 DEF Inv, TypeOK, world
<1>4. Numbered'
  <2>1. \A p \in Pairs : p[1] > gen => p \notin cleanups
    BY DEF Inv, Numbered, TypeOK
  <2> QED  BY <1>1, <1>2, <2>1 DEF Inv, Numbered
<1>5. Ended'
  <2>1. \A p \in onUnload : p[2] # "repairs" /\ (calls[p] = 1 \/ p \in cleanups)
    BY <1>1 DEF Inv, PhaseInv
  <2> QED  BY <1>1, <1>2, <2>1 DEF Ended, Inv, TypeOK
<1>6. PhaseInv'
  BY <1>1, <1>5 DEF PhaseInv
<1>7. ForecastInv'
  BY <1>1 DEF Inv, ForecastInv, world
<1>8. Observing' => Observing
  <2>1. ASSUME Observing' PROVE Observing
    <3>1. Own("state") \in onUnload /\ calls'[Own("state")] = 0 /\ Own("state") \in Pairs
      BY <1>1, <2>1 DEF Observing, Own, Inv, TypeOK
    <3> QED  BY <1>2, <3>1 DEF Observing
  <2> QED  BY <2>1
<1> QED  BY <1>1, <1>3, <1>4, <1>6, <1>7, <1>8, OutdoorFrame DEF Inv

-----------------------------------------------------------------------------
(* The theorems *)

LEMMA InvStep == Inv /\ [Next]_vars => Inv'
<1> SUFFICES ASSUME Inv, [Next]_vars PROVE Inv'
  OBVIOUS
<1>1. CASE UNCHANGED vars
  <2>1. UNCHANGED <<entry, refresh, outdoor, world, ticks>>
    BY <1>1 DEF vars
  <2>2. Numbered' /\ PhaseInv'
    BY <2>1, PhaseFrame DEF refresh
  <2>3. TypeOK'
    BY <2>1 DEF Inv, TypeOK, entry, refresh, world
  <2>4. ForecastInv' /\ OutdoorIsCurrent'
    BY <2>1 DEF Inv, ForecastInv, UpToDate, Newer, OutdoorIsCurrent, Observing, Own, entry,
                refresh, world
  <2> QED  BY <2>2, <2>3, <2>4 DEF Inv
<1>2. CASE ForecastStep
  BY <1>2, InvFetch, InvTick, InvWeather, InvSensor DEF ForecastStep
<1>3. CASE SetUpStep
  BY <1>3, InvBegins, InvStarted, InvFirstRefreshed, InvLoaded, InvFails DEF SetUpStep
<1>4. CASE UnloadStep
  BY <1>4, InvUnload, InvStopped, InvStoppedFailed, InvClosed DEF UnloadStep
<1> QED  BY <1>1, <1>2, <1>3, <1>4 DEF Next

LEMMA InvHolds == Spec => []Inv
  BY InvInit, InvStep, PTL DEF Spec

\* Every variable of the entry keeps its type.
THEOREM EntryTypeCorrect == Spec => []TypeOK
<1>1. Inv => TypeOK
  BY DEF Inv
<1> QED  BY <1>1, InvHolds, PTL

\* No callback is called twice, whatever fails and whoever releases it.
THEOREM EachReleasedOnce == Spec => []ReleasedOnce
<1>1. Inv => ReleasedOnce
  BY DEF Inv, Numbered
<1> QED  BY <1>1, InvHolds, PTL

\* A set-up that failed, or was unloaded, left nothing.
THEOREM NothingLeft == Spec => []NothingIsLeft
<1>1. Inv => NothingIsLeft
  BY DEF Inv, PhaseInv, Ended, NothingIsLeft
<1> QED  BY <1>1, InvHolds, PTL

\* The observation is that of the best source there is.
THEOREM OutdoorCorrect == Spec => []OutdoorIsCurrent
<1>1. Inv => OutdoorIsCurrent
  BY DEF Inv
<1> QED  BY <1>1, InvHolds, PTL

\* A change of the source is shown, being fetched, or going to be.
THEOREM NoChangeLost == Spec => []NoChangeIsLost
<1>1. Inv => NoChangeIsLost
  BY DEF Inv, ForecastInv, UpToDate, Newer, NoChangeIsLost
<1> QED  BY <1>1, InvHolds, PTL

\* A closed forecast sets nothing.
THEOREM ClosedIsSilent == Spec => NothingSetAfterClose
<1> DEFINE Silent == closed /\ closed' => UNCHANGED forecast
<1>1. Inv /\ [Next]_vars => Silent
  <2> SUFFICES ASSUME Inv, [Next]_vars, closed, closed' PROVE forecast' = forecast
    OBVIOUS
  <2>1. ~FetchEnds /\ ~Tick
    BY DEF FetchEnds, MayEnd, Tick, Timer
  <2>2. ~SetUpBegins
    BY DEF SetUpBegins
  <2>3. ~Started /\ ~FirstRefreshed
    BY DEF Started, FirstRefreshed, Inv, PhaseInv, Holding
  <2>4. CASE UNCHANGED vars \/ WeatherChanges \/ SensorChanges
    BY <2>4 DEF vars, refresh, WeatherChanges, SensorChanges
  <2>5. CASE Loaded \/ SetUpFails \/ UnloadStep
    BY <2>5 DEF Loaded, SetUpFails, UnloadStep, UnloadBegins, PlatformsRefuse,
                PlatformsUnloaded, StoppedForUnload, CloseForecast, StoppedForFailure,
                CloseEnds, HomeAssistantStops, refresh
  <2> QED  BY <2>1, <2>2, <2>3, <2>4, <2>5 DEF Next, ForecastStep, SetUpStep
<1>2. Inv /\ [Next]_vars => [Silent]_vars
  BY <1>1
<1> QED  BY <1>2, InvHolds, PTL DEF Spec, NothingSetAfterClose

=============================================================================
