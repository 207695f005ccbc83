------------------------ MODULE RequestServerProofs ------------------------
(***************************************************************************)
(* What is proved of RequestServer, for every set of requests and tokens   *)
(* and every bound: types, that a window teaches at most one token, that   *)
(* the token spends it, and that handlers are given only requests with the *)
(* entry's token or, one at a time, requests that may teach it.            *)
(*                                                                         *)
(* The argument is the lock (LockInv): at most one unpaired request is     *)
(* past it, and while one is, the entry knows no token.                    *)
(***************************************************************************)
EXTENDS RequestServer, TLAPS

LockInv ==
  /\ \A r \in Requests : req[r].at = "lock" => req[r].first
  /\ \A r \in Requests : HoldsLock(r) => entry.token = None
  /\ \A r, s \in Requests : HoldsLock(r) /\ HoldsLock(s) => r = s
  /\ \A r \in Requests : InFlight(r) => req[r].token \in Tokens
  /\ entry.token = None => taught = {}

SpentInv ==
  entry.token # None =>
    /\ entry.data = None /\ entry.options = None
    /\ phase # "down" => window = None /\ paired

Inv == TypeOK /\ LockInv /\ SpentInv /\ OneTokenPerWindow
              /\ HandlersKnowTheToken

ReqType == [Requests -> [at : Places, token : Tokens \cup {None},
                         first : BOOLEAN]]

EntryType == [token : Tokens \cup {None}, data : Windows \cup {None},
              options : Windows \cup {None}]

\* A request that stops being served disturbs nobody.
LEMMA ReqDone ==
  ASSUME Inv, NEW r \in Requests, req' = [req EXCEPT ![r].at = "done"],
         UNCHANGED <<entry, expired, phase, window, paired, reload, opened,
                     saves, failures, late, taught>>
  PROVE  Inv'
<1>1. req \in ReqType
  BY DEF Inv, TypeOK, ReqType
<1>2. req' \in ReqType
  BY <1>1 DEF ReqType, Places
<1>3. \A s \in Requests :
        /\ req'[s].token = req[s].token /\ req'[s].first = req[s].first
        /\ req'[s].at = req[s].at \/ req'[s].at = "done"
  BY <1>1 DEF ReqType
<1>4. TypeOK'
  BY <1>2 DEF Inv, TypeOK, ReqType, Places
<1>5. LockInv'
  BY <1>3 DEF Inv, LockInv, HoldsLock, Inside, InFlight
<1>6. HandlersKnowTheToken'
  BY <1>3 DEF Inv, HandlersKnowTheToken, Inside
<1> QED BY <1>4, <1>5, <1>6 DEF Inv, SpentInv, OneTokenPerWindow

\* A request with the entry's token enters, or is turned away.
LEMMA ReqCompared ==
  ASSUME Inv, NEW r \in Requests, NEW t \in Tokens, entry.token # None,
         Compare(r, t),
         UNCHANGED <<entry, expired, phase, window, paired, reload, opened,
                     saves, failures, late, taught>>
  PROVE  Inv'
<1>1. req \in ReqType
  BY DEF Inv, TypeOK, ReqType
<1>2. PICK a \in {"slot", "handler", "done"} :
        /\ req' = [req EXCEPT ![r] = [at |-> a, token |-> t, first |-> FALSE]]
        /\ a # "done" => t = entry.token
  BY DEF Compare, Enter
<1>3. req' \in ReqType
  BY <1>1, <1>2 DEF ReqType, Places
<1>4. /\ \A s \in Requests \ {r} : req'[s] = req[s]
      /\ req'[r].at = a /\ req'[r].first = FALSE /\ req'[r].token = t
  BY <1>1, <1>2 DEF ReqType
<1>5. TypeOK'
  BY <1>3 DEF Inv, TypeOK, ReqType, Places
<1>6. LockInv'
  BY <1>2, <1>4 DEF Inv, LockInv, HoldsLock, Inside, InFlight
<1>7. HandlersKnowTheToken'
  BY <1>2, <1>4 DEF Inv, HandlersKnowTheToken, Inside
<1> QED BY <1>5, <1>6, <1>7 DEF Inv, SpentInv, OneTokenPerWindow

LEMMA ArriveUnpairedInv ==
  ASSUME Inv, NEW r \in Requests, NEW t \in Tokens, ArriveUnpaired(r, t)
  PROVE  Inv'
<1>1. req \in ReqType
  BY DEF Inv, TypeOK, ReqType
<1>2. PICK a \in {"slot", "handler", "done", "lock"} :
        /\ req' = [req EXCEPT ![r] = [at    |-> a, token |-> t,
                                      first |-> WindowOpen]]
        /\ a = "done" \/ WindowOpen
        /\ a \in {"slot", "handler"} => LockFree
  BY DEF ArriveUnpaired, Enter
<1>3. WindowOpen \in BOOLEAN
  BY DEF WindowOpen
<1>4. req' \in ReqType
  BY <1>1, <1>2, <1>3 DEF ReqType, Places
<1>5. /\ \A s \in Requests \ {r} : req'[s] = req[s]
      /\ req'[r].at = a /\ req'[r].first = WindowOpen /\ req'[r].token = t
  BY <1>1, <1>2 DEF ReqType
<1>6. entry.token = None
      /\ UNCHANGED <<entry, expired, phase, window, paired, reload, opened,
                     saves, failures, late, taught>>
  BY DEF ArriveUnpaired, bounds
<1>7. TypeOK'
  BY <1>4, <1>6 DEF Inv, TypeOK, ReqType, Places
<1>8. LockInv'
  BY <1>2, <1>5, <1>6 DEF Inv, LockInv, HoldsLock, Inside, InFlight, LockFree
<1>9. HandlersKnowTheToken'
  BY <1>2, <1>5, <1>6 DEF Inv, HandlersKnowTheToken, Inside
<1> QED BY <1>6, <1>7, <1>8, <1>9 DEF Inv, SpentInv, OneTokenPerWindow

LEMMA LockTakenInv ==
  ASSUME Inv, NEW r \in Requests, LockTaken(r)
  PROVE  Inv'
<1>1. req \in ReqType /\ req[r].at = "lock" /\ LockFree /\ TakeLock(r)
      /\ req[r].token \in Tokens \cup {None}
  BY DEF Inv, TypeOK, ReqType, LockTaken
<1>2. UNCHANGED <<entry, expired, phase, window, paired, reload, opened,
                  saves, failures, late, taught>>
  BY DEF LockTaken, bounds
<1>3. CASE entry.token = None
  <2>1. PICK a \in {"slot", "handler"} : req' = [req EXCEPT ![r].at = a]
    BY <1>1, <1>3 DEF TakeLock, Enter
  <2>2. req' \in ReqType
    BY <1>1, <2>1 DEF ReqType, Places
  <2>3. /\ \A s \in Requests \ {r} : req'[s] = req[s]
        /\ req'[r].at = a /\ req'[r].first = req[r].first
    BY <1>1, <2>1 DEF ReqType
  <2>4. req[r].first
    BY <1>1 DEF Inv, LockInv
  <2>5. TypeOK'
    BY <2>2, <1>2 DEF Inv, TypeOK, ReqType, Places
  <2>6. LockInv'
    BY <1>1, <1>2, <1>3, <2>1, <2>3
       DEF Inv, LockInv, HoldsLock, Inside, InFlight, LockFree
  <2>7. HandlersKnowTheToken'
    BY <1>2, <1>3, <2>3, <2>4 DEF Inv, HandlersKnowTheToken, Inside
  <2> QED BY <1>2, <2>5, <2>6, <2>7 DEF Inv, SpentInv, OneTokenPerWindow
<1>4. CASE entry.token # None
  <2>1. Compare(r, req[r].token)
    BY <1>1, <1>4 DEF TakeLock
  <2>2. req[r].token \in Tokens
    BY <1>1 DEF Inv, LockInv, InFlight
  <2> QED BY <1>2, <1>4, <2>1, <2>2, ReqCompared
<1> QED BY <1>3, <1>4

LEMMA SlotGrantedInv ==
  ASSUME Inv, NEW r \in Requests, SlotGranted(r)
  PROVE  Inv'
<1>1. req \in ReqType /\ req[r].at = "slot"
      /\ req' = [req EXCEPT ![r].at = "handler"]
  BY DEF Inv, TypeOK, ReqType, SlotGranted
<1>2. req' \in ReqType
  BY <1>1 DEF ReqType, Places
<1>3. \A s \in Requests : /\ req'[s].token = req[s].token
                          /\ req'[s].first = req[s].first
                          /\ req'[s].at = "lock" => req[s].at = "lock"
                          /\ Inside(s)' <=> Inside(s)
                          /\ InFlight(s)' <=> InFlight(s)
  BY <1>1 DEF ReqType, Inside, InFlight
<1>4. UNCHANGED <<entry, expired, phase, window, paired, reload, opened,
                  saves, failures, late, taught>>
  BY DEF SlotGranted, bounds
<1>5. TypeOK'
  BY <1>2, <1>4 DEF Inv, TypeOK, ReqType, Places
<1>6. LockInv' /\ HandlersKnowTheToken'
  BY <1>3, <1>4 DEF Inv, LockInv, HoldsLock, HandlersKnowTheToken
<1> QED BY <1>4, <1>5, <1>6 DEF Inv, SpentInv, OneTokenPerWindow

\* The pairing itself
LEMMA LearnInv ==
  ASSUME Inv, NEW r \in Requests, HandlerReturns(r, TRUE), req[r].first
  PROVE  Inv'
<1>1. req \in ReqType /\ req[r].at = "handler"
      /\ req' = [req EXCEPT ![r].at = "done"]
  BY DEF Inv, TypeOK, ReqType, HandlerReturns
<1>2. req' \in ReqType
  BY <1>1 DEF ReqType, Places
<1> DEFINE t == req[r].token
<1>3. t \in Tokens \cup {None}
  BY <1>1 DEF ReqType
<1>4. /\ entry' = [token |-> t, data |-> None, options |-> None]
      /\ window' = None /\ paired' = TRUE /\ taught' = taught \cup {t}
      /\ UNCHANGED <<expired, phase, reload, opened, saves, failures, late>>
  BY DEF HandlerReturns, Learn, bounds
<1>5. entry.token = None /\ taught = {}
      /\ \A s \in Requests : HoldsLock(s) => s = r
  BY <1>1 DEF Inv, LockInv, HoldsLock, Inside, InFlight
<1>6. \A s \in Requests \ {r} : req'[s] = req[s]
  BY <1>1 DEF ReqType
<1>7. req'[r].at = "done"
  BY <1>1 DEF ReqType
<1>8. \A s \in Requests : ~HoldsLock(s)'
  BY <1>5, <1>6, <1>7 DEF HoldsLock, Inside
<1>9. t \in Tokens /\ t # None
  BY <1>1, ConstantsAssumption DEF Inv, LockInv, InFlight
<1>10. TypeOK'
  BY <1>2, <1>4, <1>9 DEF Inv, TypeOK, ReqType
<1>11. LockInv'
  BY <1>1, <1>4, <1>6, <1>7, <1>8, <1>9 DEF Inv, LockInv, InFlight
<1>12. SpentInv' /\ OneTokenPerWindow'
  BY <1>4, <1>5 DEF SpentInv, OneTokenPerWindow
<1>13. HandlersKnowTheToken'
  <2> SUFFICES ASSUME NEW s \in Requests \ late', Inside(s)'
               PROVE  IF entry'.token = None THEN req'[s].first
                                             ELSE req'[s].token = entry'.token
    BY DEF HandlersKnowTheToken
  <2>1. s # r /\ req'[s] = req[s] /\ Inside(s) /\ s \in Requests \ late
    BY <1>4, <1>6, <1>7 DEF Inside
  <2>2. req[s].first
    BY <1>5, <2>1 DEF Inv, HandlersKnowTheToken
  <2>3. HoldsLock(s)
    BY <2>1, <2>2 DEF HoldsLock
  <2> QED BY <1>5, <2>1, <2>3
<1> QED BY <1>10, <1>11, <1>12, <1>13 DEF Inv

\* What happens to the entry and its server while no request moves.
LEMMA EntryStep ==
  ASSUME Inv, UNCHANGED <<req, taught>>, UNCHANGED late,
         UNCHANGED entry,
         entry.token # None /\ phase' # "down" => window' = None /\ paired',
         TypeOK'
  PROVE  Inv'
<1>1. LockInv'
  BY DEF Inv, LockInv, HoldsLock, Inside, InFlight
<1>2. HandlersKnowTheToken'
  BY DEF Inv, HandlersKnowTheToken, Inside
<1> QED BY <1>1, <1>2 DEF Inv, SpentInv, OneTokenPerWindow

LEMMA OpenWindowInv ==
  ASSUME Inv, OpenWindow
  PROVE  Inv'
<1>1. /\ opened' \in Windows /\ opened' = opened + 1
      /\ entry' = [token |-> None, data |-> None, options |-> opened']
      /\ reload' = TRUE /\ late' = late \cup {r \in Requests : InFlight(r)}
      /\ taught' = {}
      /\ UNCHANGED <<expired, phase, window, paired, req, saves, failures>>
  BY ConstantsAssumption DEF OpenWindow, Opened, Windows, Inv, TypeOK
<1>2. TypeOK'
  BY <1>1 DEF Inv, TypeOK
<1>3. LockInv'
  BY <1>1 DEF Inv, LockInv, HoldsLock, Inside, InFlight
<1>4. HandlersKnowTheToken'
  BY <1>1 DEF HandlersKnowTheToken, Inside, InFlight
<1> QED BY <1>1, <1>2, <1>3, <1>4 DEF Inv, SpentInv, OneTokenPerWindow

LEMMA EntryInv ==
  ASSUME Inv,
         \/ \E w \in Windows : Expire(w)
         \/ SaveOptions \/ SetUpBegins \/ SetUpSucceeds \/ SetUpFails
         \/ UnloadRefused \/ StopBegins \/ StopEnds \/ UNCHANGED vars
  PROVE  Inv'
<1>1. TypeOK'
  <2>1. CASE \E w \in Windows : Expire(w)
    BY <2>1 DEF Inv, TypeOK, Expire, bounds
  <2>2. CASE SetUpBegins
    <3>1. Merged \in Windows \cup {None} /\ paired' \in BOOLEAN
      BY <2>2 DEF Merged, SetUpBegins, Inv, TypeOK
    <3> QED BY <2>2, <3>1 DEF Inv, TypeOK, SetUpBegins, bounds
  <2>3. CASE SaveOptions
    BY <2>3, ConstantsAssumption DEF Inv, TypeOK, SaveOptions
  <2>4. CASE SetUpFails \/ UnloadRefused
    BY <2>4, ConstantsAssumption DEF Inv, TypeOK, SetUpFails, UnloadRefused
  <2>5. CASE SetUpSucceeds \/ StopBegins \/ StopEnds \/ UNCHANGED vars
    BY <2>5 DEF Inv, TypeOK, SetUpSucceeds, StopBegins, StopEnds, bounds, vars
  <2> QED BY <2>1, <2>2, <2>3, <2>4, <2>5
<1>2. UNCHANGED <<req, taught, late, entry>>
  BY DEF Expire, SaveOptions, SetUpBegins, SetUpSucceeds, SetUpFails,
         UnloadRefused, StopBegins, StopEnds, vars
<1>3. entry.token # None /\ phase' # "down" => window' = None /\ paired'
  <2>1. CASE SetUpBegins
    BY <2>1 DEF Inv, SpentInv, SetUpBegins, Merged
  <2>2. CASE ~SetUpBegins
    <3>1. UNCHANGED <<window, paired>> /\ (phase = "down" => phase' = "down")
      BY <2>2 DEF Expire, SaveOptions, SetUpSucceeds, SetUpFails,
                  UnloadRefused, StopBegins, StopEnds, vars
    <3> QED BY <3>1 DEF Inv, SpentInv
  <2> QED BY <2>1, <2>2
<1> QED BY <1>1, <1>2, <1>3, EntryStep

LEMMA InitInv == Init => Inv
<1> SUFFICES ASSUME Init PROVE Inv
  OBVIOUS
<1>1. 1 \in Windows
  BY ConstantsAssumption DEF Windows
<1>2. \A r \in Requests : req[r].at = "idle"
  BY DEF Init
<1>3. TypeOK
  <2>1. entry \in EntryType
    BY <1>1 DEF Init, EntryType
  <2>2. req \in ReqType
    BY DEF Init, ReqType, Places
  <2>3. expired \subseteq Windows /\ late \subseteq Requests
        /\ taught \subseteq Tokens
    BY DEF Init
  <2>4. paired \in BOOLEAN /\ reload \in BOOLEAN
    BY Zenon DEF Init
  <2>5. phase = "down" /\ window = None /\ opened \in Windows
        /\ saves \in 0..MaxSaves /\ failures \in 0..MaxFailures
    BY <1>1, ConstantsAssumption DEF Init
  <2> QED BY <2>1, <2>2, <2>3, <2>4, <2>5 DEF TypeOK, EntryType, ReqType
<1>4. LockInv /\ HandlersKnowTheToken
  BY <1>2
     DEF Init, LockInv, HoldsLock, Inside, InFlight, HandlersKnowTheToken
<1> QED BY <1>3, <1>4 DEF Init, Inv, SpentInv, OneTokenPerWindow

LEMMA RequestStepInv ==
  ASSUME Inv, NEW r \in Requests, RequestStep(r)
  PROVE  Inv'
<1>1. ASSUME NEW t \in Tokens, Arrive(r, t) PROVE Inv'
  BY <1>1, ReqCompared DEF Arrive, bounds
<1>2. ASSUME NEW t \in Tokens, ArriveUnpaired(r, t) PROVE Inv'
  BY <1>2, ArriveUnpairedInv
<1>3. ASSUME NEW success \in BOOLEAN, HandlerReturns(r, success) PROVE Inv'
  <2>1. CASE success /\ req[r].first
    BY <1>3, <2>1, LearnInv
  <2>2. CASE ~(success /\ req[r].first)
    BY <1>3, <2>2, ReqDone DEF HandlerReturns, bounds
  <2> QED BY <2>1, <2>2
<1>4. CASE HandlerRaises(r) \/ TimesOut(r) \/ Cancelled(r)
  BY <1>4, ReqDone DEF HandlerRaises, TimesOut, Cancelled, bounds
<1> QED BY <1>1, <1>2, <1>3, <1>4, LockTakenInv, SlotGrantedInv
        DEF RequestStep

LEMMA InvHolds == Spec => []Inv
<1>1. Inv /\ [Next]_vars => Inv'
  <2> SUFFICES ASSUME Inv, [Next]_vars PROVE Inv'
    OBVIOUS
  <2> QED BY RequestStepInv, OpenWindowInv, EntryInv DEF Next
<1> QED BY <1>1, InitInv, PTL DEF Spec

-----------------------------------------------------------------------------
(* The theorems *)

\* Every variable of the server keeps its type.
THEOREM ServerTypeCorrect == Spec => []TypeOK
<1>1. Inv => TypeOK
  BY DEF Inv
<1> QED BY <1>1, InvHolds, PTL

\* Since the last window was opened at most one token was learned, and it is
\* the entry's.
THEOREM OneTokenIsLearned == Spec => []OneTokenPerWindow
<1>1. Inv => OneTokenPerWindow
  BY DEF Inv
<1> QED BY <1>1, InvHolds, PTL

\* A known token leaves no deadline in the entry or in a running server, whose
\* runtime knows that it is paired.
THEOREM WindowIsSpent == Spec => []PairingSpendsWindow
<1>1. Inv => PairingSpendsWindow
  BY DEF Inv, SpentInv, PairingSpendsWindow, Running
<1> QED BY <1>1, InvHolds, PTL

\* A request in a handler has the entry's token or may teach it.
THEOREM OnlyKnownTokens == Spec => []HandlersKnowTheToken
<1>1. Inv => HandlersKnowTheToken
  BY DEF Inv
<1> QED BY <1>1, InvHolds, PTL

-----------------------------------------------------------------------------
(* The contract *)

\* Only windows that were opened expire, and a token leaves none in the server.
WindowInv ==
  /\ expired \subseteq 1..opened
  /\ entry.token # None => window = None

LEMMA WindowStep ==
  ASSUME Inv, WindowInv, [Next]_vars
  PROVE  WindowInv'
<1> USE DEF WindowInv
<1>1. ASSUME NEW r \in Requests, RequestStep(r) PROVE WindowInv'
  <2>1. CASE UNCHANGED <<entry, expired, opened, window>>
    BY <2>1
  <2>2. CASE ~UNCHANGED <<entry, expired, opened, window>>
    <3>1. \E success \in BOOLEAN : HandlerReturns(r, success)
      BY <1>1, <2>2 DEF RequestStep, Arrive, ArriveUnpaired, LockTaken, SlotGranted,
         HandlerRaises, TimesOut, Cancelled, bounds
    <3> QED  BY <2>2, <3>1 DEF HandlerReturns, Learn, bounds
  <2> QED  BY <2>1, <2>2
<1>2. ASSUME NEW w \in Windows, Expire(w) PROVE WindowInv'
  BY <1>2 DEF Expire, bounds, Windows, Inv, TypeOK
<1>3. CASE OpenWindow
  BY <1>3 DEF OpenWindow, Opened, Windows, Inv, TypeOK
<1>4. CASE SetUpBegins
  BY <1>4 DEF SetUpBegins, Merged, Inv, SpentInv, bounds
<1>5. CASE \/ SaveOptions \/ SetUpSucceeds \/ SetUpFails
           \/ UnloadRefused \/ StopBegins \/ StopEnds \/ UNCHANGED vars
  BY <1>5 DEF SaveOptions, SetUpSucceeds, SetUpFails, UnloadRefused, StopBegins,
     StopEnds, vars, bounds
<1> QED  BY <1>1, <1>2, <1>3, <1>4, <1>5 DEF Next

Request == [at : Places, token : Tokens \cup {None}, first : BOOLEAN]

\* A request that moves moves in the contract.
LEMMA Moves ==
  ASSUME Inv, NEW r \in Requests, NEW q \in Request, req' = [req EXCEPT ![r] = q]
  PROVE  /\ Placed' = [Placed EXCEPT ![r] = PlaceOf(q)]
         /\ Offered' = [Offered EXCEPT ![r] = q.token]
<1>1. req \in [Requests -> Request]
  BY DEF Inv, TypeOK, Request
<1>2. \A s \in Requests : req'[s] = IF s = r THEN q ELSE req[s]
  BY <1>1
<1>3. Placed' = [s \in Requests |-> IF s = r THEN PlaceOf(q) ELSE Placed[s]]
  BY <1>2 DEF Placed, PlaceOf
<1>4. Offered' = [s \in Requests |-> IF s = r THEN q.token ELSE Offered[s]]
  BY <1>2 DEF Offered
<1> QED  BY <1>3, <1>4 DEF Placed, Offered

LEMMA Ends ==
  ASSUME Inv, NEW r \in Requests, req[r].at # "idle",
         req' = [req EXCEPT ![r].at = "done"]
  PROVE  /\ Placed[r] # "away"
         /\ Placed' = [Placed EXCEPT ![r] = "gone"] /\ Offered' = Offered
<1> DEFINE q == [req[r] EXCEPT !.at = "done"]
<1>1. req \in [Requests -> Request] /\ req[r] \in Request
  BY DEF Inv, TypeOK, Request
<1>2. q \in Request /\ PlaceOf(q) = "gone" /\ q.token = Offered[r]
  BY <1>1 DEF Request, Places, PlaceOf, Offered
<1>3. req' = [req EXCEPT ![r] = q]
  BY <1>1
<1> HIDE DEF q
<1>4. Placed' = [Placed EXCEPT ![r] = PlaceOf(q)] /\ Offered' = [Offered EXCEPT ![r] = q.token]
  BY <1>2, <1>3, Moves
<1>5. Offered' = Offered
  BY <1>2, <1>4 DEF Offered
<1>6. Placed[r] # "away"
  BY <1>1 DEF Placed, PlaceOf, Request, Places
<1> QED  BY <1>2, <1>4, <1>5, <1>6

\* The guest is the one that holds the lock.
LEMMA Guest ==
  ASSUME Inv
  PROVE  /\ \A r \in Requests : Placed[r] = "guest" <=> HoldsLock(r)
         /\ LockFree <=> Pairing!NoGuest
<1>1. \A r \in Requests : req[r] \in Request
  BY DEF Inv, TypeOK, Request
<1>2. \A r \in Requests : Placed[r] = "guest" <=> HoldsLock(r)
  BY <1>1 DEF Placed, PlaceOf, HoldsLock, Inside, Request, Places
<1> QED  BY <1>2 DEF LockFree, Pairing!NoGuest

LEMMA RequestContract ==
  ASSUME Inv, NEW r \in Requests, RequestStep(r)
  PROVE  Pairing!Next \/ UNCHANGED Pairing!pairing
<1>1. req \in [Requests -> Request] /\ req[r] \in Request
  BY DEF Inv, TypeOK, Request
<1>2. ASSUME NEW t \in Tokens, Arrive(r, t) PROVE Pairing!Come(r, t)
  <2> DEFINE q == [at |-> IF t = entry.token THEN Enter ELSE "done",
                   token |-> t, first |-> FALSE]
  <2>1. q \in Request /\ q.token = t
        /\ PlaceOf(q) = IF t = entry.token THEN "member" ELSE "gone"
    BY DEF Request, Places, PlaceOf, Enter
  <2>2. req' = [req EXCEPT ![r] = q] /\ Pairable' = Pairable /\ entry' = entry
    BY <1>2 DEF Arrive, Compare, Pairable
  <2>3. Placed[r] = "away"
    BY <1>2 DEF Arrive, Placed, PlaceOf
  <2> HIDE DEF q
  <2>4. /\ Placed' = [Placed EXCEPT ![r] = PlaceOf(q)]
        /\ Offered' = [Offered EXCEPT ![r] = t]
    BY <2>1, <2>2, Moves
  <2> QED  BY <2>1, <2>2, <2>3, <2>4 DEF Pairing!Come, Pairing!MayEnter
<1>3. ASSUME NEW t \in Tokens, ArriveUnpaired(r, t) PROVE Pairing!Come(r, t)
  <2> DEFINE q == [at |-> IF ~WindowOpen THEN "done" ELSE IF LockFree THEN Enter ELSE "lock",
                   token |-> t, first |-> WindowOpen]
  <2>1. q \in Request /\ q.token = t
        /\ PlaceOf(q) = IF ~WindowOpen THEN "gone" ELSE IF LockFree THEN "guest" ELSE "waiting"
    BY DEF Request, Places, PlaceOf, Enter, WindowOpen
  <2>2. /\ req' = [req EXCEPT ![r] = q] /\ Pairable' = Pairable /\ entry' = entry
        /\ entry.token = None
    BY <1>3 DEF ArriveUnpaired, Pairable
  <2>3. Placed[r] = "away" /\ (WindowOpen => Pairable # {})
    BY <1>3 DEF ArriveUnpaired, Placed, PlaceOf, WindowOpen, Pairable
  <2> HIDE DEF q
  <2>4. /\ Placed' = [Placed EXCEPT ![r] = PlaceOf(q)]
        /\ Offered' = [Offered EXCEPT ![r] = t]
    BY <2>1, <2>2, Moves
  <2> QED  BY <2>1, <2>2, <2>3, <2>4, Guest DEF Pairing!Come, Pairing!MayEnter
<1>4. CASE LockTaken(r)
  <2>1. /\ req[r].at = "lock" /\ req[r].first /\ LockFree
        /\ Pairable' = Pairable /\ entry' = entry
    BY <1>4 DEF LockTaken, Inv, LockInv, Pairable
  <2>2. Placed[r] = "waiting" /\ Offered[r] = req[r].token
    BY <2>1 DEF Placed, PlaceOf, Offered
  <2>3. PICK q \in Request :
          /\ req' = [req EXCEPT ![r] = q] /\ q.token = req[r].token
          /\ PlaceOf(q) = IF entry.token = None THEN "guest"
                          ELSE IF req[r].token = entry.token THEN "member" ELSE "gone"
    <3>1. CASE entry.token = None
      <4> DEFINE p == [req[r] EXCEPT !.at = Enter]
      <4>1. p \in Request /\ p.token = req[r].token /\ PlaceOf(p) = "guest"
        BY <1>1, <2>1 DEF Request, Places, PlaceOf, Enter
      <4>2. req' = [req EXCEPT ![r] = p]
        BY <1>1, <1>4, <3>1 DEF LockTaken, TakeLock
      <4> QED  BY <3>1, <4>1, <4>2
    <3>2. CASE entry.token # None
      <4> DEFINE p == [at |-> IF req[r].token = entry.token THEN Enter ELSE "done",
                       token |-> req[r].token, first |-> FALSE]
      <4>1. p \in Request /\ p.token = req[r].token
            /\ PlaceOf(p) = IF req[r].token = entry.token THEN "member" ELSE "gone"
        BY <1>1 DEF Request, Places, PlaceOf, Enter
      <4>2. req' = [req EXCEPT ![r] = p]
        BY <1>4, <3>2 DEF LockTaken, TakeLock, Compare
      <4> QED  BY <3>2, <4>1, <4>2
    <3> QED  BY <3>1, <3>2
  <2>4. /\ Placed' = [Placed EXCEPT ![r] = PlaceOf(q)]
        /\ Offered' = [Offered EXCEPT ![r] = Offered[r]]
    BY <2>2, <2>3, Moves
  <2>5. Offered' = Offered
    BY <2>4 DEF Offered
  <2>6. Pairing!Admit(r)
    BY <2>1, <2>2, <2>3, <2>4, <2>5, Guest DEF Pairing!Admit, Pairing!MayEnter
  <2> QED  BY <2>6 DEF Pairing!Next
<1>5. CASE SlotGranted(r)
  <2> DEFINE q == [req[r] EXCEPT !.at = "handler"]
  <2>1. /\ req[r].at = "slot" /\ req' = [req EXCEPT ![r] = q]
        /\ Pairable' = Pairable /\ entry' = entry
    BY <1>1, <1>5 DEF SlotGranted, Pairable
  <2>2. q \in Request /\ PlaceOf(q) = Placed[r] /\ q.token = Offered[r]
    BY <1>1, <2>1 DEF Request, Places, PlaceOf, Placed, Offered
  <2> HIDE DEF q
  <2>3. /\ Placed' = [Placed EXCEPT ![r] = Placed[r]]
        /\ Offered' = [Offered EXCEPT ![r] = Offered[r]]
    BY <2>1, <2>2, Moves
  <2> QED  BY <2>1, <2>3 DEF Placed, Offered, Pairing!pairing
<1>6. CASE HandlerReturns(r, TRUE) /\ req[r].first
  <2>1. /\ req[r].at = "handler" /\ req' = [req EXCEPT ![r].at = "done"]
        /\ entry' = [token |-> req[r].token, data |-> None, options |-> None]
        /\ window' = None
    BY <1>6 DEF HandlerReturns, Learn
  <2>2. HoldsLock(r) /\ req[r].token \in Tokens
    BY <1>6, <2>1 DEF HoldsLock, Inside, InFlight, Inv, LockInv
  <2>3. Placed[r] = "guest" /\ entry.token = None /\ Offered[r] = req[r].token
    BY <2>2, Guest DEF Inv, LockInv, Offered
  <2>4. Pairable' = {} /\ entry'.token = req[r].token
    BY <2>1 DEF Pairable
  <2>5. Pairing!Pair(r)
    BY <2>1, <2>2, <2>3, <2>4, Ends DEF Pairing!Pair
  <2> QED  BY <2>5 DEF Pairing!Next
<1>7. CASE \/ HandlerReturns(r, FALSE) \/ (HandlerReturns(r, TRUE) /\ ~req[r].first)
           \/ HandlerRaises(r) \/ TimesOut(r) \/ Cancelled(r)
  <2>1. /\ req[r].at # "idle" /\ req' = [req EXCEPT ![r].at = "done"]
        /\ Pairable' = Pairable /\ entry' = entry
    BY <1>7 DEF HandlerReturns, HandlerRaises, TimesOut, Cancelled, Timed, Inside,
       InFlight, Pairable
  <2>2. Pairing!Leave(r)
    BY <2>1, Ends DEF Pairing!Leave
  <2> QED  BY <2>2 DEF Pairing!Next
<1> QED  BY <1>2, <1>3, <1>4, <1>5, <1>6, <1>7 DEF RequestStep, Pairing!Next

\* The user, time and the set-ups.
LEMMA WindowContract ==
  ASSUME Inv, WindowInv, [Next]_vars, ~\E r \in Requests : RequestStep(r)
  PROVE  Pairing!Next \/ UNCHANGED Pairing!pairing
<1>1. req' = req
  BY DEF Next, Expire, OpenWindow, SaveOptions, SetUpBegins, SetUpSucceeds, SetUpFails,
     UnloadRefused, StopBegins, StopEnds, vars
<1>2. Placed' = Placed /\ Offered' = Offered
  BY <1>1 DEF Placed, Offered
<1>3. CASE OpenWindow
  <2>1. /\ opened + 1 \in Windows /\ opened + 1 \notin expired /\ opened + 1 # None
        /\ entry' = Opened(opened + 1) /\ UNCHANGED <<expired, window>>
    BY <1>3, ConstantsAssumption DEF OpenWindow, Windows, WindowInv, Inv, TypeOK
  <2>2. /\ entry'.token = None /\ opened + 1 \in Pairable'
        /\ Pairable' \subseteq Pairable \cup {opened + 1}
    BY <2>1 DEF Opened, Pairable
  <2>3. Pairing!Open(opened + 1)
    BY <1>2, <2>2 DEF Pairing!Open
  <2> QED  BY <2>1, <2>3 DEF Pairing!Next
<1>4. CASE ~OpenWindow
  <2>1. entry' = entry /\ Pairable' \subseteq Pairable
    <3>1. CASE SetUpBegins
      BY <3>1 DEF SetUpBegins, Merged, Pairable
    <3>2. CASE ~SetUpBegins
      BY <1>4, <3>2 DEF Next, Expire, SaveOptions, SetUpSucceeds, SetUpFails,
         UnloadRefused, StopBegins, StopEnds, vars, Pairable
    <3> QED  BY <3>1, <3>2
  <2>2. Pairing!Close
    BY <1>2, <2>1 DEF Pairing!Close
  <2> QED  BY <2>2 DEF Pairing!Next
<1> QED  BY <1>3, <1>4

LEMMA ContractInit == Init => Pairing!Init /\ WindowInv
<1> SUFFICES ASSUME Init PROVE Pairing!Init /\ WindowInv
  OBVIOUS
<1>1. Pairable \subseteq Windows /\ entry.token = None
  BY ConstantsAssumption DEF Init, Pairable, Windows
<1>2. Placed = [r \in Requests |-> "away"] /\ Offered = [r \in Requests |-> None]
  BY DEF Init, Placed, PlaceOf, Offered
<1>3. WindowInv
  BY DEF Init, WindowInv
<1> QED  BY <1>1, <1>2, <1>3 DEF Pairing!Init

\* RequestServer implements PairingContract.
THEOREM PairingKept == Spec => PairingSpec
<1>1. Inv /\ WindowInv /\ [Next]_vars => WindowInv'
  BY WindowStep
<1>2. Inv /\ WindowInv /\ [Next]_vars => [Pairing!Next]_(Pairing!pairing)
  BY RequestContract, WindowContract
<1> QED  BY <1>1, <1>2, ContractInit, InvHolds, PTL DEF Spec, PairingSpec, Pairing!Spec

=============================================================================
