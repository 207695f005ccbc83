-------------------------- MODULE PairingContract --------------------------
(***************************************************************************)
(* What pairing promises, whatever locks, slots, time-outs, reloads and    *)
(* cancelled handlers do: no request is served but with the known token,   *)
(* or alone, as the guest of an open window; only a guest teaches a token, *)
(* and only while none is known; the token it teaches closes every window, *)
(* and only the user, by opening another, makes it forgotten.  How the     *)
(* server does it is RequestServer.                                        *)
(***************************************************************************)
CONSTANTS Requests, Tokens, Windows, None

VARIABLES
  token,   \* the token that is known, or None
  open,    \* the windows through which a request may still pair
  place,   \* of each request: away, waiting, guest, member or gone
  offer    \* of each request, the token it came with

pairing == <<token, open, place, offer>>

NoGuest == \A r \in Requests : place[r] # "guest"

Init ==
  /\ token = None /\ open \in SUBSET Windows
  /\ place = [r \in Requests |-> "away"]
  /\ offer = [r \in Requests |-> None]

-----------------------------------------------------------------------------
(* Requests *)

\* Where a request with token t may go: in with the token, or, while there is
\* none, in alone.
MayEnter(p, t) ==
  \/ p = "member" /\ token = t
  \/ p = "guest" /\ token = None /\ NoGuest
  \/ p = "gone"

Come(r, t) ==
  /\ place[r] = "away"
  /\ \E p \in {"waiting", "guest", "member", "gone"} :
       /\ p = "waiting" \/ MayEnter(p, t)
       /\ p \in {"waiting", "guest"} => token = None /\ open # {}
       /\ place' = [place EXCEPT ![r] = p]
  /\ offer' = [offer EXCEPT ![r] = t]
  /\ UNCHANGED <<token, open>>

Admit(r) ==
  /\ place[r] = "waiting"
  /\ \E p \in {"guest", "member", "gone"} :
       MayEnter(p, offer[r]) /\ place' = [place EXCEPT ![r] = p]
  /\ UNCHANGED <<token, open, offer>>

Leave(r) ==
  /\ place[r] # "away" /\ place' = [place EXCEPT ![r] = "gone"]
  /\ UNCHANGED <<token, open, offer>>

Pair(r) ==
  /\ place[r] = "guest" /\ token = None
  /\ token' = offer[r] /\ token' \in Tokens /\ open' = {}
  /\ place' = [place EXCEPT ![r] = "gone"]
  /\ UNCHANGED offer

-----------------------------------------------------------------------------
(* Windows *)

\* The user opens a window; an older one may stay for a while.
Open(w) ==
  /\ token' = None
  /\ w \in open' /\ open' \subseteq open \cup {w}
  /\ UNCHANGED <<place, offer>>

\* A window expires, or a newer one takes its place.
Close ==
  /\ open' \subseteq open
  /\ UNCHANGED <<token, place, offer>>

-----------------------------------------------------------------------------
Next ==
  \/ \E r \in Requests :
       (\E t \in Tokens : Come(r, t)) \/ Admit(r) \/ Leave(r) \/ Pair(r)
  \/ \E w \in Windows : Open(w)
  \/ Close

Spec == Init /\ [][Next]_pairing
=============================================================================
