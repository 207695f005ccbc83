------------------------------ MODULE Repairs ------------------------------
(***************************************************************************)
(* Class NuveRepairManager (repairs.py): issues in Home Assistant's issue  *)
(* registry that mirror conditions of the runtime, over reloads, refused   *)
(* unloads and the removal of the entry.                                   *)
(*                                                                         *)
(* A manager looks at the conditions when the runtime notifies and when a  *)
(* grace timer of its own runs out.  Two kinds of condition change while   *)
(* nobody notifies, because a monitor report grows old: one that means a   *)
(* report is missing appears, one that needs a recent report goes away.    *)
(* Issues are persistent: the registry (external) keeps them while no      *)
(* manager runs.  Time is counted in steps, of which a grace has Grace.    *)
(***************************************************************************)
EXTENDS Integers

CONSTANTS
  Direct,      \* ISSUE_KINDS that are raised at once
  Graced,      \* GRACED_ISSUES
  Appearing,   \* of these, those that appear unnoticed (monitor)
  Vanishing,   \* of these, those that go away unnoticed (schedule)
  Grace,       \* grace_seconds, in steps
  MaxStarts    \* managers

ASSUME ConstantsAssumption ==
  /\ Direct \cap Graced = {} /\ Appearing \subseteq Graced
  /\ Vanishing \subseteq Graced /\ Grace \in Nat \ {0} /\ MaxStarts \in Nat

Kinds == Direct \cup Graced

VARIABLES
  conditions, \* repair_conditions, as they are now
  issues,     \* the issue registry
  phase,      \* of the manager: off, on, deaf (the runtime dropped its listeners)
  status,     \* _status: unset, raised, clear
  handles,    \* _handles: the kinds whose timer runs
  timer,      \* how long each timer has run
  refused,    \* the unload was refused
  removed,    \* the entry was removed
  starts,
  \* history, read by no guard
  seen,       \* the conditions of the last refresh
  held        \* for how long each refresh has seen the condition

manager == <<status, handles, timer, seen>>
vars    == <<conditions, issues, phase, manager, refused, removed, starts,
             held>>

-----------------------------------------------------------------------------

WrongKeptNone(c, h) == {}
\* The timers that go on: those of conditions that are still there.
Kept(c, h) == h \cap c

WrongCleared(k, s) == s[k] = "raised"

\* Whether the issue of an absent condition is deleted: also one that a former
\* manager may have left.
Cleared(k, s) == s[k] # "clear"

\* Raised at once
Raise(c, s) == {k \in c \cap Direct : s[k] # "raised"}

\* refresh, of a manager with status s and timers h
Refresh(c, s, h) ==
  LET arm == {k \in c \cap Graced : s[k] # "raised" /\ k \notin h}
  IN /\ handles' = Kept(c, h) \cup arm
     /\ timer' = [k \in Kinds |-> IF k \in arm THEN 0 ELSE timer[k]]
     /\ issues' = (issues \cup Raise(c, s)) \ {k \in Kinds \ c : Cleared(k, s)}
     /\ status' = [k \in Kinds |-> IF k \notin c THEN "clear"
                                   ELSE IF k \in Raise(c, s) THEN "raised"
                                   ELSE s[k]]
     /\ seen' = c
     /\ held' = [k \in Kinds |-> IF k \in c \cap seen THEN held[k] ELSE 0]

\* _notify_listeners, after a change of the conditions or none
Notified(c) ==
  /\ conditions' = c
  /\ IF phase = "on" THEN Refresh(c, status, handles)
                     ELSE UNCHANGED <<manager, issues, held>>
  /\ UNCHANGED <<phase, refused, removed, starts>>

\* NuveRuntime.monitor_is_fresh turns false.
Unnoticed ==
  /\ conditions' \in {conditions \cup {k} : k \in Appearing}
                     \cup {conditions \ {k} : k \in Vanishing}
  /\ UNCHANGED <<issues, phase, manager, refused, removed, starts, held>>

\* call_later is not ahead of its time.
Tick ==
  /\ phase \in {"on", "deaf"} /\ \A k \in handles : timer[k] < Grace
  /\ timer' = [k \in Kinds |-> IF k \in handles THEN timer[k] + 1 ELSE timer[k]]
  /\ held' = [k \in Kinds |-> IF k \in seen /\ held[k] < Grace THEN held[k] + 1
                                                               ELSE held[k]]
  /\ UNCHANGED <<conditions, issues, phase, status, handles, refused, removed,
                 starts, seen>>

WrongStillThere(k) == TRUE

StillThere(k) == k \in conditions

\* _activate_after_grace
TimerFires(k) ==
  /\ k \in handles /\ timer[k] = Grace
  /\ handles' = handles \ {k}
  /\ IF StillThere(k)
     THEN issues' = issues \cup {k} /\ status' = [status EXCEPT ![k] = "raised"]
     ELSE UNCHANGED <<issues, status>>
  /\ UNCHANGED <<conditions, phase, timer, refused, removed, starts, seen,
                 held>>

\* start, at the end of a set-up
Start ==
  /\ phase = "off" /\ ~removed
  /\ starts < MaxStarts /\ starts' = starts + 1
  /\ phase' = "on"
  /\ Refresh(conditions, [k \in Kinds |-> "unset"], {})
  /\ UNCHANGED <<conditions, refused, removed>>

\* NuveRuntime.async_shutdown forgets its listeners.
RuntimeStops ==
  /\ phase = "on" /\ ~refused /\ phase' = "deaf"
  /\ UNCHANGED <<conditions, issues, manager, refused, removed, starts, held>>

WrongLeft == handles

\* the timers that a shutdown leaves
Left == {}

\* shutdown, from async_on_unload
Shutdown ==
  /\ phase = "deaf" /\ phase' = "off"
  /\ handles' = Left
  /\ seen' = {} /\ held' = [k \in Kinds |-> 0]
  /\ UNCHANGED <<conditions, issues, status, timer, refused, removed, starts>>

UnloadRefused ==
  /\ phase = "on" /\ refused' = TRUE
  /\ UNCHANGED <<conditions, issues, phase, manager, removed, starts, held>>

\* delete_entry_issues; Home Assistant removes an entry also when its unload
\* was refused.
Remove ==
  /\ phase = "off" \/ refused
  /\ ~removed /\ removed' = TRUE /\ issues' = {}
  /\ UNCHANGED <<conditions, phase, manager, refused, starts, held>>

\* Issues of an earlier run may be in the registry.
Init ==
  /\ conditions \in SUBSET Kinds /\ issues \in SUBSET Kinds
  /\ phase = "off" /\ status = [k \in Kinds |-> "unset"]
  /\ handles = {} /\ timer = [k \in Kinds |-> 0]
  /\ refused = FALSE /\ removed = FALSE /\ starts = 0
  /\ seen = {} /\ held = [k \in Kinds |-> 0]

Next ==
  \/ \E c \in SUBSET Kinds : Notified(c)
  \/ Unnoticed \/ Tick
  \/ \E k \in Graced : TimerFires(k)
  \/ Start \/ RuntimeStops \/ Shutdown \/ UnloadRefused \/ Remove

Spec == Init /\ [][Next]_vars

\* Time passes, timers fire, and the runtime notifies again: at the next contact
\* or, without one, when its liveness timer runs out.
Fairness ==
  /\ WF_vars(Tick)
  /\ \A k \in Graced : WF_vars(TimerFires(k))
  /\ WF_vars(phase = "on" /\ seen # conditions /\ Notified(conditions))

FairSpec == Spec /\ Fairness

-----------------------------------------------------------------------------
(* Properties *)

\* Every variable keeps its type.
TypeOK ==
  /\ conditions \subseteq Kinds /\ issues \subseteq Kinds
  /\ phase \in {"off", "on", "deaf"}
  /\ status \in [Kinds -> {"unset", "raised", "clear"}]
  /\ handles \subseteq Graced /\ timer \in [Kinds -> 0..Grace]
  /\ refused \in BOOLEAN /\ removed \in BOOLEAN /\ starts \in 0..MaxStarts
  /\ seen \subseteq Kinds /\ held \in [Kinds -> 0..Grace]

\* While a manager listens, the registry shows no issue whose condition the last
\* refresh did not see, whoever raised it, and each one that needs no grace.
IssuesMirrorConditions ==
  phase = "on" /\ ~removed => /\ issues \subseteq seen
                              /\ seen \cap Direct \subseteq issues

\* A graced issue is new only when its condition was there at every refresh of a
\* whole grace, and is there now: a condition that comes and goes is none.
RaisedAfterGrace ==
  [][\A k \in Graced : k \in issues' \ issues =>
       held[k] = Grace /\ k \in conditions]_vars

\* Without a listening manager nothing is raised: an unloaded entry has no timer
\* left that could.
NothingRaisedUnloaded ==
  [][phase = "off" /\ phase' = "off" => issues' \subseteq issues]_vars

\* A condition that stays is raised, however it began.
LastingIsRaised ==
  \A k \in Kinds :
    (phase = "on" /\ k \in conditions) ~>
      (phase # "on" \/ k \notin conditions \/ k \in issues \/ removed)

(* What the repository says of the program and its code does not do *)

\* "Remove every issue when its owning config entry is deleted."
RemovedHasNoIssues == removed => issues = {}

=============================================================================
