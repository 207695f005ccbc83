-------------------------- MODULE CommandContract --------------------------
(***************************************************************************)
(* What the command coordinator promises to its callers and to the next    *)
(* start, whatever bodies, reports, clocks, disks and restarts do: one     *)
(* command at a time; a command is on record before a body of it can reach *)
(* the thermostat, and stays there until something was seen of the result; *)
(* "confirmed" is said on evidence, "not delivered" only of a command that *)
(* was never sent; a command on record bars the next one.  How the runtime *)
(* does it is Coordinator.                                                 *)
(***************************************************************************)
CONSTANTS Callers, Commands, None

VARIABLES
  command,  \* the latest command, or None
  sent,     \* a body of it may have reached the thermostat
  held,     \* the thermostat had the value since it was asked for, or sent
  seen,     \* a report shows what the thermostat had since then
  owner,    \* the caller whose command is in progress, or None
  record,   \* the command that a start would find, or None
  outcome   \* of each caller: waiting, cancelling or its last answer

contract == <<command, sent, held, seen, owner, record, outcome>>

Busy    == {"waiting", "cancelling"}
Exposed == sent /\ ~seen

Init ==
  /\ command = None /\ owner = None /\ record = None
  /\ sent = FALSE /\ held = FALSE /\ seen = FALSE
  /\ outcome = [c \in Callers |-> "none"]

-----------------------------------------------------------------------------
(* What becomes of the record when a write is on its way *)

\* A write leaves the record, adds the command in progress, or removes what is
\* not exposed.
MayRecord ==
  \/ record' = record
  \/ owner # None /\ record' = command
  \/ ~Exposed /\ record' = None

-----------------------------------------------------------------------------
(* The callers *)

Ask(c, m) ==
  /\ owner = None /\ record = None /\ outcome[c] \notin Busy
  /\ command' = m /\ owner' = c
  /\ sent' = FALSE /\ held' \in BOOLEAN /\ seen' = FALSE
  /\ outcome' = [outcome EXCEPT ![c] = "waiting"]
  /\ UNCHANGED record

Cancel(c) ==
  /\ outcome[c] = "waiting"
  /\ outcome' = [outcome EXCEPT ![c] = "cancelling"]
  /\ UNCHANGED <<command, sent, held, seen, owner, record>>

\* The cancelled caller withdraws its own command and no other, or leaves it.
Cancelled(c) ==
  /\ outcome[c] \in Busy
  /\ outcome' = [outcome EXCEPT ![c] = "cancelled"]
  /\ owner' = owner \/ (outcome[c] = "cancelling" /\ owner = c /\ owner' = None)
  /\ UNCHANGED <<command, sent, held, seen, record>>

\* The command in progress ends; its caller hears of it unless it was cancelled.
End(result) ==
  /\ owner # None /\ owner' = None
  /\ outcome' = [outcome EXCEPT ![owner] =
                   IF @ = "waiting" THEN result ELSE @]

Succeed ==
  /\ End("confirmed") /\ held /\ seen' = TRUE /\ record' = None
  /\ UNCHANGED <<command, sent, held>>

Supersede ==
  /\ End("state_changed") /\ seen' \in {seen, TRUE} /\ ~(sent /\ ~seen')
  /\ record' = None
  /\ UNCHANGED <<command, sent, held>>

Refuse ==
  /\ ~sent
  /\ End("timeout") \/ End("not_ready")
  /\ UNCHANGED <<command, sent, held, seen, record>>

\* Nobody knows what became of the command: the record says so as long as the
\* thermostat does not.
Doubt ==
  /\ End("outcome_uncertain")
  /\ \/ UNCHANGED <<seen, record>> /\ (record = command \/ ~Exposed)
     \/ record' = command /\ ~sent /\ seen' = FALSE
  /\ UNCHANGED <<command, sent, held>>

Stop ==
  /\ End("stopped")
  /\ UNCHANGED <<command, sent, held, seen, record>>

-----------------------------------------------------------------------------
(* The record and the thermostat *)

Journal ==
  /\ owner # None /\ ~sent
  /\ record' = command /\ seen' = FALSE
  /\ UNCHANGED <<command, sent, held, owner, outcome>>

Settle ==
  /\ MayRecord
  /\ UNCHANGED <<command, sent, held, seen, owner, outcome>>

Send ==
  /\ owner # None /\ record = command /\ ~sent
  /\ sent' = TRUE /\ seen' = FALSE /\ held' \in BOOLEAN
  /\ UNCHANGED <<command, owner, record, outcome>>

\* The thermostat takes the value, for whatever reason.
Take ==
  /\ command # None /\ held' = TRUE
  /\ UNCHANGED <<command, sent, seen, owner, record, outcome>>

See ==
  /\ command # None /\ seen' = TRUE
  /\ UNCHANGED <<command, sent, held, owner, record, outcome>>

\* The process dies, perhaps in a write.
Die ==
  /\ owner' = None /\ MayRecord
  /\ outcome' = [c \in Callers |-> IF outcome[c] \in Busy THEN "lost"
                                   ELSE outcome[c]]
  /\ UNCHANGED <<command, sent, held, seen>>

-----------------------------------------------------------------------------
Next ==
  \/ Settle \/ Take \/ See \/ Journal \/ Send
  \/ Succeed \/ Supersede \/ Refuse \/ Doubt \/ Stop \/ Die
  \/ \E c \in Callers :
       (\E m \in Commands : Ask(c, m)) \/ Cancel(c) \/ Cancelled(c)

Spec == Init /\ [][Next]_contract
=============================================================================
