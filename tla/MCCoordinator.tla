--------------------------- MODULE MCCoordinator ---------------------------
(***************************************************************************)
(* Coordinator on small instances.  Each configuration takes one family of *)
(* commands and the device events that matter to it.                       *)
(***************************************************************************)
EXTENDS CoordinatorInvariants, TLC

\* Nothing but equality is asked of callers and values.
Symmetry == Permutations(Callers) \cup Permutations(Values)

\* The thermostat's clock is a tick behind the server's.
OneBehind == -1
=============================================================================
