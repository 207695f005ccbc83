-------------------------- MODULE MCBaselineStore --------------------------
(***************************************************************************)
(* BaselineStore on a small instance.                                      *)
(***************************************************************************)
EXTENDS BaselineStore, TLC

\* Nothing but equality is asked of settings and commands.
Symmetry == Permutations(Settings) \cup Permutations(Commands)
=============================================================================
