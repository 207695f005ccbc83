------------------------------ MODULE MCEntry ------------------------------
(***************************************************************************)
(* Entry on small instances; every constant is given by the configuration. *)
(***************************************************************************)
EXTENDS Entry
=============================================================================
