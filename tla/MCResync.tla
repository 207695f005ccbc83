------------------------------ MODULE MCResync ------------------------------
(***************************************************************************)
(* Resync on small instances; every constant is given by the               *)
(* configuration.                                                          *)
(***************************************************************************)
EXTENDS Resync
=============================================================================
