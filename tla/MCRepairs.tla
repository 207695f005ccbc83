----------------------------- MODULE MCRepairs -----------------------------
(***************************************************************************)
(* Repairs on small instances; every constant is given by the              *)
(* configuration.                                                          *)
(***************************************************************************)
EXTENDS Repairs
=============================================================================
