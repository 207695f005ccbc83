-------------------------- MODULE MCRequestServer --------------------------
(***************************************************************************)
(* RequestServer on small instances; every constant is given by the        *)
(* configuration.                                                          *)
(***************************************************************************)
EXTENDS RequestServer
=============================================================================
