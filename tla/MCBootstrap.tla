---------------------------- MODULE MCBootstrap ----------------------------
(***************************************************************************)
(* Bootstrap on small instances; every constant is given by the            *)
(* configuration.                                                          *)
(***************************************************************************)
EXTENDS Bootstrap
=============================================================================
