------------------------------ MODULE MCRouter ------------------------------
(***************************************************************************)
(* An instance of Router for TLC.                                          *)
(***************************************************************************)
EXTENDS Router

AllSetups == Setup
=============================================================================
