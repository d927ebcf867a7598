----------------------------- MODULE MCBlockMap -----------------------------
(***************************************************************************)
(* Instances of BlockMap for TLC.                                          *)
(***************************************************************************)
EXTENDS BlockMap

AllSetups == Setup
Registers == [kind : {"registers"}, pdu : {FALSE}]
=============================================================================
