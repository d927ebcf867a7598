----------------------------- MODULE MCRawSend -----------------------------
(***************************************************************************)
(* Instances of RawSend for TLC.                                           *)
(***************************************************************************)
EXTENDS RawSend

AllSetups == Setup
=============================================================================
