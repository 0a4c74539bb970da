---------------------------- MODULE MCHostIfMain ----------------------------
(***************************************************************************)
(* The instance of HostIfMain for TLC.                                     *)
(***************************************************************************)
EXTENDS HostIfMain
=============================================================================
