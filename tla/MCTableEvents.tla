--------------------------- MODULE MCTableEvents ---------------------------
(***************************************************************************)
(* An instance of TableEvents for TLC: Ethernet interfaces and discovered  *)
(* Bluetooth devices, whose resets wait for the visit.                     *)
(***************************************************************************)
EXTENDS TableEvents

CONSTANTS ethernet, bluetooth

MCLocked == <<ethernet, bluetooth>>
=============================================================================
