-------------------------- MODULE MCNotifications ---------------------------
(***************************************************************************)
(* An instance of Notifications for TLC: the thread of updateHandler and   *)
(* one that serves requests, beside the Parodus thread.                    *)
(***************************************************************************)
EXTENDS Notifications
=============================================================================
