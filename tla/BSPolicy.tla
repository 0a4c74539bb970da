----------------------------- MODULE BSPolicy -----------------------------
(***************************************************************************)
(* What the bootstrap store promises about who decides a parameter's       *)
(* value.  A parameter belongs to nobody, to the firmware's defaults, to   *)
(* RFC or to WebPA.  Only WebPA takes a parameter from WebPA.  Ownership   *)
(* goes back to the defaults when an RFC run withdraws a value, and is     *)
(* forgotten, for all parameters at once, when the partner changes.  What  *)
(* is on disk may lag behind, and is what a boot brings back; a power loss *)
(* in the middle of a write may forget some of it, and hands nothing over. *)
(***************************************************************************)
CONSTANT Key

VARIABLES
    owner,  \* who decides each parameter
    saved   \* the same, as the disk has it

vars == <<owner, saved>>

Owners == {"DEFAULT", "RFC", "WEBPA"}

Nobody == [k \in Key |-> "NONE"]

Init == owner = Nobody /\ saved = Nobody

MayClaim(who, from) ==
    \/ who = "WEBPA"
    \/ who = "RFC" /\ from # "WEBPA"
    \/ who = "DEFAULT" /\ from = "NONE"

(* A claim may fail to reach the disk.                                     *)
Claim(k, who) ==
    /\ MayClaim(who, owner[k])
    /\ owner' = [owner EXCEPT ![k] = who]
    /\ saved' \in {saved, owner'}

Drop(S) ==
    /\ \A k \in S : owner[k] = "DEFAULT"
    /\ owner' = [k \in Key |-> IF k \in S THEN "NONE" ELSE owner[k]]
    /\ UNCHANGED saved

Withdraw(S) ==
    /\ \A k \in S : owner[k] \in {"DEFAULT", "RFC"}
    /\ owner' = [k \in Key |-> IF k \in S THEN "DEFAULT" ELSE owner[k]]
    /\ UNCHANGED saved

Forget == owner' = Nobody /\ saved' = Nobody

(* The disk is brought up to date, or cannot be written.                   *)
Save == UNCHANGED owner /\ saved' \in {saved, owner}

Boot == owner' = saved /\ UNCHANGED saved

(* The power fails while o is written.                                     *)
Tear(S, o) ==
    /\ saved' = [k \in Key |-> IF k \in S THEN "NONE" ELSE o[k]]
    /\ owner' = saved'

TearClaim(S, k, who) ==
    MayClaim(who, owner[k]) /\ Tear(S, [owner EXCEPT ![k] = who])

Next ==
    \/ Save \/ Boot \/ Forget
    \/ \E k \in Key, who \in Owners : Claim(k, who)
    \/ \E S \in SUBSET Key : Drop(S) \/ Withdraw(S)
    \/ \E S \in SUBSET Key : Tear(S, owner)
    \/ \E S \in SUBSET Key, k \in Key, who \in Owners : TearClaim(S, k, who)

Spec == Init /\ [][Next]_vars
=============================================================================
