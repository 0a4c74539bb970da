----------------------------- MODULE MCBSStore -----------------------------
(***************************************************************************)
(* Instances of BSStore for TLC.  In the two-parameter instance k1 has a   *)
(* default in every section and k2 in comcast's only, where the device's   *)
(* own JSON replaces it, and two values differ in case.  In the            *)
(* one-parameter instances k1 has a default for comcast only, so that it   *)
(* loses it when the partner changes; with two images it loses it in the   *)
(* second.                                                                 *)
(***************************************************************************)
EXTENDS BSStore

CONSTANTS k1, k2, v1, v2, V2, comcast, dflt, fw1, fw2

MCPartner == {comcast, dflt}
MCLower == [v \in Data |-> IF v = V2 THEN v2 ELSE v]

TwoParam == {k1, k2}
Two(a, b) == [k \in TwoParam |-> IF k = k1 THEN a ELSE b]
TwoGeneric ==
    [f \in Firmware |->
        [p \in MCPartner |-> IF p = comcast THEN Two(v1, v1) ELSE Two(v1, None)]]

OneParam == {k1}
One(a) == [k \in OneParam |-> a]
OneGeneric ==
    [f \in Firmware |->
        [p \in MCPartner |-> IF p = comcast THEN One(v1) ELSE One(None)]]
ImageGeneric ==
    [f \in Firmware |->
        [p \in MCPartner |-> IF p = comcast /\ f = fw1 THEN One(v1) ELSE One(None)]]
TwoDevice ==
    [f \in Firmware |->
        [p \in MCPartner |-> IF p = comcast THEN Two(None, v2) ELSE Two(None, None)]]

NoDevice == [f \in Firmware |-> [p \in MCPartner |-> NoConfig]]
=============================================================================
