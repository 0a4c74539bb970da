---------------------------- MODULE MCRFCStore ----------------------------
(***************************************************************************)
(* Instance of RFCStore for TLC: the account id, a parameter with a        *)
(* default and one that is not persistent.                                 *)
(***************************************************************************)
EXTENDS RFCStore

CONSTANTS k1, np, v1

MCKey == {AccountId, k1}
MCNonPersistent == {np}
MCLower == [v \in Value |-> v]
MCDefaults == [k \in AllKeys |-> IF k = k1 THEN v1 ELSE None]
MCPatterns == {{k1}, {AccountId, k1}}
=============================================================================
