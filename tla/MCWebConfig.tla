----------------------------- MODULE MCWebConfig -----------------------------
(***************************************************************************)
(* An instance of WebConfig for TLC: a document with two parameters, one   *)
(* with a field too many and one without parameters.                       *)
(***************************************************************************)
EXTENDS WebConfig

CONSTANTS v1, v2, v3

MCDoc == [v \in {v1, v2, v3} |->
             [version |-> v,
              parameters |-> IF v = v3 THEN <<>>
                             ELSE <<[name |-> "p", value |-> "a"],
                                    [name |-> "q", value |-> None]>>,
              plain |-> v # v2]]
=============================================================================
