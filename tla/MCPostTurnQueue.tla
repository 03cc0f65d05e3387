-------------------------- MODULE MCPostTurnQueue --------------------------
(***************************************************************************)
(* A small queue for TLC: two demands under one watermark key of the       *)
(* maintenance lane, beside two keys of an appraisal lane that has room    *)
(* for one.                                                                *)
(***************************************************************************)
EXTENDS PostTurnQueue

OnePerTick == [l \in {"appraisal", "maintenance"} |-> 1]

MixKeyOf      == [a \in {"a1", "a2", "b1", "c1"} |->
                    CASE a \in {"a1", "a2"} -> "slow" [] a = "b1" -> "fast" [] OTHER -> "more"]
MixInferredAt == [a \in {"a1", "a2", "b1", "c1"} |-> IF a \in {"a1", "b1"} THEN 1 ELSE 2]
=============================================================================
