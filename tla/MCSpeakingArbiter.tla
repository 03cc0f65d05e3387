------------------------- MODULE MCSpeakingArbiter -------------------------
(* An instance of SpeakingArbiter for TLC. *)
EXTENDS SpeakingArbiter

CONSTANTS c1, c2, e1, d1, d2, d3

(* d1 and d3 are drives of c1 on e1; d2 is c2's on e1. *)
TwoCompanions   == [d \in Drive |-> IF d = d2 THEN c2 ELSE c1]
OneEvent        == [d \in Drive |-> e1]
Order           == [c \in Companion |-> IF c = c1 THEN 1 ELSE 0]
=============================================================================
