------------------------- MODULE MCHandoffRecovery -------------------------
(* An instance of HandoffRecovery for TLC. *)
EXTENDS HandoffRecovery

CONSTANTS a, b

LastApart == [t \in Turn |-> IF t = 3 THEN b ELSE a]
=============================================================================
