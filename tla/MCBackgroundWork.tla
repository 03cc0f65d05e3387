-------------------------- MODULE MCBackgroundWork --------------------------
(* Instances of BackgroundWork for TLC: a memory job of two supervisors,
   and two compactions that one session was given in the same millisecond,
   beside its foreground turns. *)
EXTENDS BackgroundWork, TLC

CONSTANTS o1, o2, j1, j2, t1, t2, s1, l1

AllInSession    == [j \in Job |-> s1]
AllInTurn       == [j \in Job |-> t1]
TurnPerJob      == (j1 :> t1) @@ (j2 :> t2)
AllMemory       == [j \in Job |-> "memory_extraction"]
AllCompaction   == [j \in Job |-> "auto_compaction"]
AtOnce          == [j \in Job |-> 1]
JobOrder        == [j \in Job |-> IF j = j1 THEN 1 ELSE 2]
OneEffect       == [j \in Job |-> 1]
LeasesInSession == [l \in Lease |-> s1]

Owners == Permutations(Owner)
=============================================================================
