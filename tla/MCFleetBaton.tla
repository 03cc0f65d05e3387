---------------------------- MODULE MCFleetBaton ----------------------------
(***************************************************************************)
(* A small fleet for TLC: companion a runs as two processes, the second    *)
(* one started with another manifest, and companion b as one.  The first   *)
(* process of a starts drains from two places, its nightly task and a      *)
(* lane.                                                                   *)
(***************************************************************************)
EXTENDS FleetBaton, TLC

CONSTANTS night, lane

(* The two drains of a1 do the same: neither has a name in the specification. *)
SameHome == Permutations({night, lane})

PairInstanceOf  == [d \in Drain |-> IF d \in {night, lane} THEN "a1" ELSE d]
PairCompanionOf == [i \in {"a1", "a2", "b1"} |-> IF i = "b1" THEN "b" ELSE "a"]
PairManifestOf  == [i \in {"a1", "a2", "b1"} |-> IF i = "a2" THEN "m2" ELSE "m1"]
PairOrdinal     == [m \in {"m1", "m2"} |-> [c \in {"a", "b"} |->
                      IF (c = "a") = (m = "m1") THEN 0 ELSE 1]]
=============================================================================
