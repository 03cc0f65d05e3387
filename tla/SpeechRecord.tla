---------------------------- MODULE SpeechRecord ----------------------------
(***************************************************************************)
(* What the speaking arbiter's store promises: for each event it records   *)
(* at most one companion as the one who spoke, and never takes it back.    *)
(***************************************************************************)
CONSTANTS Companion, Event

VARIABLE speaker   \* the companion on record for an event, or "nobody"

Init == speaker = [e \in Event |-> "nobody"]

(* A delivered lease is completed. *)
Speak(e, c) ==
  /\ speaker[e] = "nobody"
  /\ speaker' = [speaker EXCEPT ![e] = c]

Next == \E e \in Event, c \in Companion : Speak(e, c)

Spec == Init /\ [][Next]_speaker
=============================================================================
