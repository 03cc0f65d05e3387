------------------------ MODULE MCProtectedMessages ------------------------
(* Two messages for TLC; the gateway delivers the first one twice. *)
EXTENDS ProtectedMessages

CONSTANTS m1, m2, a1

OneAuthor   == [m \in Message |-> "one"]
FirstTwice  == [m \in Message |-> IF m = m1 THEN 2 ELSE 1]
Protecting  == [a \in Activity |-> "do_not_disturb"]
=============================================================================
