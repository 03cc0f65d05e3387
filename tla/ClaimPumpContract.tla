------------------------- MODULE ClaimPumpContract -------------------------
(***************************************************************************)
(* What a supervisor promises to whoever asks it for a claim pass: passes  *)
(* never overlap, a request that comes during a pass is owed a pass that   *)
(* begins after it, as soon as that one is over, and once the supervisor   *)
(* is closed no pass begins.                                               *)
(***************************************************************************)
VARIABLES
    passing,    \* a claim pass is in flight
    owed,       \* a request came after the pass in flight had begun
    closed      \* the supervisor is stopping

pump == <<passing, owed, closed>>

Init == passing = FALSE /\ owed = FALSE /\ closed = FALSE

Request == /\ ~closed /\ passing
           /\ owed' = TRUE /\ UNCHANGED <<passing, closed>>

BeginPass == /\ ~closed /\ ~passing
             /\ passing' = TRUE /\ owed' = FALSE /\ UNCHANGED closed

EndPass == passing /\ passing' = FALSE /\ UNCHANGED <<owed, closed>>

Close == ~closed /\ closed' = TRUE /\ owed' = FALSE /\ UNCHANGED passing

Next == Request \/ BeginPass \/ EndPass \/ Close

Spec == Init /\ [][Next]_pump /\ WF_pump(owed /\ BeginPass)
=============================================================================
