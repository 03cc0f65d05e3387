---------------------------- MODULE MCScheduler ----------------------------
(* The scheduler with a task of each kind. *)
EXTENDS Scheduler
=============================================================================
