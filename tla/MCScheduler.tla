---------------------------- MODULE MCScheduler ----------------------------
(* Scheduler with four thread slots. *)
EXTENDS Scheduler
=============================================================================
