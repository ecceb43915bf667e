---------------------------- MODULE MCTimerQueue ----------------------------
(* TimerQueue with a few short delays. *)
EXTENDS TimerQueue
=============================================================================
