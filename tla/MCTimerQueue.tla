---------------------------- MODULE MCTimerQueue ----------------------------
(* The timer queue with delays of one and two ticks.                       *)
EXTENDS TimerQueue
=============================================================================
