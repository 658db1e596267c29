---------------------------- MODULE MCTimerQueue ---------------------------
(* An instance of TimerQueue for TLC.                                      *)
EXTENDS TimerQueue
CONSTANTS c1, c2
MCCallers == {c1, c2}
============================================================================
