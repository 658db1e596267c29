-------------------------- MODULE MCTickScheduler --------------------------
(* An instance of TickScheduler for TLC.                                   *)
EXTENDS TickScheduler
CONSTANTS c1, c2
MCCallers == {c1, c2}
============================================================================
