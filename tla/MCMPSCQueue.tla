---------------------------- MODULE MCMPSCQueue ----------------------------
(* An instance of MPSCQueue for TLC.                                       *)
EXTENDS MPSCQueue
CONSTANTS p1, p2, a, b
MCProducers == {p1, p2}
MCValues == {a, b}
============================================================================
