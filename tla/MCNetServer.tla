---------------------------- MODULE MCNetServer ----------------------------
(* An instance of NetServer for TLC.                                       *)
EXTENDS NetServer
CONSTANTS s1, s2
MCSenders == {s1, s2}

\* With and without a payload, four in all so that two wait together, one is
\* dropped and a later one finds room; then one larger than MaxPacketSize = 1
MCPayloadLengths == <<1, 0, 0, 0, 2>>
============================================================================
