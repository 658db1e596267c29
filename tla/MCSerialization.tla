-------------------------- MODULE MCSerialization --------------------------
(* An instance of Serialization for TLC.                                   *)
EXTENDS Serialization

MCBlobs == {<< >>, <<1>>, <<2, 1>>}

\* Strings that fit, that fit only an empty packet, that no packet holds
\* although MaxStringLength allows them, that it forbids, and one whose length
\* is truncated to zero.
MCStrings ==
    {<< >>, <<1>>, <<2, 2, 2>>} \cup {[i \in 1 .. n |-> 1] : n \in {6, 8, 9}}
============================================================================
