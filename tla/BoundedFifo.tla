---------------------------- MODULE BoundedFifo ----------------------------
(***************************************************************************)
(* The promise of a bounded FIFO queue, as the clients in src/ rely on it: *)
(* elements are accepted one by one, at most Capacity of them are waiting  *)
(* at any time, and they are taken one by one in the order of acceptance.  *)
(***************************************************************************)
EXTENDS Integers, Sequences

CONSTANTS Values, Capacity

VARIABLES
    accepted,   \* every element ever accepted, in order
    taken       \* how many of them have been taken

Init == accepted = << >> /\ taken = 0

Accept(v) ==
    /\ Len(accepted) - taken < Capacity
    /\ accepted' = Append(accepted, v)
    /\ UNCHANGED taken

\* The element taken is accepted[taken + 1].
Take ==
    /\ taken < Len(accepted)
    /\ taken' = taken + 1
    /\ UNCHANGED accepted

Next == (\E v \in Values : Accept(v)) \/ Take

Spec == Init /\ [][Next]_<<accepted, taken>>
============================================================================
