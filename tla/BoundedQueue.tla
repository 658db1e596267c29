---------------------------- MODULE BoundedQueue ---------------------------
(***************************************************************************)
(* The bounded FIFO as a single consumer sees it: the elements that wait,  *)
(* and the element the consumer was last given.  Unlike BoundedFifo it     *)
(* keeps no history, so a queue of it may be used for ever.                *)
(***************************************************************************)
EXTENDS Naturals, Sequences

CONSTANTS Values, Capacity

VARIABLES
    queue,   \* the elements that wait, the oldest first
    out      \* the element of the last Get

Init == queue = << >>

Put(v) ==
    /\ Len(queue) < Capacity
    /\ queue' = Append(queue, v)
    /\ UNCHANGED out

Get ==
    /\ queue # << >>
    /\ out' = Head(queue)
    /\ queue' = Tail(queue)

Next == (\E v \in Values : Put(v)) \/ Get

Spec == Init /\ [][Next]_<<queue, out>>
============================================================================
