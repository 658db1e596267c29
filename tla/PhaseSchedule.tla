--------------------------- MODULE PhaseSchedule ---------------------------
(***************************************************************************)
(* What a tick promises: the phases are entered in order, each after every *)
(* task of the earlier ones has run, and every task runs exactly once, in  *)
(* its own phase, after all of its parents.                                *)
(***************************************************************************)
EXTENDS TaskGraph

VARIABLES
    phase,     \* the phase that may execute tasks
    runs       \* how often each task ran in this tick

NothingRan == \A t \in Tasks : runs[t] = 0
AllRan(ph) == \A t \in Tasks : PhaseOf[t] <= ph => runs[t] = 1

Init == phase = InputPhase /\ runs = [t \in Tasks |-> 0]

\* A tick begins when nothing of the last one is left to run.
BeginTick ==
    /\ NothingRan \/ AllRan(PhaseCount - 1)
    /\ phase' = InputPhase
    /\ runs' = [t \in Tasks |-> 0]

NextPhase ==
    /\ phase + 1 \in Phases
    /\ AllRan(phase)
    /\ phase' = phase + 1
    /\ UNCHANGED runs

Run(t) ==
    /\ PhaseOf[t] = phase
    /\ runs[t] = 0
    /\ \A p \in Parents(t) : runs[p] = 1
    /\ runs' = [runs EXCEPT ![t] = 1]
    /\ UNCHANGED phase

\* Between ticks the schedule may go back to the start.
Rewind ==
    /\ NothingRan \/ AllRan(PhaseCount - 1)
    /\ phase' = InputPhase
    /\ UNCHANGED runs

Next == BeginTick \/ NextPhase \/ (\E t \in Tasks : Run(t)) \/ Rewind

Spec == Init /\ [][Next]_<<phase, runs>>
============================================================================
