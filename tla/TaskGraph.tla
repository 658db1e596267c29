----------------------------- MODULE TaskGraph -----------------------------
(***************************************************************************)
(* The immutable task graph of runtime/TaskGraph/TaskGraph.hpp: nodes      *)
(* grouped by phase (phaseRanges), the children of a node as a segment of  *)
(* one edge table (childTaskIds, dependencyOffset, childCount), and the    *)
(* number of parents of every node.  Node i of the table is task i.        *)
(***************************************************************************)
EXTENDS Integers, Sequences, FiniteSets

CONSTANTS
    PhaseCount,   \* RuntimePhaseCountV1
    PhaseOf,      \* PhaseOf[i] = nodes[i].phaseId, for i in 1 .. nodeCount
    Children      \* Children[i] = the segment of childTaskIds of node i

Tasks == 1 .. Len(PhaseOf)
Phases == 0 .. PhaseCount - 1

\* RuntimePhaseId::Input
InputPhase == 0

ChildSet(t) == {Children[t][k] : k \in 1 .. Len(Children[t])}
Parents(t) == {s \in Tasks : t \in ChildSet(s)}

\* TaskNode::parentCount
ParentCount(t) == Cardinality(Parents(t))

\* nodes[0 .. nodeCount-1], and the part of it that phaseRanges[phase] delimits:
\* count nodes behind the first begin ones
AllNodes == [i \in 1 .. Len(PhaseOf) |-> i]
RangeBegin(phase) == Cardinality({t \in Tasks : PhaseOf[t] < phase})
RangeCount(phase) == Cardinality({t \in Tasks : PhaseOf[t] = phase})
PhaseNodes(phase) == [i \in 1 .. RangeCount(phase) |-> RangeBegin(phase) + i]

(* What the graph's builder guarantees and JobDispatch never checks        *)
(* (docs/Layer2/TaskGraph/interface_contract.md): nodes are sorted by      *)
(* phase, no edge leads back to an earlier phase or is listed twice, and   *)
(* the graph is acyclic (its tasks can be ranked).                         *)
ASSUME GraphAssumption ==
    /\ PhaseCount \in Nat \ {0}
    /\ PhaseOf \in Seq(Phases)
    /\ Children \in [Tasks -> Seq(Tasks)]
    /\ \A s, t \in Tasks : s < t => PhaseOf[s] <= PhaseOf[t]
    /\ \A t \in Tasks : \A c \in ChildSet(t) : PhaseOf[t] <= PhaseOf[c]
    /\ \A t \in Tasks : \A j, k \in 1 .. Len(Children[t]) :
            Children[t][j] = Children[t][k] => j = k
    /\ \E rank \in [Tasks -> Tasks] :
            \A t \in Tasks : \A c \in ChildSet(t) : rank[t] < rank[c]
============================================================================
