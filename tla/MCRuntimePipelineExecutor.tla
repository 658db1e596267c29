--------------------- MODULE MCRuntimePipelineExecutor ---------------------
(* Instances of RuntimePipelineExecutor for TLC.                           *)
EXTENDS RuntimePipelineExecutor, TLC

CONSTANTS w1, w2

MCWorkers == {w1, w2}
WorkerSymmetry == Permutations(MCWorkers)

\* Two tasks in Input, one in Simulation that joins them, one in the last phase
\* that depends on tasks of both: every edge leaves its phase.
CrossPhaseOf == <<0, 0, 1, 2>>
CrossChildren == <<<<3, 4>>, <<3>>, <<4>>, << >>>>

\* 1 -> 2 and 1 -> 3 inside the first phase, 3 -> 4 into the next.
TreePhaseOf == <<0, 0, 0, 1>>
TreeChildren == <<<<2, 3>>, << >>, <<4>>, << >>>>

\* 1 -> 3 -> 4 and 2 -> 4 in one phase: 4 joins two branches.
JoinPhaseOf == <<0, 0, 0, 0>>
JoinChildren == <<<<3>>, <<4>>, <<4>>, << >>>>

\* 3 -> 1 and 3 -> 2 in one phase, the parent behind its children in the node
\* table, so that seeding has passed the children when 3 is enqueued.
ForkPhaseOf == <<0, 0, 0>>
ForkChildren == <<<< >>, << >>, <<1, 2>>>>

MCRegistries == {Tasks, Tasks \ {1}}
============================================================================
