----------------------- MODULE RuntimePipelineExecutor ---------------------
(***************************************************************************)
(* RuntimePipelineExecutor.cpp driving JobDispatch: the composition that   *)
(* runs one tick after another.  Everything here happens on the one        *)
(* runtime thread, so the executor's steps are steps of JobDispatch's main *)
(* thread.                                                                 *)
(*                                                                         *)
(* An executor object is initialized once; after Shutdown the application  *)
(* may construct another one over the same JobDispatch.  The owner of the  *)
(* JobDispatch may also shut it down directly, which the executor meets as *)
(* a DispatchFailure.                                                      *)
(***************************************************************************)
EXTENDS JobDispatch

CONSTANTS
    MaxTicks,       \* bound: ExecutePipeline calls
    MaxExecutors    \* bound: RuntimePipelineExecutor objects constructed

VARIABLES
    state,          \* m_state
    nextPhase,      \* the loop over m_pipeline: index of the next phase
    result,         \* what the last ExecutePipeline returned
    ticks,          \* ExecutePipeline calls so far
    executors       \* executors constructed so far

pipelineVars == <<state, nextPhase, result, ticks, executors>>
allVars == <<vars, pipelineVars>>

PipelineInit ==
    /\ Init
    /\ state = "Created"
    /\ nextPhase = 0
    /\ result = "none"
    /\ ticks = 0
    /\ executors = 1

\* Initialize(): the state moves on only if JobDispatch::Initialize succeeds.
PipelineInitialize(reg) ==
    /\ state = "Created"
    /\ \/ Initialize(reg) /\ state' = "Initialized"
       \/ InitializeRefused(reg) /\ UNCHANGED state
    /\ UNCHANGED <<nextPhase, result, ticks, executors>>

\* ExecutePipeline() in a state it accepts on the runtime thread.
ExecutePipeline ==
    /\ MainAt("idle")
    /\ state = "Initialized"
    /\ ticks < MaxTicks
    /\ ticks' = ticks + 1
    /\ state' = "Running"
    /\ nextPhase' = 0
    /\ result' = "none"
    /\ UNCHANGED <<vars, executors>>

\* for (phase : m_pipeline) ExecutePhase(phase): the call into JobDispatch.
PipelinePhase ==
    /\ state = "Running"
    /\ nextPhase \in Phases
    /\ ExecutePhaseCall(nextPhase)
    /\ nextPhase' = nextPhase + 1
    /\ UNCHANGED <<state, result, ticks, executors>>

\* The fail-fast branch.
PipelinePhaseFails ==
    /\ state = "Running"
    /\ nextPhase \in Phases
    /\ ExecutePhaseRefused
    /\ state' = "Initialized"
    /\ result' = "DispatchFailure"
    /\ UNCHANGED <<nextPhase, ticks, executors>>

\* The last phase has returned.
PipelineReturns ==
    /\ state = "Running"
    /\ MainAt("idle")
    /\ nextPhase \notin Phases
    /\ state' = "Initialized"
    /\ result' = "Success"
    /\ UNCHANGED <<vars, nextPhase, ticks, executors>>

\* Shutdown(): Stopping until JobDispatch::Shutdown returns, then Stopped.
PipelineShutdown ==
    /\ state \in {"Created", "Initialized"}
    /\ \/ ShutdownCall /\ state' = "Stopping"
       \/ ShutdownRefused /\ state' = "Stopped"
    /\ UNCHANGED <<nextPhase, result, ticks, executors>>

PipelineStopped ==
    /\ state = "Stopping"
    /\ MainAt("idle")
    /\ state' = "Stopped"
    /\ UNCHANGED <<vars, nextPhase, result, ticks, executors>>

\* The constructor of another executor over the same JobDispatch.
Construct ==
    /\ state = "Stopped"
    /\ executors < MaxExecutors
    /\ executors' = executors + 1
    /\ state' = "Created"
    /\ nextPhase' = 0
    /\ result' = "none"
    /\ UNCHANGED <<vars, ticks>>

\* JobDispatch::Shutdown called by the owner of the JobDispatch.
OwnerShutdown ==
    /\ state = "Initialized"
    /\ ShutdownCall
    /\ UNCHANGED pipelineVars

PipelineStep ==
    \/ PipelinePhase \/ PipelinePhaseFails \/ PipelineReturns \/ PipelineStopped
    \/ MainStep /\ UNCHANGED pipelineVars

PipelineNext ==
    \/ \E reg \in Registries : PipelineInitialize(reg)
    \/ ExecutePipeline \/ PipelineShutdown \/ Construct \/ OwnerShutdown
    \/ PipelineStep
    \/ \E w \in Workers : WorkerStep(w) /\ UNCHANGED pipelineVars

PipelineSpec == PipelineInit /\ [][PipelineNext]_allVars

(* A call that was made is carried through: the operating system schedules *)
(* every thread and task functions return.  Which calls are made is up to  *)
(* the application.                                                        *)
PipelineFairness ==
    /\ WF_allVars(PipelineStep)
    /\ \A w \in Workers : WF_allVars(WorkerStep(w) /\ UNCHANGED pipelineVars)

FairPipelineSpec == PipelineSpec /\ PipelineFairness
----------------------------------------------------------------------------
(* The schedule a tick promises, with the tasks' executions as its steps.  *)
Schedule == INSTANCE PhaseSchedule WITH phase <- currentPhase, runs <- executed
FollowsSchedule == Schedule!Spec

(* The generation barrier of JobDispatch.hpp loses no wakeup: a tick that  *)
(* was started ends, whatever the order of count, epoch and notification.  *)
TickEnds == (state = "Running") ~> (state = "Initialized")

(* WorkerPool::Join comes back: every worker sees the stop flag and leaves *)
(* its loop, tasks in hand finished first.                                 *)
ShutdownEnds == (MainAt("join")) ~> (MainAt("idle"))
============================================================================
