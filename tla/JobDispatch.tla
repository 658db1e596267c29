---------------------------- MODULE JobDispatch ----------------------------
(***************************************************************************)
(* The task dispatcher of runtime/JobDispatch: JobDispatch.cpp with its    *)
(* WorkerPool and TaskRegistry.                                            *)
(*                                                                         *)
(* The main thread calls Initialize, ExecutePhase and Shutdown; workers    *)
(* take ready tasks, run them, release their successors and count down to  *)
(* the phase barrier.  Every access to an atomic variable or to the ready  *)
(* queue is one action.  The ready queue is the bounded FIFO that          *)
(* MPMCQueue is shown to implement.                                        *)
(***************************************************************************)
EXTENDS TaskGraph

CONSTANTS
    Workers,         \* threads of the WorkerPool
    QueueCapacity,   \* capacity of m_readyQueue (TaskGraphMaxNodesV1)
    Modulus,         \* 2^32: the counters are std::uint32_t
    Registries,      \* sets of registered tasks a TaskRegistry may hold
    NoTask           \* a worker's taskId before its first Dequeue

\* The queue has a cell for every node a TaskGraph can hold, and far fewer nodes
\* exist than a counter can count.
ASSUME DispatchAssumption ==
    /\ IsFiniteSet(Workers)
    /\ QueueCapacity \in Nat /\ Len(PhaseOf) <= QueueCapacity
    /\ Modulus \in Nat /\ Len(PhaseOf) < Modulus

VARIABLES
    running,         \* JobDispatch::m_running
    poolRunning,     \* WorkerPool::m_running
    registry,        \* tasks with a function in *m_registry ({}: nullptr)
    currentPhase,    \* m_currentPhase
    remaining,       \* m_runtimeState[t].remainingDependencies
    readyQueue,      \* m_readyQueue
    active,          \* m_activeTaskCount
    epoch,           \* m_phaseEpoch
    main,            \* the main thread: pc, nodes still to scan, local epoch
    worker,          \* each worker: pc, taskId, local phase, children left
    executed         \* history: how often each task ran since the tick began

vars == <<running, poolRunning, registry, currentPhase, remaining, readyQueue,
          active, epoch, main, worker, executed>>

Inc(n) == (n + 1) % Modulus
Dec(n) == (n + Modulus - 1) % Modulus

MainAt(label) == main.pc = label
MainGoto(label) == main' = [main EXCEPT !.pc = label]
WorkerAt(w, label) == worker[w].pc = label
WorkerGoto(w, label) == worker' = [worker EXCEPT ![w].pc = label]

IdleMain == [pc |-> "idle", todo |-> << >>, epoch |-> 0]
FreshWorker(label) == [pc |-> label, task |-> NoTask, phase |-> InputPhase, todo |-> << >>]

Init ==
    /\ running = FALSE
    /\ poolRunning = FALSE
    /\ registry = {}
    /\ currentPhase = InputPhase
    /\ remaining = [t \in Tasks |-> 0]
    /\ readyQueue = << >>
    /\ active = 0
    /\ epoch = 0
    /\ main = IdleMain
    /\ worker = [w \in Workers |-> FreshWorker("exited")]
    /\ executed = [t \in Tasks |-> 0]

\* A failed Enqueue trips an assert in debug builds; in release builds the
\* task is dropped and counted all the same.  The ready queue is the FIFO that
\* MPMCQueue implements, and here it refuses only when QueueCapacity tasks wait.
\* MPMCQueue::Enqueue also refuses while the consumer of the lap before has not
\* released the slot (MPMCQueue.hpp:85).  That consumer is a worker inside
\* Dequeue with a task of this phase: the phase does not end without it, and with
\* a cell per node and every task enqueued once the phase needs no position
\* QueueCapacity further on.
EnqueueReady(t) ==
    readyQueue' = IF Len(readyQueue) < QueueCapacity THEN Append(readyQueue, t)
                                                     ELSE readyQueue

----------------------------------------------------------------------------
(* Main thread: Initialize                                                 *)

\* TaskRegistry::IsRegistered(id): Resolve(id) # nullptr
IsRegistered(t, reg) == t \in reg

\* TaskRegistry::Validate(graph)
Validate(reg) == \A t \in Tasks : IsRegistered(t, reg)

\* Returns true: pointers set, WorkerPool::Start spawns the workers.
Initialize(reg) ==
    /\ MainAt("idle")
    /\ ~running
    /\ Validate(reg)
    /\ registry' = reg
    /\ poolRunning' = TRUE
    /\ worker' = [w \in Workers |-> FreshWorker("loop")]
    /\ running' = TRUE
    /\ UNCHANGED <<currentPhase, remaining, readyQueue, active, epoch, main, executed>>

\* Returns false: already running, or a task of the graph has no function.
InitializeRefused(reg) ==
    /\ MainAt("idle")
    /\ running \/ ~Validate(reg)
    /\ UNCHANGED vars

----------------------------------------------------------------------------
(* Main thread: ExecutePhase                                               *)

\* Returns false because the dispatcher is not running.
ExecutePhaseRefused ==
    /\ MainAt("idle")
    /\ ~running
    /\ UNCHANGED vars

\* m_currentPhase.store(phaseId); the counters are rebuilt for Input only.
ExecutePhaseCall(phase) ==
    /\ MainAt("idle")
    /\ running
    /\ currentPhase' = phase
    /\ IF phase = InputPhase
       THEN /\ main' = [main EXCEPT !.pc = "build", !.todo = AllNodes]
            /\ executed' = [t \in Tasks |-> 0]
       ELSE /\ main' = [main EXCEPT !.pc = "seed", !.todo = PhaseNodes(phase)]
            /\ UNCHANGED executed
    /\ UNCHANGED <<running, poolRunning, registry, remaining, readyQueue, active,
                   epoch, worker>>

\* One iteration of BuildRuntimeState.
BuildNode ==
    /\ MainAt("build")
    /\ main.todo # << >>
    /\ LET t == Head(main.todo)
       IN remaining' = [remaining EXCEPT ![t] = ParentCount(t)]
    /\ main' = [main EXCEPT !.todo = Tail(@)]
    /\ UNCHANGED <<running, poolRunning, registry, currentPhase, readyQueue,
                   active, epoch, worker, executed>>

\* SeedReadyQueue loads the phase that this thread stored.
BuildDone ==
    /\ MainAt("build")
    /\ main.todo = << >>
    /\ main' = [main EXCEPT !.pc = "seed", !.todo = PhaseNodes(currentPhase)]
    /\ UNCHANGED <<running, poolRunning, registry, currentPhase, remaining,
                   readyQueue, active, epoch, worker, executed>>

\* remainingDependencies.load() == 0 ?
SeedCheck ==
    /\ MainAt("seed")
    /\ main.todo # << >>
    /\ IF remaining[Head(main.todo)] = 0
       THEN MainGoto("seedEnqueue")
       ELSE main' = [main EXCEPT !.todo = Tail(@)]
    /\ UNCHANGED <<running, poolRunning, registry, currentPhase, remaining,
                   readyQueue, active, epoch, worker, executed>>

\* m_readyQueue.Enqueue(node.id), before the task is counted
SeedEnqueue ==
    /\ MainAt("seedEnqueue")
    /\ EnqueueReady(Head(main.todo))
    /\ MainGoto("seedAdd")
    /\ UNCHANGED <<running, poolRunning, registry, currentPhase, remaining,
                   active, epoch, worker, executed>>

\* Mutant: the loop over the phase's nodes does not advance.
SeedAddRepeats ==
    /\ MainAt("seedAdd")
    /\ active' = Inc(active)
    /\ MainGoto("seed")
    /\ UNCHANGED <<running, poolRunning, registry, currentPhase, remaining,
                   readyQueue, epoch, worker, executed>>

\* m_activeTaskCount.fetch_add(1)
SeedAdd ==
    /\ MainAt("seedAdd")
    /\ active' = Inc(active)
    /\ main' = [main EXCEPT !.pc = "seed", !.todo = Tail(@)]
    /\ UNCHANGED <<running, poolRunning, registry, currentPhase, remaining,
                   readyQueue, epoch, worker, executed>>

SeedDone ==
    /\ MainAt("seed")
    /\ main.todo = << >>
    /\ MainGoto("waitActive")
    /\ UNCHANGED <<running, poolRunning, registry, currentPhase, remaining,
                   readyQueue, active, epoch, worker, executed>>

\* while (m_activeTaskCount.load() != 0); at zero ExecutePhase returns true.
WaitActive ==
    /\ MainAt("waitActive")
    /\ main' = IF active = 0 THEN IdleMain ELSE [main EXCEPT !.pc = "waitEpoch"]
    /\ UNCHANGED <<running, poolRunning, registry, currentPhase, remaining,
                   readyQueue, active, epoch, worker, executed>>

\* epoch = m_phaseEpoch.load()
WaitEpoch ==
    /\ MainAt("waitEpoch")
    /\ main' = [main EXCEPT !.pc = "waitRecheck", !.epoch = epoch]
    /\ UNCHANGED <<running, poolRunning, registry, currentPhase, remaining,
                   readyQueue, active, epoch, worker, executed>>

\* Mutant: no second look at the counter after the epoch was read.
WaitRecheckDropped ==
    /\ MainAt("waitRecheck")
    /\ MainGoto("waitBlock")
    /\ UNCHANGED <<running, poolRunning, registry, currentPhase, remaining,
                   readyQueue, active, epoch, worker, executed>>

\* The double check before blocking; break at zero.
WaitRecheck ==
    /\ MainAt("waitRecheck")
    /\ main' = IF active = 0 THEN IdleMain ELSE [main EXCEPT !.pc = "waitBlock"]
    /\ UNCHANGED <<running, poolRunning, registry, currentPhase, remaining,
                   readyQueue, active, epoch, worker, executed>>

\* Mutant: a changed epoch is taken for the end of the phase.
WaitBlockTrustsEpoch ==
    /\ MainAt("waitBlock")
    /\ main' = IF epoch = main.epoch THEN [main EXCEPT !.pc = "asleep"] ELSE IdleMain
    /\ UNCHANGED <<running, poolRunning, registry, currentPhase, remaining,
                   readyQueue, active, epoch, worker, executed>>

\* m_phaseEpoch.wait(epoch): compare and block in one step.
WaitBlock ==
    /\ MainAt("waitBlock")
    /\ MainGoto(IF epoch = main.epoch THEN "asleep" ELSE "waitActive")
    /\ UNCHANGED <<running, poolRunning, registry, currentPhase, remaining,
                   readyQueue, active, epoch, worker, executed>>

----------------------------------------------------------------------------
(* Main thread: Shutdown                                                   *)

\* m_running.exchange(false); m_workerPool.Stop()
ShutdownCall ==
    /\ MainAt("idle")
    /\ running
    /\ running' = FALSE
    /\ poolRunning' = FALSE
    /\ MainGoto("join")
    /\ UNCHANGED <<registry, currentPhase, remaining, readyQueue, active, epoch,
                   worker, executed>>

\* Shutdown of a dispatcher that is not running returns at once.
ShutdownRefused ==
    /\ MainAt("idle")
    /\ ~running
    /\ UNCHANGED vars

\* Mutant: the reset does not wait for the workers.
ShutdownResetWithoutJoin ==
    /\ MainAt("join")
    /\ active' = 0
    /\ epoch' = 0
    /\ currentPhase' = InputPhase
    /\ remaining' = [t \in Tasks |-> 0]
    /\ registry' = {}
    /\ main' = IdleMain
    /\ UNCHANGED <<running, poolRunning, readyQueue, worker, executed>>

\* m_workerPool.Join() returns
Joined == \A w \in Workers : WorkerAt(w, "exited")

\* Shutdown after Join: everything is reset but the ready queue.
ShutdownReset ==
    /\ MainAt("join")
    /\ Joined
    /\ active' = 0
    /\ epoch' = 0
    /\ currentPhase' = InputPhase
    /\ remaining' = [t \in Tasks |-> 0]
    /\ registry' = {}
    /\ main' = IdleMain
    /\ UNCHANGED <<running, poolRunning, readyQueue, worker, executed>>

----------------------------------------------------------------------------
(* A worker: WorkerLoop, ExecuteTask, OnTaskCompleted                      *)

\* Mutant: the stop flag is only looked at when there is no work.
LoopCheckIgnoresStop(w) ==
    /\ WorkerAt(w, "loop")
    /\ worker' = [worker EXCEPT ![w] = FreshWorker("dequeue")]
    /\ UNCHANGED <<running, poolRunning, registry, currentPhase, remaining,
                   readyQueue, active, epoch, main, executed>>

\* while (m_running.load())
LoopCheck(w) ==
    /\ WorkerAt(w, "loop")
    /\ worker' = [worker EXCEPT ![w] =
                    FreshWorker(IF poolRunning THEN "dequeue" ELSE "exited")]
    /\ UNCHANGED <<running, poolRunning, registry, currentPhase, remaining,
                   readyQueue, active, epoch, main, executed>>

\* Dequeue fails on an empty queue: yield and loop.
Dequeue(w) ==
    /\ WorkerAt(w, "dequeue")
    /\ IF readyQueue = << >>
       THEN WorkerGoto(w, "loop") /\ UNCHANGED readyQueue
       ELSE /\ worker' = [worker EXCEPT ![w].pc = "execute",
                                        ![w].task = Head(readyQueue)]
            /\ readyQueue' = Tail(readyQueue)
    /\ UNCHANGED <<running, poolRunning, registry, currentPhase, remaining,
                   active, epoch, main, executed>>

\* The task function runs to its end; an unregistered task does nothing.
ExecuteTask(w) ==
    /\ WorkerAt(w, "execute")
    /\ executed' = IF IsRegistered(worker[w].task, registry)
                   THEN [executed EXCEPT ![worker[w].task] = @ + 1]
                   ELSE executed
    /\ WorkerGoto(w, "release")
    /\ UNCHANGED <<running, poolRunning, registry, currentPhase, remaining,
                   readyQueue, active, epoch, main>>

\* ReleaseSuccessors: m_currentPhase is read once, before the children.
ReleaseBegin(w) ==
    /\ WorkerAt(w, "release")
    /\ worker' = [worker EXCEPT ![w].pc = "child",
                                ![w].phase = currentPhase,
                                ![w].todo = Children[worker[w].task]]
    /\ UNCHANGED <<running, poolRunning, registry, currentPhase, remaining,
                   readyQueue, active, epoch, main, executed>>

\* Mutant: the child's phase is not looked at.
ReleaseChildOfAnyPhase(w) ==
    /\ WorkerAt(w, "child")
    /\ worker[w].todo # << >>
    /\ LET child == Head(worker[w].todo)
       IN /\ remaining' = [remaining EXCEPT ![child] = Dec(@)]
          /\ IF remaining[child] = 1
             THEN WorkerGoto(w, "enqueue")
             ELSE worker' = [worker EXCEPT ![w].todo = Tail(@)]
    /\ UNCHANGED <<running, poolRunning, registry, currentPhase, readyQueue,
                   active, epoch, main, executed>>

\* remainingDependencies.fetch_sub(1); the child is ready if it was the last
\* dependency and the child belongs to the phase read above.
ReleaseChild(w) ==
    /\ WorkerAt(w, "child")
    /\ worker[w].todo # << >>
    /\ LET child == Head(worker[w].todo)
       IN /\ remaining' = [remaining EXCEPT ![child] = Dec(@)]
          /\ IF remaining[child] = 1 /\ PhaseOf[child] = worker[w].phase
             THEN WorkerGoto(w, "enqueue")
             ELSE worker' = [worker EXCEPT ![w].todo = Tail(@)]
    /\ UNCHANGED <<running, poolRunning, registry, currentPhase, readyQueue,
                   active, epoch, main, executed>>

\* m_readyQueue.Enqueue(child), before the child is counted
ReleaseEnqueue(w) ==
    /\ WorkerAt(w, "enqueue")
    /\ EnqueueReady(Head(worker[w].todo))
    /\ WorkerGoto(w, "add")
    /\ UNCHANGED <<running, poolRunning, registry, currentPhase, remaining,
                   active, epoch, main, executed>>

\* Mutant: a released child is not counted.
ReleaseAddForgotten(w) ==
    /\ WorkerAt(w, "add")
    /\ worker' = [worker EXCEPT ![w].pc = "child", ![w].todo = Tail(@)]
    /\ UNCHANGED <<running, poolRunning, registry, currentPhase, remaining,
                   readyQueue, active, epoch, main, executed>>

\* m_activeTaskCount.fetch_add(1)
ReleaseAdd(w) ==
    /\ WorkerAt(w, "add")
    /\ active' = Inc(active)
    /\ worker' = [worker EXCEPT ![w].pc = "child", ![w].todo = Tail(@)]
    /\ UNCHANGED <<running, poolRunning, registry, currentPhase, remaining,
                   readyQueue, epoch, main, executed>>

\* OnTaskCompleted: m_activeTaskCount.fetch_sub(1)
Complete(w) ==
    /\ WorkerAt(w, "child")
    /\ worker[w].todo = << >>
    /\ active' = Dec(active)
    /\ WorkerGoto(w, IF active = 1 THEN "bump" ELSE "loop")
    /\ UNCHANGED <<running, poolRunning, registry, currentPhase, remaining,
                   readyQueue, epoch, main, executed>>

\* The last task of the phase: m_phaseEpoch.fetch_add(1)
BumpEpoch(w) ==
    /\ WorkerAt(w, "bump")
    /\ epoch' = epoch + 1
    /\ WorkerGoto(w, "notify")
    /\ UNCHANGED <<running, poolRunning, registry, currentPhase, remaining,
                   readyQueue, active, main, executed>>

\* m_phaseEpoch.notify_all(): a blocked main thread compares again.
NotifyAll(w) ==
    /\ WorkerAt(w, "notify")
    /\ main' = IF MainAt("asleep") THEN [main EXCEPT !.pc = "waitBlock"] ELSE main
    /\ WorkerGoto(w, "loop")
    /\ UNCHANGED <<running, poolRunning, registry, currentPhase, remaining,
                   readyQueue, active, epoch, executed>>

----------------------------------------------------------------------------
\* The main thread inside ExecutePhase or Shutdown.
MainStep ==
    \/ BuildNode \/ BuildDone
    \/ SeedCheck \/ SeedEnqueue \/ SeedAdd \/ SeedDone
    \/ WaitActive \/ WaitEpoch \/ WaitRecheck \/ WaitBlock
    \/ ShutdownReset

WorkerStep(w) ==
    \/ LoopCheck(w) \/ Dequeue(w) \/ ExecuteTask(w)
    \/ ReleaseBegin(w) \/ ReleaseChild(w) \/ ReleaseEnqueue(w) \/ ReleaseAdd(w)
    \/ Complete(w) \/ BumpEpoch(w) \/ NotifyAll(w)

----------------------------------------------------------------------------
(* Properties of the dispatcher.                                           *)

HoldsTask(w) == worker[w].pc \in {"execute", "release", "child", "enqueue", "add"}

\* Tasks that are in the ready queue but not yet in m_activeTaskCount.
PendingAdds ==
    Cardinality({w \in Workers : WorkerAt(w, "add")}) + (IF MainAt("seedAdd") THEN 1 ELSE 0)

(* The barrier's counter is exact up to the adds that lag behind their     *)
(* Enqueue, wrap-around of the unsigned counter included: no task is       *)
(* counted twice or lost between SeedReadyQueue, ReleaseSuccessors and     *)
(* OnTaskCompleted.  It presumes that no Enqueue is refused: a task that   *)
(* is dropped (JobDispatch.cpp:94, :126) is counted and never completes.   *)
Accounting ==
    running => (active + PendingAdds) % Modulus
             = (Len(readyQueue) + Cardinality({w \in Workers : HoldsTask(w)})) % Modulus

(* Rule 9 of behavior.md: when ExecutePhase has returned, the ready queue  *)
(* is empty and no worker still holds a task.                              *)
BarrierComplete ==
    MainAt("idle") => readyQueue = << >> /\ \A w \in Workers : ~HoldsTask(w)

(* Rule 4, "Execution before dependency completion is prohibited".         *)
DependencyOrder ==
    \A w \in Workers :
        WorkerAt(w, "execute") => \A p \in Parents(worker[w].task) : executed[p] >= 1

(* The asserts at JobDispatch.cpp:94 and :126: an Enqueue of the main      *)
(* thread or of a worker always finds room.                                *)
ReadyQueueHasRoom ==
    MainAt("seedEnqueue") \/ (\E w \in Workers : WorkerAt(w, "enqueue"))
        => Len(readyQueue) < QueueCapacity

(* "FIX 3" at JobDispatch.cpp:209 (Shutdown clears all run-time state so   *)
(* that the dispatcher can be initialized again): nothing of the last      *)
(* session is left for the next one.                                       *)
ShutdownLeavesNothing ==
    MainAt("idle") /\ ~running =>
        /\ readyQueue = << >>
        /\ active = 0
        /\ \A w \in Workers : WorkerAt(w, "exited")
============================================================================
