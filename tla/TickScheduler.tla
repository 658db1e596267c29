--------------------------- MODULE TickScheduler ---------------------------
(***************************************************************************)
(* runtime/TickScheduler/TickScheduler.cpp driving the TimerQueue.         *)
(*                                                                         *)
(* All calls are made on the one runtime thread.  Shutdown is called       *)
(* between ticks or, the only way to end RunUntilStopped, from a timer     *)
(* callback in the middle of a tick.  The clock advances at any time, so a *)
(* tick may take longer than its interval.  DispatchPipeline has an empty  *)
(* body in the code and no step here.                                      *)
(***************************************************************************)
EXTENDS TimerQueue

CONSTANT TickInterval    \* m_config.tickInterval
ASSUME TickIntervalAssumption == TickInterval \in Nat \ {0}

VARIABLES
    state,           \* m_state
    mode,            \* m_context.mode
    tickId,          \* m_context.tickId
    stopRequested,   \* m_stopRequested
    nextTickTime,    \* m_nextTickTime
    loop,            \* the runtime thread: where it is, and who called RunOneTick
    anchor           \* history: the time of Initialize

schedulerVars == <<state, mode, tickId, stopRequested, nextTickTime, loop, anchor>>
allVars == <<timerVars, schedulerVars>>

SchedulerInit ==
    /\ TimerInit
    /\ state = "Created"
    /\ mode = "Initializing"
    /\ tickId = 0
    /\ stopRequested = FALSE
    /\ nextTickTime = 0
    /\ loop = [pc |-> "out", caller |-> "out"]
    /\ anchor = 0

LoopAt(pc) == loop.pc = pc
LoopGoto(pc) == loop' = [loop EXCEPT !.pc = pc]

\* Initialize()
SchedulerInitialize ==
    /\ LoopAt("out")
    /\ state = "Created"
    /\ tickId' = 0
    /\ mode' = "Initializing"
    /\ stopRequested' = FALSE
    /\ nextTickTime' = clock + TickInterval
    /\ state' = "Initialized"
    /\ anchor' = clock
    /\ UNCHANGED <<timerVars, loop>>

\* Shutdown(), except when already stopped
Stop ==
    /\ state # "Stopped"
    /\ stopRequested' = TRUE
    /\ mode' = "Stopped"
    /\ state' = "Stopped"

SchedulerShutdown ==
    /\ LoopAt("out")
    /\ Stop
    /\ UNCHANGED <<timerVars, tickId, nextTickTime, loop, anchor>>

\* A timer callback calls Shutdown.
ShutdownInCallback ==
    /\ LoopAt("timers")
    /\ dispatch.pc = "execute"
    /\ Stop
    /\ UNCHANGED <<timerVars, tickId, nextTickTime, loop, anchor>>

\* RunUntilStopped(), unless stopped
RunUntilStopped ==
    /\ LoopAt("out")
    /\ state # "Stopped"
    /\ LoopGoto("loop")
    /\ UNCHANGED <<timerVars, state, mode, tickId, stopRequested, nextTickTime, anchor>>

\* RunOneTick up to the call of TimerQueue::Tick(now)
TickBegins(from) ==
    /\ LoopAt(from)
    /\ state \notin {"Stopped", "Created"}
    /\ mode' = "Running"
    /\ state' = IF state = "Initialized" THEN "Running" ELSE state
    /\ TickCall
    /\ loop' = [pc |-> "timers", caller |-> from]
    /\ UNCHANGED <<tickId, stopRequested, nextTickTime, anchor>>

RunOneTick == TickBegins("out")

\* while (!m_stopRequested.load()) RunOneTick()
LoopTicks == ~stopRequested /\ TickBegins("loop")

LoopEnds ==
    /\ LoopAt("loop")
    /\ stopRequested
    /\ LoopGoto("out")
    /\ UNCHANGED <<timerVars, state, mode, tickId, stopRequested, nextTickTime, anchor>>

\* RunOneTick throws out of RunUntilStopped before Initialize.
LoopThrows ==
    /\ LoopAt("loop")
    /\ ~stopRequested
    /\ state = "Created"
    /\ LoopGoto("out")
    /\ UNCHANGED <<timerVars, state, mode, tickId, stopRequested, nextTickTime, anchor>>

\* TimerQueue::Tick at work; when it returns, AdvanceTick
TimersStep ==
    /\ LoopAt("timers")
    /\ dispatch.pc # "idle"
    /\ DispatchStep
    /\ UNCHANGED schedulerVars

AdvanceTick ==
    /\ LoopAt("timers")
    /\ dispatch.pc = "idle"
    /\ tickId' = tickId + 1
    /\ LoopGoto("sleep")
    /\ UNCHANGED <<timerVars, state, mode, stopRequested, nextTickTime, anchor>>

\* Mutant: the tick that was asked to stop waits for one more request.
WaitNextTickForgetsStop ==
    /\ LoopAt("sleep")
    /\ clock >= nextTickTime
    /\ nextTickTime' = nextTickTime + TickInterval
    /\ stopRequested' = FALSE
    /\ LoopGoto(loop.caller)
    /\ UNCHANGED <<timerVars, state, mode, tickId, anchor>>

\* Mutant: the thread does not sleep.
WaitNextTickSkipped ==
    /\ LoopAt("sleep")
    /\ nextTickTime' = nextTickTime + TickInterval
    /\ LoopGoto(loop.caller)
    /\ UNCHANGED <<timerVars, state, mode, tickId, stopRequested, anchor>>

\* WaitNextTick: sleep_until(m_nextTickTime); m_nextTickTime += tickInterval
WaitNextTick ==
    /\ LoopAt("sleep")
    /\ clock >= nextTickTime
    /\ nextTickTime' = nextTickTime + TickInterval
    /\ LoopGoto(loop.caller)
    /\ UNCHANGED <<timerVars, state, mode, tickId, stopRequested, anchor>>

----------------------------------------------------------------------------
RuntimeThreadStep ==
    \/ LoopTicks \/ LoopEnds \/ LoopThrows
    \/ TimersStep \/ AdvanceTick \/ WaitNextTick

SchedulerNext ==
    \/ SchedulerInitialize \/ SchedulerShutdown \/ ShutdownInCallback
    \/ RunUntilStopped \/ RunOneTick
    \/ RuntimeThreadStep
    \/ ClockAdvances /\ UNCHANGED schedulerVars
    \/ \E c \in Callers : CallerNext(c) /\ UNCHANGED schedulerVars

SchedulerSpec == SchedulerInit /\ [][SchedulerNext]_allVars

(* The clock runs and the runtime thread is scheduled; nobody is obliged   *)
(* to call Shutdown.                                                       *)
FairSchedulerSpec ==
    /\ SchedulerSpec
    /\ WF_allVars(ClockAdvances /\ UNCHANGED schedulerVars)
    /\ WF_allVars(RuntimeThreadStep)
----------------------------------------------------------------------------
(* Fixed step: tick N never starts before N intervals have passed since    *)
(* Initialize, whatever the earlier ticks cost.                            *)
TicksNotEarly ==
    LoopAt("timers") => dispatch.now >= anchor + tickId * TickInterval

(* A Shutdown in a callback ends the loop (as far as the modelled clock    *)
(* reaches).                                                               *)
StopEndsLoop ==
    (stopRequested /\ ~LoopAt("out")) ~> (LoopAt("out") \/ nextTickTime > MaxTime)
============================================================================
