----------------------------- MODULE TimerQueue ----------------------------
(***************************************************************************)
(* The timer queue of infrastructure/timer/TimerQueue.cpp.                 *)
(*                                                                         *)
(* Any thread may call Schedule and Cancel; one thread, the runtime        *)
(* thread, calls Tick(now), which pops expired tasks one by one and runs   *)
(* their callbacks outside the lock.  Each critical section under mutex_   *)
(* and each atomic counter access is one action.  A callback that calls    *)
(* Schedule or Cancel is covered: between ExecuteCallback and its end the  *)
(* same effects are available to the calling threads.                      *)
(***************************************************************************)
EXTENDS Integers, Sequences

CONSTANTS
    Callers,      \* threads that call Schedule and Cancel
    Delays,       \* the delays passed to Schedule
    MaxTimers,    \* bound: Schedule calls
    MaxTime       \* bound: the clock stops here
ASSUME TimerAssumption == MaxTimers \in Nat /\ Delays \subseteq Int

TimerIds == 1 .. MaxTimers
NoTimer == [id |-> 0, deadline |-> 0, sequence |-> 0]   \* TimerTask{}

VARIABLES
    clock,          \* what m_clock.Now() returns
    nextId,         \* nextId_
    nextSequence,   \* nextSequence_
    tasks,          \* tasks_, the heap as a set: its order is operator>
    cancelled,      \* cancelledTimers_
    caller,         \* each calling thread: pc, delay, the task it builds
    dispatch,       \* the runtime thread in Tick: pc, now, local task
    fired,          \* history: tasks whose callback ran, with the tick's now
    before,         \* history: timers whose Schedule had returned when id's began
    acked           \* history: where the timer was when Cancel returned true

timerVars == <<clock, nextId, nextSequence, tasks, cancelled, caller, dispatch,
               fired, before, acked>>

IdleCaller == [pc |-> "idle", delay |-> 0, task |-> NoTimer]

TimerInit ==
    /\ clock = 0
    /\ nextId = 1
    /\ nextSequence = 0
    /\ tasks = {}
    /\ cancelled = {}
    /\ caller = [c \in Callers |-> IdleCaller]
    /\ dispatch = [pc |-> "idle", now |-> 0, task |-> NoTimer]
    /\ fired = << >>
    /\ before = [i \in TimerIds |-> {}]
    /\ acked = [i \in TimerIds |-> "no"]

FiredIds == {fired[k].id : k \in 1 .. Len(fired)}
InFlight == {caller[c].task.id : c \in Callers} \ {0}
Returned == (1 .. nextId - 1) \ InFlight

\* steady_clock
ClockAdvances ==
    /\ clock < MaxTime
    /\ clock' = clock + 1
    /\ UNCHANGED <<nextId, nextSequence, tasks, cancelled, caller, dispatch, fired,
                   before, acked>>

----------------------------------------------------------------------------
(* Schedule(delay, callback)                                               *)

\* nextId_.fetch_add(1)
ScheduleId(c, delay) ==
    /\ caller[c].pc = "idle"
    /\ nextId \in TimerIds
    /\ caller' = [caller EXCEPT ![c] = [pc |-> "stamp", delay |-> delay,
                                        task |-> [NoTimer EXCEPT !.id = nextId]]]
    /\ nextId' = nextId + 1
    /\ before' = [before EXCEPT ![nextId] = Returned]
    /\ UNCHANGED <<clock, nextSequence, tasks, cancelled, dispatch, fired, acked>>

\* task.deadline = m_clock.Now() + delay
ScheduleStamp(c) ==
    /\ caller[c].pc = "stamp"
    /\ caller' = [caller EXCEPT ![c].pc = "sequence",
                                ![c].task.deadline = clock + caller[c].delay]
    /\ UNCHANGED <<clock, nextId, nextSequence, tasks, cancelled, dispatch, fired,
                   before, acked>>

\* task.sequence = nextSequence_.fetch_add(1)
ScheduleSequence(c) ==
    /\ caller[c].pc = "sequence"
    /\ caller' = [caller EXCEPT ![c].pc = "push", ![c].task.sequence = nextSequence]
    /\ nextSequence' = nextSequence + 1
    /\ UNCHANGED <<clock, nextId, tasks, cancelled, dispatch, fired, before, acked>>

\* tasks_.push(task) under the lock; return the id
SchedulePush(c) ==
    /\ caller[c].pc = "push"
    /\ tasks' = tasks \cup {caller[c].task}
    /\ caller' = [caller EXCEPT ![c] = IdleCaller]
    /\ UNCHANGED <<clock, nextId, nextSequence, cancelled, dispatch, fired, before,
                   acked>>

----------------------------------------------------------------------------
(* Cancel(timerId)                                                         *)

\* Where the timer is when it is cancelled.
Whereabouts(id) ==
    IF id \in FiredIds THEN "fired"
    ELSE IF id \in {t.id : t \in tasks} THEN "pending"
    ELSE "popped"

\* Mutant: Cancel answers without recording the id.
CancelForgets(c, id) ==
    /\ caller[c].pc = "idle"
    /\ id \in Returned
    /\ acked' = [acked EXCEPT ![id] = Whereabouts(id)]
    /\ UNCHANGED <<clock, nextId, nextSequence, tasks, cancelled, caller, dispatch,
                   fired, before>>

\* cancelledTimers_.insert(timerId).second, for an id that Schedule returned
Cancel(c, id) ==
    /\ caller[c].pc = "idle"
    /\ id \in Returned
    /\ cancelled' = cancelled \cup {id}
    /\ acked' = IF id \in cancelled THEN acked
                ELSE [acked EXCEPT ![id] = Whereabouts(id)]
    /\ UNCHANGED <<clock, nextId, nextSequence, tasks, caller, dispatch, fired, before>>

----------------------------------------------------------------------------
(* Tick(now) on the runtime thread                                         *)

\* Mutant: only the deadlines are compared.
LaterByDeadline(s, t) == s.deadline > t.deadline

\* TimerTask::operator>
Later(s, t) ==
    \/ s.deadline > t.deadline
    \/ s.deadline = t.deadline /\ s.sequence > t.sequence

\* tasks_.top(): no other task is before it
IsTop(t) == t \in tasks /\ \A s \in tasks : ~Later(t, s)

DispatchVars(pc, task) == dispatch' = [dispatch EXCEPT !.pc = pc, !.task = task]

\* The call, with the clock sampled by the caller of Tick.
TickCall ==
    /\ dispatch.pc = "idle"
    /\ dispatch' = [dispatch EXCEPT !.pc = "pop", !.now = clock]
    /\ UNCHANGED <<clock, nextId, nextSequence, tasks, cancelled, caller, fired,
                   before, acked>>

\* Nothing is expired: return.
DispatchReturn ==
    /\ dispatch.pc = "pop"
    /\ \A t \in tasks : IsTop(t) => t.deadline > dispatch.now
    /\ DispatchVars("idle", NoTimer)
    /\ UNCHANGED <<clock, nextId, nextSequence, tasks, cancelled, caller, fired,
                   before, acked>>

\* Mutant: top() is copied and not popped.
DispatchPopForgotten(t) ==
    /\ dispatch.pc = "pop"
    /\ IsTop(t)
    /\ t.deadline <= dispatch.now
    /\ DispatchVars("check", t)
    /\ UNCHANGED <<clock, nextId, nextSequence, tasks, cancelled, caller, fired,
                   before, acked>>

\* First critical section: take the top task.
DispatchPop(t) ==
    /\ dispatch.pc = "pop"
    /\ IsTop(t)
    /\ t.deadline <= dispatch.now
    /\ tasks' = tasks \ {t}
    /\ DispatchVars("check", t)
    /\ UNCHANGED <<clock, nextId, nextSequence, cancelled, caller, fired, before, acked>>

\* Mutant: dispatching stops at a cancelled task and drops it with the rest.
DispatchCheckStops ==
    /\ dispatch.pc = "check"
    /\ IF dispatch.task.id \in cancelled
       THEN /\ cancelled' = cancelled \ {dispatch.task.id}
            /\ tasks' = {t \in tasks : t.deadline > dispatch.now}
            /\ DispatchVars("idle", NoTimer)
       ELSE /\ DispatchVars("execute", dispatch.task)
            /\ UNCHANGED <<cancelled, tasks>>
    /\ UNCHANGED <<clock, nextId, nextSequence, caller, fired, before, acked>>

\* Second critical section: a cancelled task is dropped.
DispatchCheck ==
    /\ dispatch.pc = "check"
    /\ IF dispatch.task.id \in cancelled
       THEN /\ cancelled' = cancelled \ {dispatch.task.id}
            /\ DispatchVars("pop", NoTimer)
       ELSE /\ DispatchVars("execute", dispatch.task)
            /\ UNCHANGED cancelled
    /\ UNCHANGED <<clock, nextId, nextSequence, tasks, caller, fired, before, acked>>

\* task.callback(), outside the lock
ExecuteCallback ==
    /\ dispatch.pc = "execute"
    /\ fired' = Append(fired, [id |-> dispatch.task.id,
                               deadline |-> dispatch.task.deadline,
                               now |-> dispatch.now])
    /\ DispatchVars("pop", NoTimer)
    /\ UNCHANGED <<clock, nextId, nextSequence, tasks, cancelled, caller, before, acked>>

----------------------------------------------------------------------------
CallerStep(c) == ScheduleStamp(c) \/ ScheduleSequence(c) \/ SchedulePush(c)

CallerNext(c) ==
    \/ \E delay \in Delays : ScheduleId(c, delay)
    \/ CallerStep(c)
    \/ \E id \in TimerIds : Cancel(c, id)

DispatchStep ==
    \/ DispatchReturn
    \/ \E t \in tasks : DispatchPop(t)
    \/ DispatchCheck
    \/ ExecuteCallback

TimerNext ==
    \/ ClockAdvances
    \/ \E c \in Callers : CallerNext(c)
    \/ TickCall
    \/ DispatchStep

TimerSpec == TimerInit /\ [][TimerNext]_timerVars

----------------------------------------------------------------------------
(* No callback runs twice and none runs before its deadline, although the  *)
(* lock is released between popping a task and running it.                 *)
FiresOnceWhenDue ==
    /\ \A j, k \in 1 .. Len(fired) : fired[j].id = fired[k].id => j = k
    /\ \A k \in 1 .. Len(fired) : fired[k].deadline <= fired[k].now

(* "Same-deadline FIFO ordering": if Schedule(A) had returned before       *)
(* Schedule(B) was called and A is due no later than B, A never fires      *)
(* after B, whichever threads made the calls.                              *)
FifoAcrossCallers ==
    \A j, k \in 1 .. Len(fired) :
        /\ j < k
        /\ fired[k].id \in before[fired[j].id]
        => fired[k].deadline > fired[j].deadline

(* A timer that was still in the heap when Cancel returned true never      *)
(* fires.                                                                  *)
CancelInTime == \A id \in FiredIds : acked[id] # "pending"

(* behavior.md, "Cancelled timers must never execute callbacks": once      *)
(* Cancel has returned true for a timer that has not fired, it does not    *)
(* fire.                                                                   *)
CancelledNeverFires == \A id \in FiredIds : acked[id] \in {"no", "fired"}

(* A tick fires every timer that is due at its now, unless someone cancels *)
(* it, even if a callback of the same tick stops the scheduler: lazy       *)
(* cancellation and the early returns of the dispatch loop lose no other   *)
(* timer.                                                                  *)
TickFiresDue ==
    \A id \in TimerIds :
        (dispatch.pc # "idle" /\ \E t \in tasks : t.id = id /\ t.deadline <= dispatch.now)
            ~> (id \in FiredIds \/ acked[id] # "no")
============================================================================
