------------------------ MODULE TickSchedulerProofs ------------------------
(***************************************************************************)
(* The timer queue and the tick scheduler for any number of calling        *)
(* threads and timers, any delays and any tick interval.                   *)
(*                                                                         *)
(* An id is at one place at a time: with the thread that schedules it, in  *)
(* the heap, in the runtime thread's hands, fired or dropped.  The proofs  *)
(* follow it through these places.  The scheduler is shown to implement    *)
(* the timer queue's own specification, so that what holds of every user   *)
(* of the queue holds of the queue under the scheduler.                    *)
(***************************************************************************)
EXTENDS TickScheduler, TLAPS

Task == [id : Nat, deadline : Int, sequence : Nat]
Firing == [id : TimerIds, deadline : Int, now : Int]

TimerTypeOK ==
    /\ clock \in Nat
    /\ nextId \in 1 .. MaxTimers + 1
    /\ nextSequence \in Nat
    /\ tasks \in SUBSET Task
    /\ cancelled \in SUBSET TimerIds
    /\ caller \in [Callers -> [pc : {"idle", "stamp", "sequence", "push"},
                               delay : Int, task : Task]]
    /\ dispatch \in [pc : {"idle", "pop", "check", "execute"}, now : Nat, task : Task]
    /\ fired \in Seq(Firing)
    /\ before \in [TimerIds -> SUBSET TimerIds]
    /\ acked \in [TimerIds -> {"no", "fired", "pending", "popped"}]

\* The runtime thread holds a task that is neither dropped nor run yet.
Holding == dispatch.pc \in {"check", "execute"}
Issued == 1 .. nextId - 1

\* Every id is at one place at a time.
CallerPlace ==
    /\ \A c \in Callers :
          IF caller[c].pc = "idle" THEN caller[c].task.id = 0
                                   ELSE caller[c].task.id \in Issued
    /\ \A c, d \in Callers :
          caller[c].task.id = caller[d].task.id /\ caller[c].task.id # 0 => c = d

HeapPlace ==
    /\ \A t \in tasks : t.id \in Issued /\ \A c \in Callers : caller[c].task.id # t.id
    /\ \A s, t \in tasks : s.id = t.id => s = t

HandPlace ==
    Holding => /\ dispatch.task.id \in Issued
               /\ \A c \in Callers : caller[c].task.id # dispatch.task.id
               /\ \A t \in tasks : t.id # dispatch.task.id
               /\ dispatch.task.deadline <= dispatch.now

FiredPlace ==
    \A k \in 1 .. Len(fired) :
        /\ fired[k].id \in Issued
        /\ \A c \in Callers : caller[c].task.id # fired[k].id
        /\ \A t \in tasks : t.id # fired[k].id
        /\ Holding => dispatch.task.id # fired[k].id

\* A timer cancelled in the heap stays recorded as cancelled until it is dropped.
CancelRecorded ==
    \A id \in TimerIds : acked[id] = "pending" =>
        /\ id \in Issued
        /\ \A c \in Callers : caller[c].task.id # id
        /\ \A t \in tasks : t.id = id => id \in cancelled
        /\ Holding /\ dispatch.task.id = id => dispatch.pc = "check" /\ id \in cancelled

\* The sequence numbers follow the order of the calls.
Earlier ==
    \A b \in Issued : \A a \in before[b] :
        /\ a \in Issued
        /\ \A c \in Callers : caller[c].task.id # a

SequenceOrder ==
    /\ \A t \in tasks : t.sequence < nextSequence
    /\ \A c \in Callers : caller[c].pc = "push" =>
          /\ caller[c].task.sequence < nextSequence
          /\ \A t \in tasks : t.id \in before[caller[c].task.id] =>
                t.sequence < caller[c].task.sequence
    /\ \A s, t \in tasks : s.id \in before[t.id] => s.sequence < t.sequence

\* What was scheduled earlier and is still to run is due later than what ran.
DueLater ==
    /\ Holding => \A t \in tasks :
          t.id \in before[dispatch.task.id] => t.deadline > dispatch.task.deadline
    /\ \A k \in 1 .. Len(fired) :
          /\ \A t \in tasks : t.id \in before[fired[k].id] => t.deadline > fired[k].deadline
          /\ Holding /\ dispatch.task.id \in before[fired[k].id] =>
                dispatch.task.deadline > fired[k].deadline

TimerInv ==
    /\ TimerTypeOK
    /\ CallerPlace /\ HeapPlace /\ HandPlace /\ FiredPlace
    /\ CancelRecorded
    /\ Earlier /\ SequenceOrder /\ DueLater
    /\ FiresOnceWhenDue /\ FifoAcrossCallers /\ CancelInTime

----------------------------------------------------------------------------
\* The blank task
LEMMA NoTimerType == NoTimer \in Task
  BY DEF NoTimer, Task

\* Before the first call
LEMMA TimerInitInv == TimerInit => TimerInv
<1> SUFFICES ASSUME TimerInit PROVE TimerInv
  OBVIOUS
<1>1. TimerTypeOK
  BY TimerAssumption DEF TimerInit, TimerTypeOK, Task, Firing, NoTimer, IdleCaller, TimerIds
<1>2. CallerPlace /\ HeapPlace /\ HandPlace /\ FiredPlace
  BY DEF TimerInit, CallerPlace, HeapPlace, HandPlace, FiredPlace, Holding, IdleCaller, NoTimer
<1>3. CancelRecorded /\ Earlier /\ SequenceOrder /\ DueLater
  BY DEF TimerInit, CancelRecorded, Earlier, SequenceOrder, DueLater, Holding, Issued,
         IdleCaller
<1>4. FiresOnceWhenDue /\ FifoAcrossCallers /\ CancelInTime
  BY DEF TimerInit, FiresOnceWhenDue, FifoAcrossCallers, CancelInTime, FiredIds
<1> QED
  BY <1>1, <1>2, <1>3, <1>4 DEF TimerInv

\* The clock moves no timer.
LEMMA ClockInv ==
    ASSUME TimerInv, ClockAdvances
    PROVE  TimerInv'
<1>1. TimerTypeOK'
  BY DEF TimerInv, TimerTypeOK, ClockAdvances
<1> QED
  BY <1>1 DEF TimerInv, ClockAdvances, CallerPlace, HeapPlace, HandPlace, FiredPlace,
     CancelRecorded, Earlier, SequenceOrder, DueLater, FiresOnceWhenDue,
     FifoAcrossCallers, CancelInTime, FiredIds, Holding, Issued

\* A new id is at no place yet.
LEMMA ScheduleIdInv ==
    ASSUME TimerInv, NEW c \in Callers, NEW delay \in Delays, ScheduleId(c, delay)
    PROVE  TimerInv'
<1>1. TimerTypeOK'
  <2>1. Returned \subseteq TimerIds
    BY TimerAssumption DEF TimerInv, TimerTypeOK, Returned, TimerIds
  <2>2. delay \in Int /\ nextId \in Nat
    BY TimerAssumption DEF TimerInv, TimerTypeOK
  <2> DEFINE t0 == [NoTimer EXCEPT !.id = nextId]
             r == [pc |-> "stamp", delay |-> delay, task |-> t0]
  <2>3. t0 \in Task
    BY <2>2 DEF NoTimer, Task
  <2>4. caller' = [caller EXCEPT ![c] = r]
    BY Zenon DEF ScheduleId
  <2> HIDE DEF t0
  <2>5. r \in [pc : {"idle", "stamp", "sequence", "push"}, delay : Int, task : Task]
    BY <2>2, <2>3
  <2> HIDE DEF r
  <2>6. /\ nextId \in TimerIds /\ nextId' = nextId + 1
        /\ before' = [before EXCEPT ![nextId] = Returned]
        /\ UNCHANGED <<clock, nextSequence, tasks, cancelled, dispatch, fired, acked>>
    BY DEF ScheduleId
  <2> QED
    BY <2>1, <2>4, <2>5, <2>6, TimerAssumption DEF TimerInv, TimerTypeOK, TimerIds
<1>2. /\ \A d \in Callers : caller'[d].task.id = IF d = c THEN nextId ELSE caller[d].task.id
      /\ \A d \in Callers : caller'[d].pc = IF d = c THEN "stamp" ELSE caller[d].pc
      /\ \A d \in Callers \ {c} : caller'[d] = caller[d]
      /\ caller[c].pc = "idle"
  BY DEF TimerInv, TimerTypeOK, ScheduleId, NoTimer, Task
<1>3. /\ nextId' = nextId + 1
      /\ before' = [before EXCEPT ![nextId] = Returned]
      /\ UNCHANGED <<nextSequence, tasks, cancelled, dispatch, fired, acked>>
      /\ nextId \in TimerIds
  BY DEF ScheduleId
<1>4. /\ Issued' = Issued \cup {nextId} /\ nextId \notin Issued /\ nextId \in Nat
  BY <1>3, TimerAssumption DEF TimerInv, TimerTypeOK, Issued
<1>5. CallerPlace'
  BY <1>2, <1>4 DEF TimerInv, CallerPlace
<1>6. HeapPlace' /\ HandPlace' /\ FiredPlace'
  BY <1>2, <1>3, <1>4 DEF TimerInv, HeapPlace, HandPlace, FiredPlace, Holding
<1>7. CancelRecorded'
  BY <1>2, <1>3, <1>4 DEF TimerInv, CancelRecorded, Holding
<1>8. \A b \in Issued : before'[b] = before[b]
  BY <1>3, <1>4 DEF TimerInv, TimerTypeOK, Issued, TimerIds
<1>9. /\ before'[nextId] = Returned
      /\ \A a \in Returned : a \in Issued /\ \A d \in Callers : caller[d].task.id # a
  BY <1>3, <1>4 DEF TimerInv, TimerTypeOK, Issued, TimerIds, Returned, InFlight
<1>10. Earlier'
  BY <1>2, <1>4, <1>8, <1>9 DEF TimerInv, Earlier
<1>11. SequenceOrder'
  BY <1>2, <1>3, <1>4, <1>8 DEF TimerInv, SequenceOrder, HeapPlace, CallerPlace
<1>12. DueLater' /\ FifoAcrossCallers'
  BY <1>3, <1>4, <1>8 DEF TimerInv, DueLater, FifoAcrossCallers, Holding, HandPlace, FiredPlace
<1>13. FiresOnceWhenDue' /\ CancelInTime'
  BY <1>3 DEF TimerInv, FiresOnceWhenDue, CancelInTime, FiredIds
<1> QED
  BY <1>1, <1>5, <1>6, <1>7, <1>10, <1>11, <1>12, <1>13 DEF TimerInv

\* Stamping the deadline moves no timer.
LEMMA ScheduleStampInv ==
    ASSUME TimerInv, NEW c \in Callers, ScheduleStamp(c)
    PROVE  TimerInv'
<1>1. TimerTypeOK'
  <2>1. /\ clock + caller[c].delay \in Int /\ caller[c].task \in Task
        /\ caller[c].delay \in Int
        /\ caller[c] = [pc |-> "stamp", delay |-> caller[c].delay, task |-> caller[c].task]
    BY DEF TimerInv, TimerTypeOK, ScheduleStamp
  <2> DEFINE t0 == [caller[c].task EXCEPT !.deadline = clock + caller[c].delay]
             r == [caller[c] EXCEPT !.pc = "sequence", !.task = t0]
  <2>2. t0 \in Task
    BY <2>1 DEF Task
  <2>3. caller' = [caller EXCEPT ![c] = r]
    BY Zenon DEF ScheduleStamp
  <2> HIDE DEF t0
  <2>4. r \in [pc : {"idle", "stamp", "sequence", "push"}, delay : Int, task : Task]
    BY <2>1, <2>2
  <2> HIDE DEF r
  <2>5. UNCHANGED <<clock, nextId, nextSequence, tasks, cancelled, dispatch, fired,
                    before, acked>>
    BY DEF ScheduleStamp
  <2> QED
    BY <2>3, <2>4, <2>5 DEF TimerInv, TimerTypeOK
<1>2. /\ \A d \in Callers : caller'[d].task.id = caller[d].task.id
      /\ \A d \in Callers : caller'[d].pc = IF d = c THEN "sequence" ELSE caller[d].pc
      /\ \A d \in Callers \ {c} : caller'[d] = caller[d]
      /\ caller[c].pc = "stamp"
      /\ UNCHANGED <<nextId, nextSequence, tasks, cancelled, dispatch, fired, before, acked>>
  BY DEF TimerInv, TimerTypeOK, ScheduleStamp, Task
<1>3. CallerPlace' /\ HeapPlace' /\ HandPlace' /\ FiredPlace'
  BY <1>2 DEF TimerInv, CallerPlace, HeapPlace, HandPlace, FiredPlace, Holding, Issued
<1>4. CancelRecorded' /\ Earlier'
  BY <1>2 DEF TimerInv, CancelRecorded, Earlier, Holding, Issued
<1>5. SequenceOrder'
  BY <1>2 DEF TimerInv, SequenceOrder
<1>6. DueLater' /\ FiresOnceWhenDue' /\ FifoAcrossCallers' /\ CancelInTime'
  BY <1>2 DEF TimerInv, DueLater, FiresOnceWhenDue, FifoAcrossCallers, CancelInTime,
              FiredIds, Holding
<1> QED
  BY <1>1, <1>3, <1>4, <1>5, <1>6 DEF TimerInv

\* A task takes a sequence number above those of all tasks in the heap.
LEMMA ScheduleSequenceInv ==
    ASSUME TimerInv, NEW c \in Callers, ScheduleSequence(c)
    PROVE  TimerInv'
<1>1. TimerTypeOK'
  <2>1. /\ nextSequence \in Nat /\ caller[c].task \in Task
        /\ caller[c].delay \in Int
        /\ caller[c] = [pc |-> "sequence", delay |-> caller[c].delay, task |-> caller[c].task]
    BY DEF TimerInv, TimerTypeOK, ScheduleSequence
  <2> DEFINE t0 == [caller[c].task EXCEPT !.sequence = nextSequence]
             r == [caller[c] EXCEPT !.pc = "push", !.task = t0]
  <2>2. t0 \in Task
    BY <2>1 DEF Task
  <2>3. caller' = [caller EXCEPT ![c] = r]
    BY Zenon DEF ScheduleSequence
  <2> HIDE DEF t0
  <2>4. r \in [pc : {"idle", "stamp", "sequence", "push"}, delay : Int, task : Task]
    BY <2>1, <2>2
  <2> HIDE DEF r
  <2>5. /\ nextSequence' = nextSequence + 1
        /\ UNCHANGED <<clock, nextId, tasks, cancelled, dispatch, fired, before, acked>>
    BY DEF ScheduleSequence
  <2> QED
    BY <2>1, <2>3, <2>4, <2>5 DEF TimerInv, TimerTypeOK
<1>2. /\ \A d \in Callers : caller'[d].task.id = caller[d].task.id
      /\ \A d \in Callers : caller'[d].pc = IF d = c THEN "push" ELSE caller[d].pc
      /\ \A d \in Callers \ {c} : caller'[d] = caller[d]
      /\ caller'[c].task.sequence = nextSequence
      /\ caller[c].pc = "sequence"
      /\ nextSequence' = nextSequence + 1 /\ nextSequence \in Nat
      /\ UNCHANGED <<nextId, tasks, cancelled, dispatch, fired, before, acked>>
  BY DEF TimerInv, TimerTypeOK, ScheduleSequence, Task
<1>3. CallerPlace' /\ HeapPlace' /\ HandPlace' /\ FiredPlace'
  BY <1>2 DEF TimerInv, CallerPlace, HeapPlace, HandPlace, FiredPlace, Holding, Issued
<1>4. CancelRecorded' /\ Earlier'
  BY <1>2 DEF TimerInv, CancelRecorded, Earlier, Holding, Issued
<1>5. SequenceOrder'
  <2>1. /\ \A t \in tasks : t.sequence \in Nat
        /\ \A d \in Callers : caller[d].task.sequence \in Nat
    BY DEF TimerInv, TimerTypeOK, Task
  <2> QED
    BY <1>2, <2>1 DEF TimerInv, SequenceOrder
<1>6. DueLater' /\ FiresOnceWhenDue' /\ FifoAcrossCallers' /\ CancelInTime'
  BY <1>2 DEF TimerInv, DueLater, FiresOnceWhenDue, FifoAcrossCallers, CancelInTime,
              FiredIds, Holding
<1> QED
  BY <1>1, <1>3, <1>4, <1>5, <1>6 DEF TimerInv

\* The id moves from the thread to the heap; nothing that ran before it was
\* scheduled after it.
LEMMA SchedulePushInv ==
    ASSUME TimerInv, NEW c \in Callers, SchedulePush(c)
    PROVE  TimerInv'
<1> DEFINE t0 == caller[c].task
<1>1. TimerTypeOK'
  BY TimerAssumption, SMTT(30) DEF TimerInv, TimerTypeOK, SchedulePush, IdleCaller, NoTimer, Task
<1>2. /\ \A d \in Callers : caller'[d].task.id = IF d = c THEN 0 ELSE caller[d].task.id
      /\ \A d \in Callers : caller'[d].pc = IF d = c THEN "idle" ELSE caller[d].pc
      /\ \A d \in Callers \ {c} : caller'[d] = caller[d]
      /\ caller[c].pc = "push"
      /\ tasks' = tasks \cup {t0}
      /\ UNCHANGED <<nextId, nextSequence, cancelled, dispatch, fired, before, acked>>
  BY DEF TimerInv, TimerTypeOK, SchedulePush, IdleCaller, NoTimer, Task
<1>3. t0.id \in Issued /\ t0.id # 0
  BY <1>2 DEF TimerInv, CallerPlace, Issued
<1> HIDE DEF t0
<1>4. \A d \in Callers \ {c} : caller[d].task.id # t0.id
  BY <1>3 DEF TimerInv, CallerPlace, t0
<1>5. CallerPlace'
  BY <1>2 DEF TimerInv, CallerPlace, Issued
<1>6. HeapPlace'
  BY <1>2, <1>3, <1>4 DEF TimerInv, HeapPlace, Issued, t0
<1>7. HandPlace' /\ FiredPlace'
  BY <1>2, <1>3, <1>4 DEF TimerInv, HandPlace, FiredPlace, Issued, Holding, t0
<1>8. CancelRecorded' /\ Earlier'
  BY <1>2, <1>3 DEF TimerInv, CancelRecorded, Earlier, Holding, Issued, t0
<1>9. \A b \in Issued : t0.id \notin before[b]
  BY DEF TimerInv, Earlier, t0
<1>10. SequenceOrder'
  BY <1>2, <1>3, <1>9 DEF TimerInv, SequenceOrder, HeapPlace, CallerPlace, t0
<1>11. DueLater'
  BY <1>2, <1>9 DEF TimerInv, DueLater, HandPlace, FiredPlace, Holding
<1>12. FiresOnceWhenDue' /\ FifoAcrossCallers' /\ CancelInTime'
  BY <1>2 DEF TimerInv, FiresOnceWhenDue, FifoAcrossCallers, CancelInTime, FiredIds
<1> QED
  BY <1>1, <1>5, <1>6, <1>7, <1>8, <1>10, <1>11, <1>12 DEF TimerInv

\* Cancel records the id and says truly where the timer is.
LEMMA CancelInv ==
    ASSUME TimerInv, NEW c \in Callers, NEW id \in TimerIds, Cancel(c, id)
    PROVE  TimerInv'
<1>1. /\ cancelled' = cancelled \cup {id}
      /\ UNCHANGED <<clock, nextId, nextSequence, tasks, caller, dispatch, fired, before>>
  BY DEF Cancel
<1>2. TimerTypeOK'
  <2>1. Whereabouts(id) \in {"no", "fired", "pending", "popped"}
    BY DEF Whereabouts
  <2>2. acked' \in [TimerIds -> {"no", "fired", "pending", "popped"}]
    BY <2>1 DEF Cancel, TimerInv, TimerTypeOK
  <2> QED
    BY <1>1, <2>2 DEF TimerInv, TimerTypeOK
<1>3. \A i \in TimerIds : acked'[i] = "pending" =>
         acked[i] = "pending" \/ (i = id /\ \E t \in tasks : t.id = id)
  BY DEF Cancel, Whereabouts, TimerInv, TimerTypeOK
<1>4. id \in Issued /\ \A d \in Callers : caller[d].task.id # id
  BY DEF Cancel, Returned, InFlight, Issued, TimerInv, TimerTypeOK
<1>5. CancelRecorded'
  <2> SUFFICES ASSUME NEW i \in TimerIds, acked'[i] = "pending"
               PROVE  /\ i \in Issued
                      /\ \A d \in Callers : caller[d].task.id # i
                      /\ \A t \in tasks : t.id = i => i \in cancelled'
                      /\ Holding /\ dispatch.task.id = i =>
                            dispatch.pc = "check" /\ i \in cancelled'
    BY <1>1 DEF CancelRecorded, Holding, Issued
  <2>1. CASE acked[i] = "pending"
    BY <1>1, <2>1 DEF TimerInv, CancelRecorded
  <2>2. CASE i = id /\ \E t \in tasks : t.id = id
    BY <1>1, <1>4, <2>2 DEF TimerInv, HandPlace
  <2> QED
    BY <1>3, <2>1, <2>2
<1>6. CancelInTime'
  <2>1. FiredIds' = FiredIds
    BY <1>1 DEF FiredIds
  <2>2. \A i \in FiredIds : i \in TimerIds /\ \A t \in tasks : t.id # i
    <3>1. \A k \in 1 .. Len(fired) : fired[k] \in Firing
      BY DEF TimerInv, TimerTypeOK
    <3> QED
      BY <3>1 DEF FiredIds, TimerInv, FiredPlace, Firing
  <2> QED
    BY <1>3, <2>1, <2>2 DEF TimerInv, CancelInTime
<1>7. CallerPlace' /\ HeapPlace' /\ HandPlace' /\ FiredPlace'
  BY <1>1 DEF TimerInv, CallerPlace, HeapPlace, HandPlace, FiredPlace, Holding, Issued
<1>8. Earlier' /\ SequenceOrder' /\ DueLater' /\ FiresOnceWhenDue' /\ FifoAcrossCallers'
  BY <1>1 DEF TimerInv, Earlier, SequenceOrder, DueLater, FiresOnceWhenDue,
              FifoAcrossCallers, Holding, Issued
<1> QED
  BY <1>2, <1>5, <1>6, <1>7, <1>8 DEF TimerInv

\* Calls and returns of Tick hold no task.
LEMMA EmptyHandedInv ==
    ASSUME TimerInv, TickCall \/ DispatchReturn
    PROVE  TimerInv'
<1>1. /\ ~Holding'
      /\ UNCHANGED <<clock, nextId, nextSequence, tasks, cancelled, caller, fired, before,
                     acked>>
      /\ dispatch' \in [pc : {"idle", "pop", "check", "execute"}, now : Nat, task : Task]
  BY NoTimerType, ZenonT(30)
     DEF TickCall, DispatchReturn, DispatchVars, TimerInv, TimerTypeOK, Holding
<1>2. TimerTypeOK'
  BY <1>1 DEF TimerInv, TimerTypeOK
<1>3. CallerPlace' /\ HeapPlace' /\ HandPlace' /\ FiredPlace'
  BY <1>1 DEF TimerInv, CallerPlace, HeapPlace, HandPlace, FiredPlace, Issued
<1>4. CancelRecorded' /\ Earlier' /\ SequenceOrder' /\ DueLater'
  BY <1>1 DEF TimerInv, CancelRecorded, Earlier, SequenceOrder, DueLater, Issued
<1>5. FiresOnceWhenDue' /\ FifoAcrossCallers' /\ CancelInTime'
  BY <1>1 DEF TimerInv, FiresOnceWhenDue, FifoAcrossCallers, CancelInTime, FiredIds
<1> QED
  BY <1>2, <1>3, <1>4, <1>5 DEF TimerInv

\* The popped task is due, and what was scheduled before it is due later.
LEMMA DispatchPopInv ==
    ASSUME TimerInv, NEW t \in tasks, DispatchPop(t)
    PROVE  TimerInv'
<1>1. /\ tasks' = tasks \ {t}
      /\ UNCHANGED <<clock, nextId, nextSequence, cancelled, caller, fired, before, acked>>
      /\ dispatch'.pc = "check" /\ dispatch'.task = t /\ dispatch'.now = dispatch.now
      /\ t.deadline <= dispatch.now
      /\ Holding'
  BY DEF DispatchPop, DispatchVars, TimerInv, TimerTypeOK, Holding
<1>2. TimerTypeOK'
  BY DEF DispatchPop, DispatchVars, TimerInv, TimerTypeOK
<1>3. CallerPlace' /\ HeapPlace'
  BY <1>1 DEF TimerInv, CallerPlace, HeapPlace, Issued
<1>4. HandPlace' /\ FiredPlace'
  BY <1>1 DEF TimerInv, HandPlace, FiredPlace, HeapPlace, Issued
<1>5. CancelRecorded' /\ Earlier' /\ SequenceOrder'
  BY <1>1 DEF TimerInv, CancelRecorded, Earlier, SequenceOrder, Issued
<1>6. \A s \in tasks' : s.id \in before[t.id] => s.deadline > t.deadline
  <2> SUFFICES ASSUME NEW s \in tasks, s.id \in before[t.id]
               PROVE  s.deadline > t.deadline
    BY <1>1
  <2>1. s.sequence < t.sequence
    BY DEF TimerInv, SequenceOrder
  <2>2. ~Later(t, s)
    BY DEF DispatchPop, IsTop
  <2>3. /\ s.deadline \in Int /\ t.deadline \in Int
        /\ s.sequence \in Nat /\ t.sequence \in Nat
    BY DEF TimerInv, TimerTypeOK, Task
  <2> QED
    BY <2>1, <2>2, <2>3 DEF Later
<1>7. DueLater'
  BY <1>1, <1>6 DEF TimerInv, DueLater
<1>8. FiresOnceWhenDue' /\ FifoAcrossCallers' /\ CancelInTime'
  BY <1>1 DEF TimerInv, FiresOnceWhenDue, FifoAcrossCallers, CancelInTime, FiredIds
<1> QED
  BY <1>2, <1>3, <1>4, <1>5, <1>7, <1>8 DEF TimerInv

\* A cancelled task is dropped; any other stays in hand.
LEMMA DispatchCheckInv ==
    ASSUME TimerInv, DispatchCheck
    PROVE  TimerInv'
<1> DEFINE id0 == dispatch.task.id
<1>1. /\ dispatch.pc = "check" /\ Holding
      /\ UNCHANGED <<clock, nextId, nextSequence, tasks, caller, fired, before, acked>>
      /\ dispatch'.now = dispatch.now
      /\ \/ /\ id0 \in cancelled /\ cancelled' = cancelled \ {id0}
            /\ dispatch'.pc = "pop" /\ ~Holding'
         \/ /\ id0 \notin cancelled /\ cancelled' = cancelled
            /\ dispatch'.pc = "execute" /\ dispatch'.task = dispatch.task /\ Holding'
  BY DEF DispatchCheck, DispatchVars, Holding, TimerInv, TimerTypeOK
<1>2. TimerTypeOK'
  <2>1. dispatch' \in [pc : {"idle", "pop", "check", "execute"}, now : Nat, task : Task]
    BY NoTimerType, ZenonT(30) DEF DispatchCheck, DispatchVars, TimerInv, TimerTypeOK
  <2> QED
    BY <1>1, <2>1 DEF TimerInv, TimerTypeOK
<1>3. CallerPlace' /\ HeapPlace' /\ HandPlace' /\ FiredPlace'
  BY <1>1 DEF TimerInv, CallerPlace, HeapPlace, HandPlace, FiredPlace, Issued
<1>4. CancelRecorded'
  BY <1>1 DEF TimerInv, CancelRecorded, HandPlace, Issued
<1>5. Earlier' /\ SequenceOrder' /\ DueLater'
  BY <1>1 DEF TimerInv, Earlier, SequenceOrder, DueLater, Issued
<1>6. FiresOnceWhenDue' /\ FifoAcrossCallers' /\ CancelInTime'
  BY <1>1 DEF TimerInv, FiresOnceWhenDue, FifoAcrossCallers, CancelInTime, FiredIds
<1> QED
  BY <1>2, <1>3, <1>4, <1>5, <1>6 DEF TimerInv

\* The task in hand runs for the first time, due, not cancelled in time, and
\* after all that was scheduled before it and is due no later.
LEMMA ExecuteCallbackInv ==
    ASSUME TimerInv, ExecuteCallback
    PROVE  TimerInv'
<1> DEFINE f0 == [id |-> dispatch.task.id, deadline |-> dispatch.task.deadline,
                  now |-> dispatch.now]
<1>1. /\ dispatch.pc = "execute" /\ Holding /\ ~Holding'
      /\ fired' = Append(fired, f0)
      /\ UNCHANGED <<clock, nextId, nextSequence, tasks, cancelled, caller, before, acked>>
      /\ dispatch' \in [pc : {"idle", "pop", "check", "execute"}, now : Nat, task : Task]
  BY NoTimerType DEF ExecuteCallback, DispatchVars, Holding, TimerInv, TimerTypeOK
<1>2. dispatch.task.id \in Issued /\ Issued \subseteq TimerIds
  BY <1>1, TimerAssumption DEF TimerInv, TimerTypeOK, HandPlace, Issued, TimerIds
<1>3. f0 \in Firing /\ fired \in Seq(Firing)
  BY <1>2 DEF TimerInv, TimerTypeOK, Firing, Task
<1>4. /\ f0.id = dispatch.task.id /\ f0.deadline = dispatch.task.deadline
      /\ f0.now = dispatch.now
  OBVIOUS
<1> HIDE DEF f0
<1> DEFINE n == Len(fired)
<1>5. /\ fired' \in Seq(Firing) /\ n \in Nat /\ Len(fired') = n + 1
      /\ \A k \in 1 .. n : fired'[k] = fired[k]
      /\ fired'[n + 1] = f0
      /\ \A k \in 1 .. n + 1 : k \in 1 .. n \/ k = n + 1
  BY <1>1, <1>3
<1> HIDE DEF n
<1>6. TimerTypeOK'
  BY <1>1, <1>5 DEF TimerInv, TimerTypeOK
<1>7. CallerPlace' /\ HeapPlace' /\ HandPlace'
  BY <1>1 DEF TimerInv, CallerPlace, HeapPlace, HandPlace, Issued
<1>8. FiredPlace'
  BY <1>1, <1>4, <1>5 DEF TimerInv, FiredPlace, HandPlace, Issued, n
<1>9. CancelRecorded' /\ Earlier' /\ SequenceOrder'
  BY <1>1 DEF TimerInv, CancelRecorded, Earlier, SequenceOrder, Issued
<1>10. DueLater'
  BY <1>1, <1>4, <1>5 DEF TimerInv, DueLater, n
<1>11. FiresOnceWhenDue'
  BY <1>1, <1>4, <1>5 DEF TimerInv, FiresOnceWhenDue, HandPlace, FiredPlace, n
<1>12. FifoAcrossCallers'
  <2> SUFFICES ASSUME NEW j \in 1 .. n + 1, NEW k \in 1 .. n + 1, j < k,
                      fired'[k].id \in before[fired'[j].id]
               PROVE  fired'[k].deadline > fired'[j].deadline
    BY <1>1, <1>5 DEF FifoAcrossCallers
  <2>1. j \in 1 .. n
    BY <1>5
  <2>2. CASE k \in 1 .. n
    BY <1>5, <2>1, <2>2 DEF TimerInv, FifoAcrossCallers, n
  <2>3. CASE k = n + 1
    BY <1>1, <1>4, <1>5, <2>1, <2>3 DEF TimerInv, DueLater, n
  <2> QED
    BY <1>5, <2>2, <2>3
<1>13. CancelInTime'
  <2>1. acked[dispatch.task.id] # "pending"
    BY <1>1, <1>2 DEF TimerInv, CancelRecorded
  <2>2. FiredIds' = FiredIds \cup {dispatch.task.id}
    BY <1>4, <1>5 DEF FiredIds, n
  <2> QED
    BY <1>1, <2>1, <2>2 DEF TimerInv, CancelInTime
<1> QED
  BY <1>6, <1>7, <1>8, <1>9, <1>10, <1>11, <1>12, <1>13 DEF TimerInv

\* Every step of the timer queue's users
LEMMA TimerNextInv == TimerInv /\ [TimerNext]_timerVars => TimerInv'
<1> SUFFICES ASSUME TimerInv, [TimerNext]_timerVars PROVE TimerInv'
  OBVIOUS
<1>1. CASE ClockAdvances
  BY <1>1, ClockInv
<1>2. ASSUME NEW c \in Callers, CallerNext(c) PROVE TimerInv'
  BY <1>2, ScheduleIdInv, ScheduleStampInv, ScheduleSequenceInv, SchedulePushInv, CancelInv
     DEF CallerNext, CallerStep
<1>3. CASE TickCall
  BY <1>3, EmptyHandedInv
<1>4. CASE DispatchStep
  BY <1>4, EmptyHandedInv, DispatchPopInv, DispatchCheckInv, ExecuteCallbackInv
     DEF DispatchStep
<1>5. CASE UNCHANGED timerVars
  BY <1>5 DEF timerVars, TimerInv, TimerTypeOK, CallerPlace, HeapPlace, HandPlace, FiredPlace,
     CancelRecorded, Earlier, SequenceOrder, DueLater, FiresOnceWhenDue, FifoAcrossCallers,
     CancelInTime, FiredIds, Holding, Issued
<1> QED
  BY <1>1, <1>2, <1>3, <1>4, <1>5 DEF TimerNext

(* For any threads that call Schedule and Cancel and any thread that calls  *)
(* Tick, the queue keeps its invariant.                                     *)
THEOREM TimerQueueInvariant == TimerSpec => []TimerInv
<1> QED
  BY TimerInitInv, TimerNextInv, PTL DEF TimerSpec

----------------------------------------------------------------------------
(* The tick scheduler                                                      *)

SchedulerTypeOK ==
    /\ state \in {"Created", "Initialized", "Running", "Stopped"}
    /\ tickId \in Nat
    /\ nextTickTime \in Nat
    /\ anchor \in Nat
    /\ loop \in [pc : {"out", "loop", "timers", "sleep"}, caller : {"out", "loop"}]

\* nextTickTime is a whole number of intervals after Initialize: the end of the
\* tick that runs or comes next.
Grid ==
    state \in {"Initialized", "Running"} =>
        IF LoopAt("sleep")
        THEN nextTickTime = anchor + tickId * TickInterval
        ELSE /\ nextTickTime = anchor + (tickId + 1) * TickInterval
             /\ clock >= anchor + tickId * TickInterval

InsideTick == loop.pc \in {"timers", "sleep"} => state # "Created"

SchedulerInv == SchedulerTypeOK /\ Grid /\ InsideTick /\ TicksNotEarly

\* The scheduler uses the timer queue only through its operations.
LEMMA SchedulerStepSimulation == [SchedulerNext]_allVars => [TimerNext]_timerVars
<1> SUFFICES ASSUME [SchedulerNext]_allVars PROVE [TimerNext]_timerVars
  OBVIOUS
<1>1. CASE SchedulerInitialize \/ SchedulerShutdown \/ ShutdownInCallback \/ RunUntilStopped
  BY <1>1 DEF SchedulerInitialize, SchedulerShutdown, ShutdownInCallback, RunUntilStopped
<1>2. CASE RunOneTick \/ LoopTicks
  BY <1>2 DEF RunOneTick, LoopTicks, TickBegins, TimerNext
<1>3. CASE LoopEnds \/ LoopThrows \/ AdvanceTick \/ WaitNextTick
  BY <1>3 DEF LoopEnds, LoopThrows, AdvanceTick, WaitNextTick
<1>4. CASE TimersStep
  BY <1>4 DEF TimersStep, TimerNext
<1>5. CASE ClockAdvances \/ \E c \in Callers : CallerNext(c)
  BY <1>5 DEF TimerNext
<1>6. CASE UNCHANGED allVars
  BY <1>6 DEF allVars
<1> QED
  BY <1>1, <1>2, <1>3, <1>4, <1>5, <1>6 DEF SchedulerNext, RuntimeThreadStep

(* TickScheduler.cpp is a correct user of the TimerQueue: every behaviour   *)
(* of the scheduler, with its clock and its callers, is one of the queue.   *)
THEOREM SchedulerImplementsTimerQueue == SchedulerSpec => TimerSpec
<1>1. SchedulerInit => TimerInit
  BY DEF SchedulerInit
<1> QED
  BY <1>1, SchedulerStepSimulation, PTL DEF SchedulerSpec, TimerSpec

(* No callback of TimerQueue::Tick runs twice or early, for any number of   *)
(* timers, threads and delays.                                              *)
THEOREM TimersFireOnceWhenDue == SchedulerSpec => []FiresOnceWhenDue
<1>1. TimerInv => FiresOnceWhenDue
  BY DEF TimerInv
<1> QED
  BY <1>1, SchedulerImplementsTimerQueue, TimerQueueInvariant, PTL

(* Of two timers whose Schedule calls did not overlap, the first, if due no *)
(* later, never fires after the second, for any threads and delays.         *)
THEOREM TimersFifo == SchedulerSpec => []FifoAcrossCallers
<1>1. TimerInv => FifoAcrossCallers
  BY DEF TimerInv
<1> QED
  BY <1>1, SchedulerImplementsTimerQueue, TimerQueueInvariant, PTL

(* A timer that Cancel found in the heap never fires: the lazy record stays *)
(* until DispatchExpired drops the task.                                    *)
THEOREM TimersCancelInTime == SchedulerSpec => []CancelInTime
<1>1. TimerInv => CancelInTime
  BY DEF TimerInv
<1> QED
  BY <1>1, SchedulerImplementsTimerQueue, TimerQueueInvariant, PTL

----------------------------------------------------------------------------
\* The constructor
LEMMA SchedulerInitInv == SchedulerInit => SchedulerInv
  BY DEF SchedulerInit, SchedulerInv, SchedulerTypeOK, Grid, InsideTick, TicksNotEarly, LoopAt

\* One more tick is one more interval.
LEMMA NextGridPoint ==
    ASSUME NEW n \in Nat
    PROVE  /\ n * TickInterval \in Nat
           /\ (n + 1) * TickInterval = n * TickInterval + TickInterval
  BY TickIntervalAssumption

\* A tick begins at or after its grid point.
LEMMA TickBeginsInv ==
    ASSUME SchedulerInv, TimerTypeOK, NEW from \in {"out", "loop"}, TickBegins(from)
    PROVE  SchedulerInv'
<1>1. /\ loop' = [pc |-> "timers", caller |-> from] /\ loop.pc = from
      /\ state \in {"Initialized", "Running"} /\ state' = "Running"
      /\ dispatch'.now = clock
      /\ UNCHANGED <<clock, tickId, nextTickTime, anchor>>
  BY DEF TickBegins, TickCall, LoopAt, SchedulerInv, SchedulerTypeOK, TimerTypeOK
<1>2. clock >= anchor + tickId * TickInterval
  BY <1>1 DEF SchedulerInv, Grid, LoopAt
<1> QED
  BY <1>1, <1>2 DEF SchedulerInv, SchedulerTypeOK, Grid, InsideTick, TicksNotEarly, LoopAt

\* Every step of the scheduler keeps to the grid.
LEMMA SchedulerNextInv ==
    SchedulerInv /\ TimerTypeOK /\ [SchedulerNext]_allVars => SchedulerInv'
<1> SUFFICES ASSUME SchedulerInv, TimerTypeOK, [SchedulerNext]_allVars PROVE SchedulerInv'
  OBVIOUS
<1> USE TickIntervalAssumption
<1>0. /\ tickId \in Nat /\ clock \in Nat /\ anchor \in Nat /\ nextTickTime \in Nat
      /\ loop \in [pc : {"out", "loop", "timers", "sleep"}, caller : {"out", "loop"}]
  BY DEF SchedulerInv, SchedulerTypeOK, TimerTypeOK
<1>1. CASE SchedulerInitialize
  BY <1>0, <1>1 DEF SchedulerInitialize, timerVars, SchedulerInv, SchedulerTypeOK, Grid,
     InsideTick, TicksNotEarly, LoopAt
<1>2. CASE SchedulerShutdown \/ ShutdownInCallback
  BY <1>0, <1>2 DEF SchedulerShutdown, ShutdownInCallback, Stop, timerVars, SchedulerInv,
     SchedulerTypeOK, Grid, InsideTick, TicksNotEarly, LoopAt
<1>3. CASE RunUntilStopped \/ LoopEnds \/ LoopThrows
  BY <1>0, <1>3 DEF RunUntilStopped, LoopEnds, LoopThrows, timerVars, SchedulerInv,
     SchedulerTypeOK, Grid, InsideTick, TicksNotEarly, LoopAt, LoopGoto
<1>4. CASE RunOneTick \/ LoopTicks
  BY <1>4, TickBeginsInv DEF RunOneTick, LoopTicks
<1>5. CASE TimersStep
  <2>1. dispatch'.now = dispatch.now /\ clock' = clock
    BY <1>5 DEF TimersStep, DispatchStep, DispatchReturn, DispatchPop, DispatchCheck,
       ExecuteCallback, DispatchVars, TimerTypeOK
  <2> QED
    BY <1>5, <2>1 DEF TimersStep, schedulerVars, SchedulerInv, SchedulerTypeOK, Grid,
       InsideTick, TicksNotEarly, LoopAt
<1>6. CASE AdvanceTick
  BY <1>0, <1>6, NextGridPoint DEF AdvanceTick, timerVars, SchedulerInv, SchedulerTypeOK,
     Grid, InsideTick, TicksNotEarly, LoopAt, LoopGoto
<1>7. CASE WaitNextTick
  <2>1. /\ loop'.pc \in {"out", "loop"}
        /\ loop' \in [pc : {"out", "loop", "timers", "sleep"}, caller : {"out", "loop"}]
        /\ nextTickTime' = nextTickTime + TickInterval
        /\ loop.pc = "sleep" /\ clock >= nextTickTime
        /\ UNCHANGED <<clock, state, tickId, anchor>>
    BY <1>0, <1>7 DEF WaitNextTick, timerVars, LoopAt, LoopGoto
  <2>2. Grid'
    BY <1>0, <2>1, NextGridPoint DEF SchedulerInv, Grid, LoopAt
  <2> QED
    BY <1>0, <2>1, <2>2 DEF SchedulerInv, SchedulerTypeOK, InsideTick, TicksNotEarly, LoopAt
<1>8. CASE ClockAdvances /\ UNCHANGED schedulerVars
  BY <1>0, <1>8, NextGridPoint DEF ClockAdvances, schedulerVars, SchedulerInv, SchedulerTypeOK,
     Grid, InsideTick, TicksNotEarly, LoopAt
<1>9. ASSUME NEW c \in Callers, CallerNext(c), UNCHANGED schedulerVars PROVE SchedulerInv'
  <2>1. UNCHANGED <<clock, dispatch>>
    BY <1>9 DEF CallerNext, CallerStep, ScheduleId, ScheduleStamp, ScheduleSequence,
       SchedulePush, Cancel
  <2> QED
    BY <1>9, <2>1 DEF schedulerVars, SchedulerInv, SchedulerTypeOK, Grid, InsideTick,
       TicksNotEarly, LoopAt
<1>10. CASE UNCHANGED allVars
  BY <1>10 DEF allVars, timerVars, schedulerVars, SchedulerInv, SchedulerTypeOK, Grid,
     InsideTick, TicksNotEarly, LoopAt
<1> QED
  BY <1>1, <1>2, <1>3, <1>4, <1>5, <1>6, <1>7, <1>8, <1>9, <1>10
     DEF SchedulerNext, RuntimeThreadStep

(* Tick N of TickScheduler starts at or after Initialize + N intervals, for *)
(* any interval, however long ticks take and wherever Shutdown is called.   *)
THEOREM FixedStep == SchedulerSpec => []TicksNotEarly
<1>1. SchedulerInit => SchedulerInv
  BY SchedulerInitInv
<1>2. TimerInv => TimerTypeOK
  BY DEF TimerInv
<1>3. SchedulerInv => TicksNotEarly
  BY DEF SchedulerInv
<1>4. SchedulerSpec => []TimerInv
  BY SchedulerImplementsTimerQueue, TimerQueueInvariant, PTL
<1> QED
  BY <1>1, <1>2, <1>3, <1>4, SchedulerNextInv, PTL DEF SchedulerSpec

============================================================================
