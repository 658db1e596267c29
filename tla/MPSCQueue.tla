----------------------------- MODULE MPSCQueue -----------------------------
(***************************************************************************)
(* The bounded multi-producer single-consumer queue of                     *)
(* lockfree_queue/MPSCQueue.hpp (the inbound queue of NetServer).          *)
(*                                                                         *)
(* Every atomic access is one action.  Positions and sequence numbers keep *)
(* their width: they are counted modulo Width (2^64 in the code) and       *)
(* compared by a signed difference, so the model has no bound on the       *)
(* number of operations and its counters wrap round.                       *)
(***************************************************************************)
EXTENDS Integers, Sequences

CONSTANTS
    Producers,   \* threads that call Enqueue
    Values,      \* the values of T that are enqueued
    Empty,       \* a T that is default-constructed or was moved from
    Capacity,    \* template parameter Capacity
    Width,       \* the number of values of QueueSequence
    MaxLag       \* bound: claims that may pass while a thread sleeps in a call

(* Capacity and Width are powers of two in the code.  A thread that sleeps *)
(* while half of all positions go by would misread a difference: with 64   *)
(* bits that takes 2^63 operations.                                        *)
ASSUME WidthAssumption ==
    /\ Capacity \in Nat /\ Capacity >= 2
    /\ Width \in Nat /\ Width % (2 * Capacity) = 0
    /\ MaxLag \in Nat \ {0} /\ MaxLag + Capacity <= Width \div 2

VARIABLES
    enqueuePos,   \* m_enqueuePos
    dequeuePos,   \* m_dequeuePos
    sequence,     \* m_slots[i].sequence
    storage,      \* m_slots[i].storage
    producer,     \* each producer in Enqueue: pc, pos, item
    consumer,     \* where the consumer is in Dequeue
    out,          \* the consumer's out parameter
    observer      \* a thread in ApproxSize: its first load; history: claims since

vars == <<enqueuePos, dequeuePos, sequence, storage, producer, consumer, out, observer>>

Slots == 0 .. Capacity - 1

\* pos & (Capacity - 1)
Slot(p) == p % Capacity

\* Unsigned arithmetic on QueueSequence.
Add(p, n) == (p + n) % Width
Distance(p, q) == (p - q) % Width

\* Mutant: the positions are compared as if they never wrapped.
DiffNoWrap(seq, expected) == seq - expected

\* static_cast<intptr_t>(seq - expected)
Diff(seq, expected) ==
    LET d == Distance(seq, expected)
    IN IF d < Width \div 2 THEN d ELSE d - Width

IdleProducer == [pc |-> "idle", pos |-> 0, item |-> Empty]
IdleObserver == [inCall |-> FALSE, first |-> 0, passed |-> 0]

Init ==
    /\ enqueuePos = 0
    /\ dequeuePos = 0
    /\ sequence = [i \in Slots |-> i]
    /\ storage = [i \in Slots |-> Empty]
    /\ producer = [p \in Producers |-> IdleProducer]
    /\ consumer = "idle"
    /\ out = Empty
    /\ observer = IdleObserver

----------------------------------------------------------------------------
(* Enqueue(T &&item)                                                       *)

\* The call, up to the first load of m_enqueuePos.
EnqueueCall(p, v) ==
    /\ producer[p].pc = "idle"
    /\ producer' = [producer EXCEPT ![p] =
                        [pc |-> "loadSequence", pos |-> enqueuePos, item |-> v]]
    /\ UNCHANGED <<enqueuePos, dequeuePos, sequence, storage, consumer, out, observer>>

\* slot.sequence.load(acquire) and the three-way test
EnqueueLoadSequence(p) ==
    /\ producer[p].pc = "loadSequence"
    /\ LET diff == Diff(sequence[Slot(producer[p].pos)], producer[p].pos)
       IN \/ diff = 0 /\ producer' = [producer EXCEPT ![p].pc = "cas"]
          \/ diff < 0 /\ producer' = [producer EXCEPT ![p] = IdleProducer]
          \/ diff > 0 /\ producer' = [producer EXCEPT ![p].pc = "reload"]
    /\ UNCHANGED <<enqueuePos, dequeuePos, sequence, storage, consumer, out, observer>>

\* Nobody who looks at an older position has been asleep for too long.
WithinLag(p) ==
    /\ \A q \in Producers \ {p} :
            producer[q].pc \in {"loadSequence", "cas"}
                => Distance(enqueuePos, producer[q].pos) < MaxLag
    /\ observer.passed < MaxLag

Passed == IF observer.inCall THEN [observer EXCEPT !.passed = @ + 1] ELSE observer

\* m_enqueuePos.compare_exchange_weak succeeds.
EnqueueClaim(p) ==
    /\ producer[p].pc = "cas"
    /\ enqueuePos = producer[p].pos
    /\ WithinLag(p)
    /\ enqueuePos' = Add(enqueuePos, 1)
    /\ producer' = [producer EXCEPT ![p].pc = "write"]
    /\ observer' = Passed
    /\ UNCHANGED <<dequeuePos, sequence, storage, consumer, out>>

\* It fails, spuriously too, and reloads pos; so does the branch diff > 0.
EnqueueRetry(p) ==
    /\ producer[p].pc \in {"cas", "reload"}
    /\ producer' = [producer EXCEPT ![p].pc = "loadSequence", ![p].pos = enqueuePos]
    /\ UNCHANGED <<enqueuePos, dequeuePos, sequence, storage, consumer, out, observer>>

\* slot.storage = std::move(item)
EnqueueWrite(p) ==
    /\ producer[p].pc = "write"
    /\ storage' = [storage EXCEPT ![Slot(producer[p].pos)] = producer[p].item]
    /\ producer' = [producer EXCEPT ![p].pc = "publish", ![p].item = Empty]
    /\ UNCHANGED <<enqueuePos, dequeuePos, sequence, consumer, out, observer>>

\* Mutant: the element is never published.
EnqueuePublishForgotten(p) ==
    /\ producer[p].pc = "publish"
    /\ producer' = [producer EXCEPT ![p] = IdleProducer]
    /\ UNCHANGED <<enqueuePos, dequeuePos, sequence, storage, consumer, out, observer>>

\* slot.sequence.store(pos + 1, release); return true
EnqueuePublish(p) ==
    /\ producer[p].pc = "publish"
    /\ sequence' = [sequence EXCEPT ![Slot(producer[p].pos)] = Add(producer[p].pos, 1)]
    /\ producer' = [producer EXCEPT ![p] = IdleProducer]
    /\ UNCHANGED <<enqueuePos, dequeuePos, storage, consumer, out, observer>>

EnqueueStep(p) ==
    \/ EnqueueLoadSequence(p) \/ EnqueueClaim(p) \/ EnqueueRetry(p)
    \/ EnqueueWrite(p) \/ EnqueuePublish(p)

----------------------------------------------------------------------------
(* Dequeue(T &out): only the consumer stores m_dequeuePos, so its local    *)
(* deqPos is m_dequeuePos until the last step of the call.                 *)

DequeueCall ==
    /\ consumer = "idle"
    /\ consumer' = "loadSequence"
    /\ UNCHANGED <<enqueuePos, dequeuePos, sequence, storage, producer, out, observer>>

\* Mutant: a position that is claimed but not yet published passes the test.
DequeueLoadSequenceEarly ==
    /\ consumer = "loadSequence"
    /\ consumer' = IF Diff(sequence[Slot(dequeuePos)], dequeuePos) \in {0, 1}
                      /\ dequeuePos # enqueuePos
                   THEN "read" ELSE "idle"
    /\ UNCHANGED <<enqueuePos, dequeuePos, sequence, storage, producer, out, observer>>

\* The slot's sequence; anything but deqPos + 1 returns false.
DequeueLoadSequence ==
    /\ consumer = "loadSequence"
    /\ consumer' = IF Diff(sequence[Slot(dequeuePos)], Add(dequeuePos, 1)) = 0
                   THEN "read" ELSE "idle"
    /\ UNCHANGED <<enqueuePos, dequeuePos, sequence, storage, producer, out, observer>>

\* out = std::move(slot.storage)
DequeueRead ==
    /\ consumer = "read"
    /\ out' = storage[Slot(dequeuePos)]
    /\ storage' = [storage EXCEPT ![Slot(dequeuePos)] = Empty]
    /\ consumer' = "release"
    /\ UNCHANGED <<enqueuePos, dequeuePos, sequence, producer, observer>>

\* slot.sequence.store(deqPos + Capacity, release)
DequeueRelease ==
    /\ consumer = "release"
    /\ sequence' = [sequence EXCEPT ![Slot(dequeuePos)] = Add(dequeuePos, Capacity)]
    /\ consumer' = "advance"
    /\ UNCHANGED <<enqueuePos, dequeuePos, storage, producer, out, observer>>

\* m_dequeuePos.store(deqPos + 1, release); return true
DequeueAdvance ==
    /\ consumer = "advance"
    /\ dequeuePos' = Add(dequeuePos, 1)
    /\ consumer' = "idle"
    /\ UNCHANGED <<enqueuePos, sequence, storage, producer, out, observer>>

DequeueStep == DequeueLoadSequence \/ DequeueRead \/ DequeueRelease \/ DequeueAdvance

----------------------------------------------------------------------------
(* ApproxSize(): two loads, then an unsigned difference that is never      *)
(* clamped (MPMCQueue clamps it).                                          *)

\* Mutant: m_dequeuePos is loaded first.
LoadsDequeueFirst == FALSE

\* m_enqueuePos is loaded first, m_dequeuePos when the result is computed.
LoadsEnqueueFirst == TRUE

ApproxSizeCall ==
    /\ ~observer.inCall
    /\ observer' = [inCall |-> TRUE, passed |-> 0,
                    first |-> IF LoadsEnqueueFirst THEN enqueuePos ELSE dequeuePos]
    /\ UNCHANGED <<enqueuePos, dequeuePos, sequence, storage, producer, consumer, out>>

\* What the call returns if it makes its second load now.
ApproxSize ==
    IF LoadsEnqueueFirst THEN Distance(observer.first, dequeuePos)
    ELSE Distance(enqueuePos, observer.first)

ApproxSizeReturn ==
    /\ observer.inCall
    /\ observer' = IdleObserver
    /\ UNCHANGED <<enqueuePos, dequeuePos, sequence, storage, producer, consumer, out>>

----------------------------------------------------------------------------
Next ==
    \/ \E p \in Producers : (\E v \in Values : EnqueueCall(p, v)) \/ EnqueueStep(p)
    \/ DequeueCall \/ DequeueStep
    \/ ApproxSizeCall \/ ApproxSizeReturn

Spec == Init /\ [][Next]_vars

(* Threads inside a call keep running and the consumer polls (NetServer    *)
(* drains the queue in every PollPacket); producers need not call.         *)
FairSpec ==
    /\ Spec
    /\ \A p \in Producers : WF_vars(EnqueueStep(p))
    /\ WF_vars(DequeueCall \/ DequeueStep)
----------------------------------------------------------------------------
(* What the queue holds, read off the slots: from the first position whose *)
(* element the consumer has not moved out to the last one claimed.  An     *)
(* element whose producer has not stored it is still in that producer's    *)
(* hands.                                                                  *)
FirstWaiting ==
    IF consumer \in {"release", "advance"} THEN Add(dequeuePos, 1) ELSE dequeuePos

ElementAt(pos) ==
    LET unwritten == {p \in Producers : producer[p].pc = "write" /\ producer[p].pos = pos}
    IN IF unwritten = {} THEN storage[Slot(pos)]
       ELSE producer[CHOOSE p \in unwritten : TRUE].item

Contents ==
    [i \in 1 .. Distance(enqueuePos, FirstWaiting) |-> ElementAt(Add(FirstWaiting, i - 1))]

Fifo == INSTANCE BoundedQueue WITH queue <- Contents

(* However often the counters wrap, every step is a step of the bounded    *)
(* queue or leaves it alone: nothing is lost, duplicated, reordered or     *)
(* overwritten, and the consumer is given the oldest element.              *)
ImplementsQueue == Fifo!Spec

(* "When full: enqueue fails immediately", and only then: Enqueue returns  *)
(* false only if every slot is still taken by a waiting element or by the  *)
(* element the consumer is moving out.                                     *)
RefusesOnlyWhenFull ==
    [][\A p \in Producers :
          producer[p].pc = "loadSequence" /\ producer'[p].pc = "idle"
              => Len(Contents) + (IF consumer = "release" THEN 1 ELSE 0) = Capacity]_vars

(* How far ApproxSize is off.  It never reports more than Capacity + 1:    *)
(* the one is the element whose slot was reused before m_dequeuePos moved. *)
(* It wraps below zero only if positions were claimed and consumed between *)
(* the two loads, and by no more than those: a call during which nobody    *)
(* claims a position returns a number from 0 to Capacity + 1.  This is     *)
(* less than the comments at MPSCQueue.hpp:129 (a completely safe metric)  *)
(* and :136 (a wrap-safe difference) say: a call that is overtaken may     *)
(* well return almost Width.                                               *)
SizeEstimate ==
    observer.inCall => Diff(ApproxSize, 0) \in -observer.passed .. Capacity + 1

(* A polling consumer is never stuck behind claimed elements: again and    *)
(* again the queue is empty or the consumer has just moved an element out, *)
(* although a position is claimed before its element is published.         *)
KeepsDelivering == []<>(Contents = << >> \/ consumer = "release")
============================================================================
