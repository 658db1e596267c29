----------------------------- MODULE MPMCQueue -----------------------------
(***************************************************************************)
(* The bounded lock-free multi-producer multi-consumer queue of            *)
(* lockfree_queue/MPMCQueue.hpp (the ready queue of JobDispatch).          *)
(*                                                                         *)
(* Every atomic access of Enqueue and Dequeue is one action; between two   *)
(* actions of a thread any other thread may run.  A position (QueueSequence*)
(* in the code) is a natural number here: the code's 64-bit counters are   *)
(* represented by the number of increments, so the model covers runs of    *)
(* fewer than 2^63 operations.                                             *)
(*                                                                         *)
(* The plain fields of a slot are read and written only between a          *)
(* successful CAS and the release store of the slot's sequence.            *)
(***************************************************************************)
EXTENDS Integers, Sequences

CONSTANTS
    Producers,    \* threads that call Enqueue
    Consumers,    \* threads that call Dequeue
    Values,       \* the values of T
    Capacity,     \* template parameter Capacity
    MaxTickets    \* bound: Enqueue is not called once this many claims were made

ASSUME CapacityAssumption == Capacity \in Nat /\ Capacity >= 2
ASSUME ThreadsAssumption == Producers \cap Consumers = {}
ASSUME ValuesAssumption == Values # {}

VARIABLES
    head,      \* m_head
    tail,      \* m_tail
    sequence,  \* m_slots[i].sequence
    storage,   \* m_slots[i].storage
    pc,        \* where each thread is in Enqueue / Dequeue
    pos,       \* local variable pos of each thread
    item,      \* the producer's argument, the consumer's out parameter
    log        \* history: log[p+1] is the item whose producer claimed position p

vars == <<head, tail, sequence, storage, pc, pos, item, log>>

Threads == Producers \cup Consumers
Slots == 0 .. Capacity - 1

\* pos & (Capacity - 1)
Slot(p) == p % Capacity

\* static_cast<intptr_t>(seq - expected)
Diff(seq, expected) == seq - expected

Init ==
    /\ head = 0
    /\ tail = 0
    /\ sequence = [i \in Slots |-> i]
    /\ storage \in [Slots -> {CHOOSE v \in Values : TRUE}]    \* T storage{}
    /\ pc = [t \in Threads |-> "idle"]
    /\ pos = [t \in Threads |-> 0]
    /\ item = [t \in Threads |-> CHOOSE v \in Values : TRUE]
    /\ log = << >>

Goto(t, label) == pc' = [pc EXCEPT ![t] = label]

----------------------------------------------------------------------------
(* Enqueue(T &&item)                                                       *)

\* The call, up to the first load of m_tail.
EnqueueCall(p, v) ==
    /\ pc[p] = "idle"
    /\ tail < MaxTickets
    /\ item' = [item EXCEPT ![p] = v]
    /\ pos' = [pos EXCEPT ![p] = tail]
    /\ Goto(p, "loadSequence")
    /\ UNCHANGED <<head, tail, sequence, storage, log>>

\* slot.sequence.load(acquire) and the three-way test; diff < 0 returns false.
EnqueueLoadSequence(p) ==
    /\ pc[p] = "loadSequence"
    /\ LET diff == Diff(sequence[Slot(pos[p])], pos[p])
       IN \/ diff = 0 /\ Goto(p, "cas")
          \/ diff < 0 /\ Goto(p, "idle")
          \/ diff > 0 /\ Goto(p, "reload")
    /\ UNCHANGED <<head, tail, sequence, storage, pos, item, log>>

\* Mutant: a store instead of a compare-exchange.
EnqueueClaimBlindly(p) ==
    /\ pc[p] = "cas"
    /\ tail' = pos[p] + 1
    /\ log' = Append(log, item[p])
    /\ Goto(p, "write")
    /\ UNCHANGED <<head, sequence, storage, pos, item>>

\* m_tail.compare_exchange_weak succeeds: position pos is claimed.
EnqueueClaim(p) ==
    /\ pc[p] = "cas"
    /\ tail = pos[p]
    /\ tail' = tail + 1
    /\ log' = Append(log, item[p])
    /\ Goto(p, "write")
    /\ UNCHANGED <<head, sequence, storage, pos, item>>

\* compare_exchange_weak fails, spuriously too; it reloads pos.
EnqueueClaimFails(p) ==
    /\ pc[p] = "cas"
    /\ pos' = [pos EXCEPT ![p] = tail]
    /\ Goto(p, "loadSequence")
    /\ UNCHANGED <<head, tail, sequence, storage, item, log>>

\* Mutant: the retry keeps the stale position.
EnqueueReloadForgotten(p) ==
    /\ pc[p] = "reload"
    /\ Goto(p, "loadSequence")
    /\ UNCHANGED <<head, tail, sequence, storage, pos, item, log>>

\* pos = m_tail.load(relaxed) after a stale read
EnqueueReload(p) ==
    /\ pc[p] = "reload"
    /\ pos' = [pos EXCEPT ![p] = tail]
    /\ Goto(p, "loadSequence")
    /\ UNCHANGED <<head, tail, sequence, storage, item, log>>

\* slot.storage = std::move(item)
EnqueueWrite(p) ==
    /\ pc[p] = "write"
    /\ storage' = [storage EXCEPT ![Slot(pos[p])] = item[p]]
    /\ Goto(p, "publish")
    /\ UNCHANGED <<head, tail, sequence, pos, item, log>>

\* Mutant: the element is never published.
EnqueuePublishForgotten(p) ==
    /\ pc[p] = "publish"
    /\ Goto(p, "idle")
    /\ UNCHANGED <<head, tail, sequence, storage, pos, item, log>>

\* slot.sequence.store(pos + 1, release); return true
EnqueuePublish(p) ==
    /\ pc[p] = "publish"
    /\ sequence' = [sequence EXCEPT ![Slot(pos[p])] = pos[p] + 1]
    /\ Goto(p, "idle")
    /\ UNCHANGED <<head, tail, storage, pos, item, log>>

----------------------------------------------------------------------------
(* Dequeue(T &out)                                                         *)

DequeueCall(c) ==
    /\ pc[c] = "idle"
    /\ pos' = [pos EXCEPT ![c] = head]
    /\ Goto(c, "loadSequence")
    /\ UNCHANGED <<head, tail, sequence, storage, item, log>>

\* Mutant: a slot that is claimed but not yet published passes the test.
DequeueLoadSequenceEarly(c) ==
    /\ pc[c] = "loadSequence"
    /\ LET diff == Diff(sequence[Slot(pos[c])], pos[c])
       IN \/ diff \in {0, 1} /\ Goto(c, "cas")
          \/ diff < 0 /\ Goto(c, "idle")
          \/ diff > 1 /\ Goto(c, "reload")
    /\ UNCHANGED <<head, tail, sequence, storage, pos, item, log>>

DequeueLoadSequence(c) ==
    /\ pc[c] = "loadSequence"
    /\ LET diff == Diff(sequence[Slot(pos[c])], pos[c] + 1)
       IN \/ diff = 0 /\ Goto(c, "cas")
          \/ diff < 0 /\ Goto(c, "idle")
          \/ diff > 0 /\ Goto(c, "reload")
    /\ UNCHANGED <<head, tail, sequence, storage, pos, item, log>>

DequeueClaim(c) ==
    /\ pc[c] = "cas"
    /\ head = pos[c]
    /\ head' = head + 1
    /\ Goto(c, "read")
    /\ UNCHANGED <<tail, sequence, storage, pos, item, log>>

DequeueClaimFails(c) ==
    /\ pc[c] = "cas"
    /\ pos' = [pos EXCEPT ![c] = head]
    /\ Goto(c, "loadSequence")
    /\ UNCHANGED <<head, tail, sequence, storage, item, log>>

DequeueReload(c) ==
    /\ pc[c] = "reload"
    /\ pos' = [pos EXCEPT ![c] = head]
    /\ Goto(c, "loadSequence")
    /\ UNCHANGED <<head, tail, sequence, storage, item, log>>

\* Mutant: the slot is computed from m_head again instead of from pos.
DequeueReadAtHead(c) ==
    /\ pc[c] = "read"
    /\ item' = [item EXCEPT ![c] = storage[Slot(head)]]
    /\ Goto(c, "release")
    /\ UNCHANGED <<head, tail, sequence, storage, pos, log>>

\* out = std::move(slot.storage)
DequeueRead(c) ==
    /\ pc[c] = "read"
    /\ item' = [item EXCEPT ![c] = storage[Slot(pos[c])]]
    /\ Goto(c, "release")
    /\ UNCHANGED <<head, tail, sequence, storage, pos, log>>

\* Mutant: the slot is released one position too far.
DequeueReleaseTooFar(c) ==
    /\ pc[c] = "release"
    /\ sequence' = [sequence EXCEPT ![Slot(pos[c])] = pos[c] + Capacity + 1]
    /\ Goto(c, "idle")
    /\ UNCHANGED <<head, tail, storage, pos, item, log>>

\* slot.sequence.store(pos + Capacity, release); return true
DequeueRelease(c) ==
    /\ pc[c] = "release"
    /\ sequence' = [sequence EXCEPT ![Slot(pos[c])] = pos[c] + Capacity]
    /\ Goto(c, "idle")
    /\ UNCHANGED <<head, tail, storage, pos, item, log>>

----------------------------------------------------------------------------
\* The body of a call that has been made, one disjunct per atomic step.
EnqueueStep(p) ==
    \/ EnqueueLoadSequence(p)
    \/ EnqueueClaim(p)
    \/ EnqueueClaimFails(p)
    \/ EnqueueReload(p)
    \/ EnqueueWrite(p)
    \/ EnqueuePublish(p)

DequeueStep(c) ==
    \/ DequeueLoadSequence(c)
    \/ DequeueClaim(c)
    \/ DequeueClaimFails(c)
    \/ DequeueReload(c)
    \/ DequeueRead(c)
    \/ DequeueRelease(c)

Next ==
    \/ \E p \in Producers : (\E v \in Values : EnqueueCall(p, v)) \/ EnqueueStep(p)
    \/ \E c \in Consumers : DequeueCall(c) \/ DequeueStep(c)

Spec == Init /\ [][Next]_vars

(* A thread that is inside a call keeps running (the operating system      *)
(* schedules every thread), and a weak CAS whose comparison holds time and *)
(* again does not fail spuriously for ever.  Consumers poll (WorkerLoop    *)
(* calls Dequeue in a loop); producers need not call Enqueue.              *)
Fairness ==
    /\ \A p \in Producers : WF_vars(EnqueueStep(p)) /\ SF_vars(EnqueueClaim(p))
    /\ \A c \in Consumers :
          /\ WF_vars(DequeueCall(c) \/ DequeueStep(c))
          /\ SF_vars(DequeueClaim(c))

----------------------------------------------------------------------------
PcLabels ==
    {"idle", "loadSequence", "cas", "reload", "write", "publish", "read", "release"}

TypeOK ==
    /\ head \in Nat
    /\ tail \in Nat
    /\ sequence \in [Slots -> Nat]
    /\ storage \in [Slots -> Values]
    /\ pc \in [Threads -> PcLabels]
    /\ pos \in [Threads -> Nat]
    /\ item \in [Threads -> Values]
    /\ log \in Seq(Values)

\* A thread owns its slot from its successful CAS to its release store.
Owns(t) == pc[t] \in {"write", "publish", "read", "release"}

(* No two threads ever own the same slot, whatever lap they are on: the    *)
(* plain accesses to slot.storage (MPMCQueue.hpp:75 and :128) never race,  *)
(* so a consumer cannot see a half-written element.                        *)
ExclusiveSlots ==
    \A t, u \in Threads :
        t # u /\ Owns(t) /\ Owns(u) => Slot(pos[t]) # Slot(pos[u])

(* Contract 5 of interface_contract.md, "global FIFO based on successful   *)
(* enqueue order": the consumer that claimed position p leaves with        *)
(* exactly the item of the producer that claimed position p.               *)
DeliversInOrder ==
    \A c \in Consumers :
        pc[c] = "release" => pos[c] < Len(log) /\ item[c] = log[pos[c] + 1]

(* At most Capacity positions are between the two counters, and the        *)
(* consumers never overtake the producers (contract 10, "bounded").        *)
Bounded == head <= tail /\ tail <= head + Capacity

----------------------------------------------------------------------------
(* Why the algorithm works: the inductive invariant of MPMCQueueProofs.    *)

\* A thread that has claimed a position is on its own side of the queue.
Roles ==
    /\ \A p \in Producers : pc[p] \notin {"read", "release"} /\ pos[p] <= tail
    /\ \A c \in Consumers : pc[c] \notin {"write", "publish"} /\ pos[c] <= head

\* Positions head .. tail-1: claimed (sequence p) or published (sequence p+1).
FilledWindow ==
    \A p \in head .. tail - 1 :
        /\ sequence[Slot(p)] \in {p, p + 1}
        /\ sequence[Slot(p)] = p + 1 => storage[Slot(p)] = log[p + 1]

\* Positions tail .. head+Capacity-1: free, or still read by the last lap's consumer.
FreeWindow ==
    \A p \in tail .. head + Capacity - 1 :
        sequence[Slot(p)] \in {p, p + 1 - Capacity}

ProducerClaims ==
    \A p \in Producers :
        /\ Owns(p) => /\ head <= pos[p] /\ pos[p] < tail
                      /\ sequence[Slot(pos[p])] = pos[p]
                      /\ item[p] = log[pos[p] + 1]
        /\ pc[p] = "publish" => storage[Slot(pos[p])] = item[p]
        /\ pc[p] = "cas" /\ pos[p] = tail => sequence[Slot(tail)] = tail

ConsumerClaims ==
    \A c \in Consumers :
        /\ Owns(c) => /\ pos[c] < head /\ tail <= pos[c] + Capacity
                      /\ sequence[Slot(pos[c])] = pos[c] + 1
        /\ pc[c] = "read" => storage[Slot(pos[c])] = log[pos[c] + 1]
        /\ pc[c] = "release" => item[c] = log[pos[c] + 1]
        /\ pc[c] = "cas" /\ pos[c] = head => sequence[Slot(head)] = head + 1

UniqueClaims ==
    \A t, u \in Threads :
        t # u /\ Owns(t) /\ Owns(u) /\ (t \in Producers <=> u \in Producers)
            => pos[t] # pos[u]

(* The sequence number of a slot tells, for every lap, who may touch it:   *)
(* it agrees with the two counters and with every claim in flight.         *)
SlotProtocol ==
    /\ Len(log) = tail
    /\ Bounded
    /\ Roles
    /\ FilledWindow
    /\ FreeWindow
    /\ ProducerClaims
    /\ ConsumerClaims
    /\ UniqueClaims

(* The inductive invariant: the state has its type and every slot follows  *)
(* the protocol, so that the next lap may trust the sequence numbers.      *)
IInv == TypeOK /\ SlotProtocol

----------------------------------------------------------------------------
(* What the queue promises: the bounded FIFO, with the claims of the two   *)
(* counters as linearization points.                                       *)
Fifo == INSTANCE BoundedFifo WITH accepted <- log, taken <- head

(* Every step is a FIFO step or leaves the FIFO unchanged.                 *)
ImplementsFifo == Fifo!Spec

(* Contract 1, "lock-free": as long as finitely many claims succeed (here  *)
(* MaxTickets), no call spins for ever, whatever the interleaving.         *)
EnqueueReturns == \A p \in Producers : (pc[p] # "idle") ~> (pc[p] = "idle")

(* An element whose position was claimed is eventually taken by a polling  *)
(* consumer, also when a later producer published first.                   *)
EventuallyTaken == \A n \in 1 .. MaxTickets : (tail >= n) ~> (head >= n)
============================================================================
