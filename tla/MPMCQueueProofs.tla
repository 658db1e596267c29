-------------------------- MODULE MPMCQueueProofs --------------------------
(***************************************************************************)
(* Proofs about MPMCQueue for every number of threads, every value set,    *)
(* every capacity of at least two and every number of calls.               *)
(*                                                                         *)
(* The argument rests on two facts about pos & (Capacity - 1): positions   *)
(* of one slot are at least Capacity apart, and a lap later a position is  *)
(* back in its slot.  With them, each slot has exactly one position in     *)
(* head .. head+Capacity-1, and SlotProtocol is inductive.                 *)
(***************************************************************************)
EXTENDS MPMCQueue, TLAPS

----------------------------------------------------------------------------
(* Arithmetic of slots.                                                    *)

(* A position is a number of laps and an offset in the ring.               *)
LEMMA LapAndOffset ==
    ASSUME NEW p \in Nat
    PROVE  /\ p % Capacity \in 0 .. Capacity - 1
           /\ p \div Capacity \in Int
           /\ p = Capacity * (p \div Capacity) + (p % Capacity)
BY CapacityAssumption

(* One more lap is at least Capacity more positions.                       *)
LEMMA LapLength ==
    ASSUME NEW a \in Int, NEW b \in Int, a < b
    PROVE  Capacity * b >= Capacity * a + Capacity
BY CapacityAssumption

(* Stated apart from any context, for the solvers.                         *)
LEMMA BelowOrEqual ==
    ASSUME NEW a \in Int, NEW b \in Int, a <= b PROVE a < b \/ a = b
OBVIOUS

(* The index computed from a position is inside m_slots.                   *)
LEMMA SlotInRing == ASSUME NEW p \in Nat PROVE Slot(p) \in Slots
BY LapAndOffset DEF Slot, Slots

(* Two positions of one slot are at least one lap apart.                   *)
LEMMA SlotsApart ==
    ASSUME NEW p \in Nat, NEW q \in Nat, Slot(p) = Slot(q), p < q
    PROVE  p + Capacity <= q
<1> DEFINE a == p \div Capacity
           b == q \div Capacity
           r == p % Capacity
<1>1. /\ a \in Int /\ b \in Int /\ r \in Int
      /\ p = Capacity * a + r
      /\ q = Capacity * b + r
  BY LapAndOffset DEF Slot
<1> HIDE DEF a, b, r
<1>2. CASE a < b
  <2>1. Capacity * b >= Capacity * a + Capacity
    BY <1>1, <1>2, LapLength
  <2> QED
    BY <2>1, <1>1, CapacityAssumption
<1>3. CASE a = b
  BY <1>1, <1>3, CapacityAssumption
<1>4. CASE b < a
  <2>1. Capacity * a >= Capacity * b + Capacity
    BY <1>1, <1>4, LapLength
  <2> QED
    BY <2>1, <1>1, CapacityAssumption
<1> QED
  BY <1>1, <1>2, <1>3, <1>4

(* A lap later a position is back in its slot.                             *)
LEMMA SlotPeriodic == ASSUME NEW p \in Nat PROVE Slot(p + Capacity) = Slot(p)
<1> DEFINE q == p + Capacity
           a == p \div Capacity
           b == q \div Capacity
           r == p % Capacity
           s == q % Capacity
<1>0. q \in Nat
  BY CapacityAssumption
<1>1. /\ a \in Int /\ b \in Int
      /\ r \in 0 .. Capacity - 1 /\ s \in 0 .. Capacity - 1
      /\ p = Capacity * a + r
      /\ q = Capacity * b + s
  BY <1>0, LapAndOffset
<1>2. q = p + Capacity
  OBVIOUS
<1>3. Capacity * (a + 1) = Capacity * a + Capacity
  BY <1>1, CapacityAssumption
<1>4. SUFFICES r = s
  BY DEF Slot
<1> HIDE DEF q, a, b, r, s
<1>5. CASE b < a + 1
  <2>1. Capacity * (a + 1) >= Capacity * b + Capacity
    BY <1>1, <1>5, LapLength
  <2> QED
    BY <2>1, <1>0, <1>1, <1>2, <1>3, CapacityAssumption
<1>6. CASE b = a + 1
  BY <1>0, <1>1, <1>2, <1>3, <1>6, CapacityAssumption
<1>7. CASE a + 1 < b
  <2>1. Capacity * b >= Capacity * (a + 1) + Capacity
    BY <1>1, <1>7, LapLength
  <2> QED
    BY <2>1, <1>0, <1>1, <1>2, <1>3, CapacityAssumption
<1> QED
  BY <1>1, <1>5, <1>6, <1>7

----------------------------------------------------------------------------
(* Type correctness.                                                       *)

LEMMA InitTypeOK == Init => TypeOK
<1> SUFFICES ASSUME Init PROVE TypeOK
  OBVIOUS
<1>1. (CHOOSE v \in Values : TRUE) \in Values
  BY ValuesAssumption
<1> QED
  BY <1>1, CapacityAssumption DEF Init, TypeOK, Slots, PcLabels

LEMMA StepTypeOK == TypeOK /\ [Next]_vars => TypeOK'
<1> SUFFICES ASSUME TypeOK, [Next]_vars PROVE TypeOK'
  OBVIOUS
<1> USE CapacityAssumption DEF TypeOK, Goto, PcLabels, Threads
<1>1. ASSUME NEW p \in Producers, NEW v \in Values, EnqueueCall(p, v) PROVE TypeOK'
  BY <1>1 DEF EnqueueCall
<1>2. ASSUME NEW p \in Producers, EnqueueStep(p) PROVE TypeOK'
  <2>1. CASE EnqueueLoadSequence(p)
    BY <2>1 DEF EnqueueLoadSequence
  <2>2. CASE EnqueueClaim(p)
    BY <2>2 DEF EnqueueClaim
  <2>3. CASE EnqueueClaimFails(p)
    BY <2>3 DEF EnqueueClaimFails
  <2>4. CASE EnqueueReload(p)
    BY <2>4 DEF EnqueueReload
  <2>5. CASE EnqueueWrite(p)
    BY <2>5 DEF EnqueueWrite
  <2>6. CASE EnqueuePublish(p)
    <3>1. pos[p] + 1 \in Nat
      OBVIOUS
    <3> QED
      BY <2>6, <3>1 DEF EnqueuePublish
  <2> QED
    BY <1>2, <2>1, <2>2, <2>3, <2>4, <2>5, <2>6 DEF EnqueueStep
<1>3. ASSUME NEW c \in Consumers, DequeueCall(c) PROVE TypeOK'
  BY <1>3 DEF DequeueCall
<1>4. ASSUME NEW c \in Consumers, DequeueStep(c) PROVE TypeOK'
  <2>1. CASE DequeueLoadSequence(c)
    BY <2>1 DEF DequeueLoadSequence
  <2>2. CASE DequeueClaim(c)
    BY <2>2 DEF DequeueClaim
  <2>3. CASE DequeueClaimFails(c)
    BY <2>3 DEF DequeueClaimFails
  <2>4. CASE DequeueReload(c)
    BY <2>4 DEF DequeueReload
  <2>5. CASE DequeueRead(c)
    BY <2>5, SlotInRing DEF DequeueRead
  <2>6. CASE DequeueRelease(c)
    <3>1. pos[c] + Capacity \in Nat
      OBVIOUS
    <3> QED
      BY <2>6, <3>1 DEF DequeueRelease
  <2> QED
    BY <1>4, <2>1, <2>2, <2>3, <2>4, <2>5, <2>6 DEF DequeueStep
<1>5. CASE UNCHANGED vars
  BY <1>5 DEF vars
<1> QED
  BY <1>1, <1>2, <1>3, <1>4, <1>5 DEF Next

(* The state keeps its type in every execution.                            *)
THEOREM TypeCorrect == Spec => []TypeOK
<1> QED
  BY InitTypeOK, StepTypeOK, PTL DEF Spec
----------------------------------------------------------------------------
(* The slot protocol is inductive.                                         *)

(* The empty queue satisfies the protocol.                                 *)
LEMMA InitSlotProtocol == Init => SlotProtocol
<1> SUFFICES ASSUME Init PROVE SlotProtocol
  OBVIOUS
<1> USE CapacityAssumption DEF Init
<1>1. Len(log) = tail /\ Bounded /\ Roles
  BY DEF Bounded, Roles, Threads
<1>2. FilledWindow
  BY DEF FilledWindow
<1>3. FreeWindow
  <2> SUFFICES ASSUME NEW p \in 0 .. Capacity - 1 PROVE sequence[Slot(p)] = p
    BY DEF FreeWindow
  <2>1. p \in Nat /\ Slot(p) \in Slots
    BY SlotInRing
  <2>2. Slot(p) \in Nat /\ Slot(Slot(p)) = Slot(p) /\ Slot(p) = p
    BY <2>1, SMTT(30) DEF Slot, Slots
  <2> QED
    BY <2>1, <2>2
<1>4. ProducerClaims /\ ConsumerClaims /\ UniqueClaims
  BY DEF ProducerClaims, ConsumerClaims, UniqueClaims, Owns, Threads
<1> QED
  BY <1>1, <1>2, <1>3, <1>4 DEF SlotProtocol

(* A step that only moves a thread between labels at which it owns nothing *)
(* keeps the protocol, provided a thread that goes on to its CAS has seen  *)
(* the sequence number that allows it.                                     *)
LEMMA LocalStep ==
    ASSUME TypeOK, TypeOK', SlotProtocol,
           NEW t \in Threads,
           UNCHANGED <<head, tail, sequence, storage, log>>,
           ~Owns(t), ~Owns(t)',
           \A u \in Threads \ {t} :
               pc'[u] = pc[u] /\ pos'[u] = pos[u] /\ item'[u] = item[u],
           t \in Producers => pos'[t] <= tail,
           t \in Consumers => pos'[t] <= head,
           t \in Producers /\ pc'[t] = "cas" => sequence[Slot(pos'[t])] = pos'[t],
           t \in Consumers /\ pc'[t] = "cas" => sequence[Slot(pos'[t])] = pos'[t] + 1
    PROVE  SlotProtocol'
<1> USE DEF SlotProtocol, Threads
<1>1. (Len(log) = tail)' /\ Bounded'
  BY DEF Bounded
<1>2. Roles'
  BY DEF Roles, Owns
<1>3. FilledWindow'
  BY DEF FilledWindow
<1>4. FreeWindow'
  BY DEF FreeWindow
<1>5. ProducerClaims'
  BY DEF ProducerClaims, Owns
<1>6. ConsumerClaims'
  BY DEF ConsumerClaims, Owns
<1>7. UniqueClaims'
  BY DEF UniqueClaims, Owns
<1> QED
  BY <1>1, <1>2, <1>3, <1>4, <1>5, <1>6, <1>7

(* The filled and the free positions together are one lap.                 *)
LEMMA WindowPositions ==
    ASSUME TypeOK, Bounded,
           NEW p \in Int, p \in head .. tail - 1 \/ p \in tail .. head + Capacity - 1
    PROVE  p \in head .. head + Capacity - 1 /\ p \in Nat /\ Slot(p) \in Slots
<1>1. head \in Nat /\ tail \in Nat /\ head <= tail /\ tail <= head + Capacity
  BY DEF TypeOK, Bounded
<1>2. p \in head .. head + Capacity - 1 /\ p \in Nat
  BY <1>1, CapacityAssumption
<1> QED
  BY <1>2, SlotInRing

(* The position at tail is free when its slot allows the claim: the queue  *)
(* is not full, and no consumer of the last lap is still in that slot.     *)
LEMMA ClaimAtTail ==
    ASSUME TypeOK, SlotProtocol, sequence[Slot(tail)] = tail
    PROVE  /\ tail < head + Capacity
           /\ \A c \in Consumers : Owns(c) => tail < pos[c] + Capacity
<1> USE CapacityAssumption DEF TypeOK, SlotProtocol, Bounded
<1>1. ASSUME tail = head + Capacity PROVE FALSE
  <2>1. Slot(tail) = Slot(head)
    BY <1>1, SlotPeriodic
  <2>2. sequence[Slot(head)] \in {head, head + 1}
    BY <1>1 DEF FilledWindow
  <2> QED
    BY <1>1, <2>1, <2>2
<1>2. ASSUME NEW c \in Consumers, Owns(c), tail = pos[c] + Capacity PROVE FALSE
  <2>1. pos[c] \in Nat
    BY DEF Threads
  <2>2. Slot(tail) = Slot(pos[c])
    BY <1>2, <2>1, SlotPeriodic
  <2> QED
    BY <1>2, <2>1, <2>2 DEF ConsumerClaims
<1>3. ASSUME NEW c \in Consumers, Owns(c) PROVE tail < pos[c] + Capacity
  <2>1. pos[c] \in Nat
    BY DEF Threads
  <2>2. tail <= pos[c] + Capacity
    BY <1>3 DEF ConsumerClaims
  <2>3. ~(tail = pos[c] + Capacity)
    BY <1>2, <1>3
  <2>4. tail \in Int /\ pos[c] + Capacity \in Int
    BY <2>1
  <2> HIDE DEF TypeOK, SlotProtocol, Bounded
  <2> QED
    BY <2>2, <2>3, <2>4
<1> QED
  BY <1>1, <1>3

(* The position at head is published when its slot allows the claim.       *)
LEMMA ClaimAtHead ==
    ASSUME TypeOK, SlotProtocol, sequence[Slot(head)] = head + 1
    PROVE  /\ head < tail
           /\ storage[Slot(head)] = log[head + 1]
           /\ \A p \in Producers : Owns(p) => head < pos[p]
<1> USE CapacityAssumption DEF TypeOK, SlotProtocol, Bounded
<1>1. head < tail
  <2>1. ASSUME head = tail PROVE FALSE
    <3>1. head \in tail .. head + Capacity - 1
      BY <2>1
    <3>2. sequence[Slot(head)] \in {head, head + 1 - Capacity}
      BY <3>1 DEF FreeWindow
    <3> QED
      BY <3>2
  <2> QED
    BY <2>1
<1>2. storage[Slot(head)] = log[head + 1]
  BY <1>1 DEF FilledWindow
<1>3. ASSUME NEW p \in Producers, Owns(p) PROVE head < pos[p]
  <2>1. pos[p] \in Nat
    BY DEF Threads
  <2> QED
    BY <1>3, <2>1 DEF ProducerClaims
<1> QED
  BY <1>1, <1>2, <1>3

(* Distinct owners of a role own distinct slots, and a producer never owns *)
(* a slot that a consumer owns.                                            *)
LEMMA OwnersApart ==
    ASSUME TypeOK, SlotProtocol,
           NEW t \in Threads, NEW u \in Threads, t # u, Owns(t), Owns(u)
    PROVE  Slot(pos[t]) # Slot(pos[u])
<1> USE CapacityAssumption DEF TypeOK, SlotProtocol, Bounded
<1>0. pos[t] \in Nat /\ pos[u] \in Nat
  OBVIOUS
<1>1. SUFFICES ASSUME Slot(pos[t]) = Slot(pos[u]) PROVE FALSE
  OBVIOUS
<1>2. pos[t] # pos[u] => pos[t] + Capacity <= pos[u] \/ pos[u] + Capacity <= pos[t]
  BY <1>0, <1>1, SlotsApart
<1>3. CASE t \in Producers /\ u \in Producers
  <2>1. /\ head <= pos[t] /\ pos[t] < tail
        /\ head <= pos[u] /\ pos[u] < tail
    BY <1>3 DEF ProducerClaims
  <2>2. pos[t] # pos[u]
    BY <1>3 DEF UniqueClaims
  <2> QED
    BY <1>0, <1>2, <2>1, <2>2
<1>4. CASE t \in Consumers /\ u \in Consumers
  <2>1. /\ pos[t] < head /\ tail <= pos[t] + Capacity
        /\ pos[u] < head /\ tail <= pos[u] + Capacity
    BY <1>4 DEF ConsumerClaims
  <2>2. pos[t] # pos[u]
    BY <1>4, ThreadsAssumption DEF UniqueClaims
  <2> QED
    BY <1>0, <1>2, <2>1, <2>2
<1>5. ASSUME NEW p \in Producers, NEW c \in Consumers, Owns(p), Owns(c),
             Slot(pos[p]) = Slot(pos[c])
      PROVE  FALSE
  <2>1. pos[p] \in Nat /\ pos[c] \in Nat
    BY DEF Threads
  <2>2. pos[p] = pos[c] + 1
    BY <1>5 DEF ProducerClaims, ConsumerClaims
  <2>3. pos[c] + Capacity <= pos[p]
    BY <1>5, <2>1, <2>2, SlotsApart
  <2> QED
    BY <2>1, <2>2, <2>3
<1> QED
  BY <1>1, <1>3, <1>4, <1>5 DEF Threads

----------------------------------------------------------------------------
(* m_tail.compare_exchange succeeds.                                       *)
LEMMA EnqueueClaimStep ==
    ASSUME TypeOK, TypeOK', SlotProtocol, NEW t \in Producers, EnqueueClaim(t)
    PROVE  SlotProtocol'
<1> USE CapacityAssumption, ThreadsAssumption DEF TypeOK, SlotProtocol, EnqueueClaim, Goto
<1>0. t \in Threads /\ pos[t] = tail /\ pos[t] \in Nat
  BY DEF Threads
<1>1. sequence[Slot(tail)] = tail
  BY <1>0 DEF ProducerClaims
<1>2. /\ tail < head + Capacity
      /\ \A c \in Consumers : Owns(c) => tail < pos[c] + Capacity
  BY <1>1, ClaimAtTail
<1>3. /\ Len(log') = tail'
      /\ \A i \in 1 .. tail : log'[i] = log[i]
      /\ log'[tail + 1] = item[t]
  OBVIOUS
<1>4. Bounded'
  BY <1>2 DEF Bounded
<1>5. Roles'
  BY <1>0 DEF Roles, Threads
<1>6. FilledWindow'
  <2> SUFFICES ASSUME NEW p \in head .. tail
               PROVE  /\ sequence[Slot(p)] \in {p, p + 1}
                      /\ sequence[Slot(p)] = p + 1 => storage[Slot(p)] = log'[p + 1]
    BY DEF FilledWindow
  <2>1. CASE p = tail
    BY <1>1, <2>1
  <2>2. CASE p # tail
    <3>1. p \in head .. tail - 1 /\ p + 1 \in 1 .. tail
      BY <2>2
    <3> QED
      BY <1>3, <3>1 DEF FilledWindow
  <2> QED
    BY <2>1, <2>2
<1>7. FreeWindow'
  BY DEF FreeWindow
<1>8. ProducerClaims'
  <2> SUFFICES ASSUME NEW p \in Producers
               PROVE  /\ Owns(p)' => /\ head <= pos[p] /\ pos[p] < tail + 1
                                     /\ sequence[Slot(pos[p])] = pos[p]
                                     /\ item[p] = log'[pos[p] + 1]
                      /\ pc'[p] = "publish" => storage[Slot(pos[p])] = item[p]
                      /\ pc'[p] = "cas" => pos[p] # tail + 1
    BY DEF ProducerClaims
  <2>1. p \in Threads /\ pos[p] \in Nat
    BY DEF Threads
  <2>2. CASE p = t
    BY <1>0, <1>1, <1>3, <2>2 DEF Bounded
  <2>3. CASE p # t
    <3>1. pc'[p] = pc[p] /\ Owns(p)' = Owns(p)
      BY <1>0, <2>1, <2>3 DEF Owns
    <3>2. Owns(p) => pos[p] + 1 \in 1 .. tail
      BY <2>1 DEF ProducerClaims
    <3>3. pos[p] <= tail
      BY DEF Roles
    <3> QED
      BY <1>3, <2>1, <3>1, <3>2, <3>3 DEF ProducerClaims
  <2> QED
    BY <2>2, <2>3
<1>9. ConsumerClaims'
  <2> SUFFICES ASSUME NEW c \in Consumers
               PROVE  /\ Owns(c)' => /\ pos[c] < head /\ tail + 1 <= pos[c] + Capacity
                                     /\ sequence[Slot(pos[c])] = pos[c] + 1
                      /\ pc'[c] = "read" => storage[Slot(pos[c])] = log'[pos[c] + 1]
                      /\ pc'[c] = "release" => item[c] = log'[pos[c] + 1]
                      /\ pc'[c] = "cas" /\ pos[c] = head => sequence[Slot(head)] = head + 1
    BY DEF ConsumerClaims
  <2>1. c \in Threads /\ pos[c] \in Nat /\ c # t
    BY DEF Threads
  <2>2. pc'[c] = pc[c] /\ Owns(c)' = Owns(c)
    BY <2>1 DEF Owns
  <2>3. Owns(c) => pos[c] + 1 \in 1 .. tail
    BY <2>1 DEF ConsumerClaims, Bounded
  <2>4. pc[c] \in {"read", "release"} => Owns(c)
    BY DEF Owns
  <2>5. Owns(c) => tail + 1 <= pos[c] + Capacity
    BY <1>2, <2>1
  <2> QED
    BY <1>3, <2>1, <2>2, <2>3, <2>4, <2>5 DEF ConsumerClaims
<1>10. UniqueClaims'
  <2> SUFFICES ASSUME NEW u \in Threads, NEW w \in Threads, u # w,
                      Owns(u)', Owns(w)', u \in Producers <=> w \in Producers
               PROVE  pos[u] # pos[w]
    BY DEF UniqueClaims
  <2>1. \A x \in Threads \ {t} : Owns(x)' = Owns(x)
    BY <1>0 DEF Owns
  <2>2. \A x \in Producers : Owns(x) => pos[x] < tail
    BY DEF ProducerClaims
  <2>3. CASE u # t /\ w # t
    BY <2>1, <2>3 DEF UniqueClaims
  <2>4. CASE u = t
    <3>1. w \in Producers /\ Owns(w) /\ pos[w] \in Nat
      BY <2>1, <2>4
    <3> QED
      BY <1>0, <2>2, <2>4, <3>1
  <2>5. CASE w = t
    <3>1. u \in Producers /\ Owns(u) /\ pos[u] \in Nat
      BY <2>1, <2>5
    <3> QED
      BY <1>0, <2>2, <2>5, <3>1
  <2> QED
    BY <2>3, <2>4, <2>5
<1> QED
  BY <1>3, <1>4, <1>5, <1>6, <1>7, <1>8, <1>9, <1>10

(* slot.storage = std::move(item): no published slot is overwritten.       *)
LEMMA EnqueueWriteStep ==
    ASSUME TypeOK, TypeOK', SlotProtocol, NEW t \in Producers, EnqueueWrite(t)
    PROVE  SlotProtocol'
<1> USE CapacityAssumption, ThreadsAssumption DEF TypeOK, SlotProtocol, EnqueueWrite, Goto
<1>0. t \in Threads /\ pos[t] \in Nat /\ Slot(pos[t]) \in Slots /\ Owns(t)
  BY SlotInRing DEF Threads, Owns
<1>1. /\ sequence[Slot(pos[t])] = pos[t]
      /\ head <= pos[t] /\ pos[t] < tail
  BY <1>0 DEF ProducerClaims
<1>2. \A x \in Threads : Owns(x)' = Owns(x)
  BY <1>0 DEF Owns
<1>3. \A i \in Slots : i # Slot(pos[t]) => storage'[i] = storage[i]
  OBVIOUS
<1>4. storage'[Slot(pos[t])] = item[t]
  BY <1>0
<1>5. Roles'
  BY DEF Roles, Threads
<1>6. FilledWindow'
  <2> SUFFICES ASSUME NEW p \in head .. tail - 1
               PROVE  /\ sequence[Slot(p)] \in {p, p + 1}
                      /\ sequence[Slot(p)] = p + 1 => storage'[Slot(p)] = log[p + 1]
    BY DEF FilledWindow
  <2>1. p \in Nat /\ Slot(p) \in Slots
    BY SlotInRing
  <2>2. /\ sequence[Slot(p)] \in {p, p + 1}
        /\ sequence[Slot(p)] = p + 1 => storage[Slot(p)] = log[p + 1]
    BY DEF FilledWindow
  <2>3. ASSUME Slot(p) = Slot(pos[t]), sequence[Slot(p)] = p + 1 PROVE FALSE
    <3>1. pos[t] = p + 1
      BY <1>1, <2>3
    <3>2. p + Capacity <= pos[t]
      BY <1>0, <2>1, <2>3, <3>1, SlotsApart
    <3> QED
      BY <2>1, <3>1, <3>2
  <2> QED
    BY <1>3, <2>1, <2>2, <2>3
<1>7. FreeWindow'
  BY DEF FreeWindow
<1>8. ProducerClaims'
  <2> SUFFICES ASSUME NEW p \in Producers, pc'[p] = "publish"
               PROVE  storage'[Slot(pos[p])] = item[p]
    BY <1>0, <1>2 DEF ProducerClaims, Threads
  <2>1. CASE p = t
    BY <1>4, <2>1
  <2>2. CASE p # t
    <3>1. p \in Threads /\ pc[p] = "publish" /\ Owns(p) /\ pos[p] \in Nat
      BY <1>0, <2>2 DEF Threads, Owns
    <3>2. Slot(pos[p]) # Slot(pos[t]) /\ Slot(pos[p]) \in Slots
      BY <1>0, <2>2, <3>1, OwnersApart, SlotInRing
    <3> QED
      BY <1>3, <3>1, <3>2 DEF ProducerClaims
  <2> QED
    BY <2>1, <2>2
<1>9. ConsumerClaims'
  <2> SUFFICES ASSUME NEW c \in Consumers, pc'[c] = "read"
               PROVE  storage'[Slot(pos[c])] = log[pos[c] + 1]
    BY <1>0, <1>2 DEF ConsumerClaims, Threads
  <2>1. c \in Threads /\ pc[c] = "read" /\ Owns(c) /\ pos[c] \in Nat /\ c # t
    BY <1>0 DEF Threads, Owns
  <2>2. Slot(pos[c]) # Slot(pos[t]) /\ Slot(pos[c]) \in Slots
    BY <1>0, <2>1, OwnersApart, SlotInRing
  <2> QED
    BY <1>3, <2>1, <2>2 DEF ConsumerClaims
<1>10. UniqueClaims'
  BY <1>2 DEF UniqueClaims
<1>11. Bounded'
  BY DEF Bounded
<1> QED
  BY <1>5, <1>6, <1>7, <1>8, <1>9, <1>10, <1>11

(* slot.sequence.store(pos + 1): the position is published.                *)
LEMMA EnqueuePublishStep ==
    ASSUME TypeOK, TypeOK', SlotProtocol, NEW t \in Producers, EnqueuePublish(t)
    PROVE  SlotProtocol'
<1> USE CapacityAssumption, ThreadsAssumption DEF TypeOK, SlotProtocol, EnqueuePublish, Goto
<1>0. t \in Threads /\ pos[t] \in Nat /\ Slot(pos[t]) \in Slots /\ Owns(t)
  BY SlotInRing DEF Threads, Owns
<1>1. /\ sequence[Slot(pos[t])] = pos[t]
      /\ head <= pos[t] /\ pos[t] < tail
      /\ storage[Slot(pos[t])] = log[pos[t] + 1]
  BY <1>0 DEF ProducerClaims
<1>2. \A x \in Threads : Owns(x)' => Owns(x) /\ x # t /\ pc'[x] = pc[x]
  BY <1>0 DEF Owns
<1>3. \A i \in Slots : i # Slot(pos[t]) => sequence'[i] = sequence[i]
  OBVIOUS
<1>4. sequence'[Slot(pos[t])] = pos[t] + 1
  BY <1>0
<1>5. Roles' /\ Bounded'
  BY DEF Roles, Threads, Bounded
<1>6. ASSUME NEW p \in head .. head + Capacity - 1, Slot(p) = Slot(pos[t])
      PROVE  p = pos[t]
  <2>1. p \in Nat
    OBVIOUS
  <2>2. p < pos[t] => p + Capacity <= pos[t]
    BY <1>0, <1>6, <2>1, SlotsApart
  <2>3. pos[t] < p => pos[t] + Capacity <= p
    BY <1>0, <1>6, <2>1, SlotsApart
  <2> QED
    BY <1>0, <1>1, <2>1, <2>2, <2>3 DEF Bounded
<1>7. FilledWindow'
  <2> SUFFICES ASSUME NEW p \in head .. tail - 1
               PROVE  /\ sequence'[Slot(p)] \in {p, p + 1}
                      /\ sequence'[Slot(p)] = p + 1 => storage[Slot(p)] = log[p + 1]
    BY DEF FilledWindow
  <2>1. p \in head .. head + Capacity - 1 /\ p \in Nat /\ Slot(p) \in Slots
    BY WindowPositions
  <2>2. CASE Slot(p) = Slot(pos[t])
    BY <1>1, <1>4, <1>6, <2>1, <2>2
  <2>3. CASE Slot(p) # Slot(pos[t])
    BY <1>3, <2>1, <2>3 DEF FilledWindow
  <2> QED
    BY <2>2, <2>3
<1>8. FreeWindow'
  <2> SUFFICES ASSUME NEW p \in tail .. head + Capacity - 1
               PROVE  sequence'[Slot(p)] \in {p, p + 1 - Capacity}
    BY DEF FreeWindow
  <2>1. p \in head .. head + Capacity - 1 /\ p \in Nat /\ Slot(p) \in Slots
    BY WindowPositions
  <2>2. Slot(p) # Slot(pos[t])
    BY <1>0, <1>1, <1>6, <2>1
  <2> QED
    BY <1>3, <2>1, <2>2 DEF FreeWindow
<1>9. ASSUME NEW u \in Threads, Owns(u)'
      PROVE  /\ Owns(u) /\ u # t /\ pc'[u] = pc[u] /\ pos[u] \in Nat
             /\ sequence'[Slot(pos[u])] = sequence[Slot(pos[u])]
  <2>1. Owns(u) /\ u # t /\ pc'[u] = pc[u] /\ pos[u] \in Nat
    BY <1>2, <1>9
  <2>2. Slot(pos[u]) # Slot(pos[t]) /\ Slot(pos[u]) \in Slots
    BY <1>0, <2>1, OwnersApart, SlotInRing
  <2> QED
    BY <1>3, <2>1, <2>2
<1>10. ProducerClaims'
  <2> SUFFICES ASSUME NEW p \in Producers
               PROVE  /\ Owns(p)' => /\ head <= pos[p] /\ pos[p] < tail
                                     /\ sequence'[Slot(pos[p])] = pos[p]
                                     /\ item[p] = log[pos[p] + 1]
                      /\ pc'[p] = "publish" => storage[Slot(pos[p])] = item[p]
                      /\ pc'[p] = "cas" /\ pos[p] = tail => sequence'[Slot(tail)] = tail
    BY DEF ProducerClaims
  <2>1. p \in Threads
    BY DEF Threads
  <2>2. Owns(p)' => /\ head <= pos[p] /\ pos[p] < tail
                    /\ sequence'[Slot(pos[p])] = pos[p]
                    /\ item[p] = log[pos[p] + 1]
    BY <1>9, <2>1 DEF ProducerClaims
  <2>3. pc'[p] = "publish" => storage[Slot(pos[p])] = item[p]
    BY <1>0, <2>1 DEF ProducerClaims
  <2>4. ASSUME pc'[p] = "cas", pos[p] = tail PROVE sequence'[Slot(tail)] = tail
    <3>1. sequence[Slot(tail)] = tail
      BY <1>0, <2>1, <2>4 DEF ProducerClaims
    <3>2. Slot(tail) # Slot(pos[t]) /\ Slot(tail) \in Slots
      BY <1>0, <1>1, <3>1, SlotInRing
    <3> QED
      BY <1>3, <3>1, <3>2
  <2> QED
    BY <2>2, <2>3, <2>4
<1>11. ConsumerClaims'
  <2> SUFFICES ASSUME NEW c \in Consumers
               PROVE  /\ Owns(c)' => /\ pos[c] < head /\ tail <= pos[c] + Capacity
                                     /\ sequence'[Slot(pos[c])] = pos[c] + 1
                      /\ pc'[c] = "read" => storage[Slot(pos[c])] = log[pos[c] + 1]
                      /\ pc'[c] = "release" => item[c] = log[pos[c] + 1]
                      /\ pc'[c] = "cas" /\ pos[c] = head => sequence'[Slot(head)] = head + 1
    BY DEF ConsumerClaims
  <2>1. c \in Threads /\ c # t /\ pc'[c] = pc[c]
    BY <1>0 DEF Threads
  <2>2. Owns(c)' => /\ pos[c] < head /\ tail <= pos[c] + Capacity
                    /\ sequence'[Slot(pos[c])] = pos[c] + 1
    BY <1>9, <2>1 DEF ConsumerClaims
  <2>3. /\ pc'[c] = "read" => storage[Slot(pos[c])] = log[pos[c] + 1]
        /\ pc'[c] = "release" => item[c] = log[pos[c] + 1]
    BY <2>1 DEF ConsumerClaims
  <2>4. ASSUME pc'[c] = "cas", pos[c] = head PROVE sequence'[Slot(head)] = head + 1
    <3>1. sequence[Slot(head)] = head + 1
      BY <2>1, <2>4 DEF ConsumerClaims
    <3>2. ASSUME Slot(head) = Slot(pos[t]) PROVE FALSE
      <4>1. pos[t] = head + 1
        BY <1>1, <3>1, <3>2
      <4>2. head + Capacity <= pos[t]
        BY <1>0, <3>2, <4>1, SlotsApart
      <4> QED
        BY <4>1, <4>2
    <3> QED
      BY <1>3, <3>1, <3>2, SlotInRing
  <2> QED
    BY <2>2, <2>3, <2>4
<1>12. UniqueClaims'
  BY <1>2 DEF UniqueClaims
<1> QED
  BY <1>5, <1>7, <1>8, <1>10, <1>11, <1>12

----------------------------------------------------------------------------
(* m_head.compare_exchange succeeds.                                       *)
LEMMA DequeueClaimStep ==
    ASSUME TypeOK, TypeOK', SlotProtocol, NEW t \in Consumers, DequeueClaim(t)
    PROVE  SlotProtocol'
<1> USE CapacityAssumption, ThreadsAssumption DEF TypeOK, SlotProtocol, DequeueClaim, Goto
<1>0. t \in Threads /\ pos[t] = head /\ pos[t] \in Nat
  BY DEF Threads
<1>1. sequence[Slot(head)] = head + 1
  BY <1>0 DEF ConsumerClaims
<1>2. /\ head < tail
      /\ storage[Slot(head)] = log[head + 1]
      /\ \A p \in Producers : Owns(p) => head < pos[p]
  BY <1>1, ClaimAtHead
<1>3. Bounded'
  BY <1>2 DEF Bounded
<1>4. Roles'
  BY <1>0 DEF Roles, Threads
<1>5. FilledWindow'
  BY DEF FilledWindow
<1>6. FreeWindow'
  <2> SUFFICES ASSUME NEW p \in tail .. head + Capacity
               PROVE  sequence[Slot(p)] \in {p, p + 1 - Capacity}
    BY DEF FreeWindow
  <2>0. /\ p \in Int /\ head \in Int /\ tail \in Int
        /\ tail <= p /\ p <= head + Capacity /\ head + Capacity \in Int
    OBVIOUS
  <2>3. p < head + Capacity \/ p = head + Capacity
    BY <2>0, BelowOrEqual
  <2>1. CASE p = head + Capacity
    <3>1. p + 1 - Capacity = head + 1
      BY <2>1
    <3>2. Slot(p) = Slot(head)
      BY <2>1, SlotPeriodic
    <3> QED
      BY <1>1, <3>1, <3>2
  <2>2. CASE p < head + Capacity
    <3>1. p \in tail .. head + Capacity - 1
      BY <2>0, <2>2
    <3> QED
      BY <3>1 DEF FreeWindow
  <2> QED
    BY <2>3, <2>1, <2>2
<1>7. ProducerClaims'
  <2> SUFFICES ASSUME NEW p \in Producers
               PROVE  /\ Owns(p)' => /\ head + 1 <= pos[p] /\ pos[p] < tail
                                     /\ sequence[Slot(pos[p])] = pos[p]
                                     /\ item[p] = log[pos[p] + 1]
                      /\ pc'[p] = "publish" => storage[Slot(pos[p])] = item[p]
                      /\ pc'[p] = "cas" /\ pos[p] = tail => sequence[Slot(tail)] = tail
    BY DEF ProducerClaims
  <2>1. p \in Threads /\ pos[p] \in Nat /\ p # t
    BY DEF Threads
  <2>2. pc'[p] = pc[p] /\ Owns(p)' = Owns(p)
    BY <2>1 DEF Owns
  <2>3. Owns(p) => head + 1 <= pos[p]
    BY <1>2, <2>1
  <2> QED
    BY <2>1, <2>2, <2>3 DEF ProducerClaims
<1>8. ConsumerClaims'
  <2> SUFFICES ASSUME NEW c \in Consumers
               PROVE  /\ Owns(c)' => /\ pos[c] < head + 1 /\ tail <= pos[c] + Capacity
                                     /\ sequence[Slot(pos[c])] = pos[c] + 1
                      /\ pc'[c] = "read" => storage[Slot(pos[c])] = log[pos[c] + 1]
                      /\ pc'[c] = "release" => item[c] = log[pos[c] + 1]
                      /\ pc'[c] = "cas" => pos[c] # head + 1
    BY DEF ConsumerClaims
  <2>1. c \in Threads /\ pos[c] \in Nat
    BY DEF Threads
  <2>2. CASE c = t
    BY <1>0, <1>1, <1>2, <2>2 DEF Bounded
  <2>3. CASE c # t
    <3>1. pc'[c] = pc[c] /\ Owns(c)' = Owns(c)
      BY <1>0, <2>1, <2>3 DEF Owns
    <3>2. pos[c] <= head
      BY DEF Roles
    <3> QED
      BY <2>1, <3>1, <3>2 DEF ConsumerClaims
  <2> QED
    BY <2>2, <2>3
<1>9. UniqueClaims'
  <2> SUFFICES ASSUME NEW u \in Threads, NEW w \in Threads, u # w,
                      Owns(u)', Owns(w)', u \in Producers <=> w \in Producers
               PROVE  pos[u] # pos[w]
    BY DEF UniqueClaims
  <2>1. \A x \in Threads \ {t} : Owns(x)' = Owns(x)
    BY <1>0 DEF Owns
  <2>2. \A x \in Consumers : Owns(x) => pos[x] < head
    BY DEF ConsumerClaims
  <2>3. CASE u # t /\ w # t
    BY <2>1, <2>3 DEF UniqueClaims
  <2>4. CASE u = t
    <3>1. w \in Consumers /\ Owns(w) /\ pos[w] \in Nat
      BY <2>1, <2>4 DEF Threads
    <3> QED
      BY <1>0, <2>2, <2>4, <3>1
  <2>5. CASE w = t
    <3>1. u \in Consumers /\ Owns(u) /\ pos[u] \in Nat
      BY <2>1, <2>5 DEF Threads
    <3> QED
      BY <1>0, <2>2, <2>5, <3>1
  <2> QED
    BY <2>3, <2>4, <2>5
<1> QED
  BY <1>3, <1>4, <1>5, <1>6, <1>7, <1>8, <1>9

(* out = std::move(slot.storage): the consumer leaves with its own item.   *)
LEMMA DequeueReadStep ==
    ASSUME TypeOK, TypeOK', SlotProtocol, NEW t \in Consumers, DequeueRead(t)
    PROVE  SlotProtocol'
<1> USE CapacityAssumption, ThreadsAssumption DEF TypeOK, SlotProtocol, DequeueRead, Goto
<1>0. t \in Threads /\ Owns(t)
  BY DEF Threads, Owns
<1>1. \A x \in Threads : Owns(x)' = Owns(x)
  BY <1>0 DEF Owns
<1>2. Roles' /\ Bounded' /\ FilledWindow' /\ FreeWindow'
  BY DEF Roles, Threads, Bounded, FilledWindow, FreeWindow
<1>3. ProducerClaims'
  BY <1>0, <1>1 DEF ProducerClaims, Threads
<1>4. ConsumerClaims'
  BY <1>0, <1>1 DEF ConsumerClaims, Threads
<1>5. UniqueClaims'
  BY <1>1 DEF UniqueClaims
<1> QED
  BY <1>2, <1>3, <1>4, <1>5

(* slot.sequence.store(pos + Capacity): the slot is free for the next lap. *)
LEMMA DequeueReleaseStep ==
    ASSUME TypeOK, TypeOK', SlotProtocol, NEW t \in Consumers, DequeueRelease(t)
    PROVE  SlotProtocol'
<1> USE CapacityAssumption, ThreadsAssumption DEF TypeOK, SlotProtocol, DequeueRelease, Goto
<1>0. t \in Threads /\ pos[t] \in Nat /\ Slot(pos[t]) \in Slots /\ Owns(t)
  BY SlotInRing DEF Threads, Owns
<1>1. /\ sequence[Slot(pos[t])] = pos[t] + 1
      /\ pos[t] < head /\ tail <= pos[t] + Capacity
  BY <1>0 DEF ConsumerClaims
<1>2. \A x \in Threads : Owns(x)' => Owns(x) /\ x # t /\ pc'[x] = pc[x]
  BY <1>0 DEF Owns
<1>3. \A i \in Slots : i # Slot(pos[t]) => sequence'[i] = sequence[i]
  OBVIOUS
<1>4. sequence'[Slot(pos[t])] = pos[t] + Capacity
  BY <1>0
<1>5. Roles' /\ Bounded'
  BY DEF Roles, Threads, Bounded
<1>6. ASSUME NEW p \in head .. head + Capacity - 1, Slot(p) = Slot(pos[t])
      PROVE  p = pos[t] + Capacity
  <2>1. p \in Nat /\ pos[t] + Capacity \in Nat /\ Slot(pos[t] + Capacity) = Slot(p)
    BY <1>0, <1>6, SlotPeriodic
  <2>2. pos[t] + Capacity <= p
    BY <1>0, <1>1, <1>6, <2>1, SlotsApart
  <2>3. pos[t] + Capacity < p => pos[t] + Capacity + Capacity <= p
    BY <2>1, SlotsApart
  <2> QED
    BY <1>0, <1>1, <2>1, <2>2, <2>3 DEF Bounded
<1>7. FilledWindow'
  <2> SUFFICES ASSUME NEW p \in head .. tail - 1
               PROVE  /\ sequence'[Slot(p)] \in {p, p + 1}
                      /\ sequence'[Slot(p)] = p + 1 => storage[Slot(p)] = log[p + 1]
    BY DEF FilledWindow
  <2>1. p \in head .. head + Capacity - 1 /\ p \in Nat /\ Slot(p) \in Slots
    BY WindowPositions
  <2>2. Slot(p) # Slot(pos[t])
    BY <1>0, <1>1, <1>6, <2>1
  <2> QED
    BY <1>3, <2>1, <2>2 DEF FilledWindow
<1>8. FreeWindow'
  <2> SUFFICES ASSUME NEW p \in tail .. head + Capacity - 1
               PROVE  sequence'[Slot(p)] \in {p, p + 1 - Capacity}
    BY DEF FreeWindow
  <2>1. p \in head .. head + Capacity - 1 /\ p \in Nat /\ Slot(p) \in Slots
    BY WindowPositions
  <2>2. CASE Slot(p) = Slot(pos[t])
    BY <1>4, <1>6, <2>1, <2>2
  <2>3. CASE Slot(p) # Slot(pos[t])
    BY <1>3, <2>1, <2>3 DEF FreeWindow
  <2> QED
    BY <2>2, <2>3
<1>9. ASSUME NEW u \in Threads, Owns(u)'
      PROVE  /\ Owns(u) /\ u # t /\ pc'[u] = pc[u] /\ pos[u] \in Nat
             /\ sequence'[Slot(pos[u])] = sequence[Slot(pos[u])]
  <2>1. Owns(u) /\ u # t /\ pc'[u] = pc[u] /\ pos[u] \in Nat
    BY <1>2, <1>9
  <2>2. Slot(pos[u]) # Slot(pos[t]) /\ Slot(pos[u]) \in Slots
    BY <1>0, <2>1, OwnersApart, SlotInRing
  <2> QED
    BY <1>3, <2>1, <2>2
<1>10. ProducerClaims'
  <2> SUFFICES ASSUME NEW p \in Producers
               PROVE  /\ Owns(p)' => /\ head <= pos[p] /\ pos[p] < tail
                                     /\ sequence'[Slot(pos[p])] = pos[p]
                                     /\ item[p] = log[pos[p] + 1]
                      /\ pc'[p] = "publish" => storage[Slot(pos[p])] = item[p]
                      /\ pc'[p] = "cas" /\ pos[p] = tail => sequence'[Slot(tail)] = tail
    BY DEF ProducerClaims
  <2>1. p \in Threads /\ p # t /\ pc'[p] = pc[p]
    BY <1>0 DEF Threads
  <2>2. Owns(p)' => /\ head <= pos[p] /\ pos[p] < tail
                    /\ sequence'[Slot(pos[p])] = pos[p]
                    /\ item[p] = log[pos[p] + 1]
    BY <1>9, <2>1 DEF ProducerClaims
  <2>3. pc'[p] = "publish" => storage[Slot(pos[p])] = item[p]
    BY <2>1 DEF ProducerClaims
  <2>4. ASSUME pc'[p] = "cas", pos[p] = tail PROVE sequence'[Slot(tail)] = tail
    <3>1. sequence[Slot(tail)] = tail
      BY <2>1, <2>4 DEF ProducerClaims
    <3>2. ASSUME Slot(tail) = Slot(pos[t]) PROVE FALSE
      <4>1. tail = pos[t] + 1
        BY <1>1, <3>1, <3>2
      <4>2. pos[t] + Capacity <= tail
        BY <1>0, <3>2, <4>1, SlotsApart
      <4> QED
        BY <1>0, <4>1, <4>2
    <3> QED
      BY <1>3, <3>1, <3>2, SlotInRing
  <2> QED
    BY <2>2, <2>3, <2>4
<1>11. ConsumerClaims'
  <2> SUFFICES ASSUME NEW c \in Consumers
               PROVE  /\ Owns(c)' => /\ pos[c] < head /\ tail <= pos[c] + Capacity
                                     /\ sequence'[Slot(pos[c])] = pos[c] + 1
                      /\ pc'[c] = "read" => storage[Slot(pos[c])] = log[pos[c] + 1]
                      /\ pc'[c] = "release" => item[c] = log[pos[c] + 1]
                      /\ pc'[c] = "cas" /\ pos[c] = head => sequence'[Slot(head)] = head + 1
    BY DEF ConsumerClaims
  <2>1. c \in Threads
    BY DEF Threads
  <2>2. Owns(c)' => /\ pos[c] < head /\ tail <= pos[c] + Capacity
                    /\ sequence'[Slot(pos[c])] = pos[c] + 1
    BY <1>9, <2>1 DEF ConsumerClaims
  <2>3. /\ pc'[c] = "read" => storage[Slot(pos[c])] = log[pos[c] + 1]
        /\ pc'[c] = "release" => item[c] = log[pos[c] + 1]
    BY <1>0, <2>1 DEF ConsumerClaims
  <2>4. ASSUME pc'[c] = "cas", pos[c] = head PROVE sequence'[Slot(head)] = head + 1
    <3>1. sequence[Slot(head)] = head + 1
      BY <1>0, <2>1, <2>4 DEF ConsumerClaims
    <3>2. Slot(head) # Slot(pos[t]) /\ Slot(head) \in Slots
      BY <1>0, <1>1, <3>1, SlotInRing
    <3> QED
      BY <1>3, <3>1, <3>2
  <2> QED
    BY <2>2, <2>3, <2>4
<1>12. UniqueClaims'
  BY <1>2 DEF UniqueClaims
<1> QED
  BY <1>5, <1>7, <1>8, <1>10, <1>11, <1>12

----------------------------------------------------------------------------
(* Every step keeps the protocol.                                          *)
LEMMA StepSlotProtocol ==
    ASSUME TypeOK, SlotProtocol, [Next]_vars PROVE SlotProtocol'
<1>0. TypeOK'
  BY StepTypeOK
<1>1. ASSUME NEW p \in Producers,
             \/ \E v \in Values : EnqueueCall(p, v)
             \/ EnqueueLoadSequence(p) \/ EnqueueClaimFails(p) \/ EnqueueReload(p)
      PROVE  SlotProtocol'
  <2> USE <1>0, ThreadsAssumption DEF TypeOK, Goto, Threads
  <2>1. /\ UNCHANGED <<head, tail, sequence, storage, log>>
        /\ ~Owns(p) /\ ~Owns(p)'
        /\ \A u \in Threads \ {p} :
              pc'[u] = pc[u] /\ pos'[u] = pos[u] /\ item'[u] = item[u]
    BY <1>1 DEF EnqueueCall, EnqueueLoadSequence, EnqueueClaimFails, EnqueueReload, Owns
  <2>2. pos'[p] <= tail
    BY <1>1 DEF EnqueueCall, EnqueueLoadSequence, EnqueueClaimFails, EnqueueReload,
                SlotProtocol, Roles
  <2>3. pc'[p] = "cas" => sequence[Slot(pos'[p])] = pos'[p]
    <3>1. Slot(pos[p]) \in Slots
      BY SlotInRing
    <3> QED
      BY <1>1, <3>1 DEF EnqueueCall, EnqueueLoadSequence, EnqueueClaimFails,
                        EnqueueReload, Diff
  <2> QED
    BY <2>1, <2>2, <2>3, LocalStep
<1>2. ASSUME NEW c \in Consumers,
             \/ DequeueCall(c)
             \/ DequeueLoadSequence(c) \/ DequeueClaimFails(c) \/ DequeueReload(c)
      PROVE  SlotProtocol'
  <2> USE <1>0, ThreadsAssumption DEF TypeOK, Goto, Threads
  <2>1. /\ UNCHANGED <<head, tail, sequence, storage, log>>
        /\ ~Owns(c) /\ ~Owns(c)'
        /\ \A u \in Threads \ {c} :
              pc'[u] = pc[u] /\ pos'[u] = pos[u] /\ item'[u] = item[u]
    BY <1>2 DEF DequeueCall, DequeueLoadSequence, DequeueClaimFails, DequeueReload, Owns
  <2>2. pos'[c] <= head
    BY <1>2 DEF DequeueCall, DequeueLoadSequence, DequeueClaimFails, DequeueReload,
                SlotProtocol, Roles
  <2>3. pc'[c] = "cas" => sequence[Slot(pos'[c])] = pos'[c] + 1
    <3>1. Slot(pos[c]) \in Slots
      BY SlotInRing
    <3> QED
      BY <1>2, <3>1 DEF DequeueCall, DequeueLoadSequence, DequeueClaimFails,
                        DequeueReload, Diff
  <2> QED
    BY <2>1, <2>2, <2>3, LocalStep
<1>3. ASSUME NEW p \in Producers,
             EnqueueClaim(p) \/ EnqueueWrite(p) \/ EnqueuePublish(p)
      PROVE  SlotProtocol'
  BY <1>0, <1>3, EnqueueClaimStep, EnqueueWriteStep, EnqueuePublishStep
<1>4. ASSUME NEW c \in Consumers,
             DequeueClaim(c) \/ DequeueRead(c) \/ DequeueRelease(c)
      PROVE  SlotProtocol'
  BY <1>0, <1>4, DequeueClaimStep, DequeueReadStep, DequeueReleaseStep
<1>5. CASE UNCHANGED vars
  BY <1>5 DEF vars, SlotProtocol, Bounded, Roles, FilledWindow, FreeWindow,
              ProducerClaims, ConsumerClaims, UniqueClaims, Owns
<1> QED
  BY <1>1, <1>2, <1>3, <1>4, <1>5 DEF Next, EnqueueStep, DequeueStep

(* In every execution the state has its type, and the sequence numbers     *)
(* agree with the counters and with the claims in flight.                  *)
THEOREM InductiveInvariant == Spec => []IInv
<1>1. Init => IInv
  BY InitTypeOK, InitSlotProtocol DEF IInv
<1>2. IInv /\ [Next]_vars => IInv'
  BY StepTypeOK, StepSlotProtocol DEF IInv
<1> QED
  BY <1>1, <1>2, PTL DEF Spec

(* No two threads ever access the plain storage of one slot: the element   *)
(* moves of Enqueue and Dequeue are free of data races.                    *)
THEOREM MutualExclusion == Spec => []ExclusiveSlots
<1>1. IInv => ExclusiveSlots
  BY OwnersApart DEF ExclusiveSlots, IInv
<1> QED
  BY <1>1, InductiveInvariant, PTL

(* Each consumer leaves Dequeue with the item enqueued at its position.    *)
THEOREM InOrderDelivery == Spec => []DeliversInOrder
<1>1. IInv => DeliversInOrder
  BY DEF IInv, TypeOK, SlotProtocol, DeliversInOrder, ConsumerClaims, Owns, Bounded, Threads
<1> QED
  BY <1>1, InductiveInvariant, PTL

(* The queue never holds more than Capacity claims.                        *)
THEOREM CapacityRespected == Spec => []Bounded
<1>1. IInv => Bounded
  BY DEF IInv, SlotProtocol
<1> QED
  BY <1>1, InductiveInvariant, PTL

----------------------------------------------------------------------------
(* Every step of the queue is a step of the bounded FIFO or leaves it      *)
(* unchanged; the two claims are the linearization points.                 *)
LEMMA FifoStep ==
    ASSUME TypeOK, SlotProtocol, [Next]_vars
    PROVE  [Fifo!Next]_<<log, head>>
<1> USE DEF TypeOK, SlotProtocol
<1>1. ASSUME NEW p \in Producers, EnqueueClaim(p) PROVE Fifo!Next
  <2>1. pos[p] = tail /\ sequence[Slot(tail)] = tail /\ item[p] \in Values
    BY <1>1 DEF EnqueueClaim, ProducerClaims, Threads
  <2>2. tail < head + Capacity
    BY <2>1, ClaimAtTail
  <2>3. Len(log) - head < Capacity
    BY <2>2, CapacityAssumption
  <2> QED
    BY <1>1, <2>1, <2>3 DEF EnqueueClaim, Fifo!Next, Fifo!Accept
<1>2. ASSUME NEW c \in Consumers, DequeueClaim(c) PROVE Fifo!Next
  <2>1. sequence[Slot(head)] = head + 1
    BY <1>2 DEF DequeueClaim, ConsumerClaims
  <2>2. head < Len(log)
    BY <2>1, ClaimAtHead
  <2> QED
    BY <1>2, <2>2 DEF DequeueClaim, Fifo!Next, Fifo!Take
<1>3. ASSUME NEW p \in Producers,
             \/ \E v \in Values : EnqueueCall(p, v)
             \/ EnqueueLoadSequence(p) \/ EnqueueClaimFails(p) \/ EnqueueReload(p)
             \/ EnqueueWrite(p) \/ EnqueuePublish(p)
      PROVE  UNCHANGED <<log, head>>
  BY <1>3 DEF EnqueueCall, EnqueueLoadSequence, EnqueueClaimFails, EnqueueReload,
              EnqueueWrite, EnqueuePublish
<1>4. ASSUME NEW c \in Consumers,
             \/ DequeueCall(c)
             \/ DequeueLoadSequence(c) \/ DequeueClaimFails(c) \/ DequeueReload(c)
             \/ DequeueRead(c) \/ DequeueRelease(c)
      PROVE  UNCHANGED <<log, head>>
  BY <1>4 DEF DequeueCall, DequeueLoadSequence, DequeueClaimFails, DequeueReload,
              DequeueRead, DequeueRelease
<1>5. CASE UNCHANGED vars
  BY <1>5 DEF vars
<1> QED
  BY <1>1, <1>2, <1>3, <1>4, <1>5 DEF Next, EnqueueStep, DequeueStep

(* The lock-free queue implements the bounded FIFO for every capacity and  *)
(* every set of threads.                                                   *)
THEOREM QueueImplementsFifo == Spec => ImplementsFifo
<1>1. Init => Fifo!Init
  BY DEF Init, Fifo!Init
<1>2. IInv /\ [Next]_vars => [Fifo!Next]_<<log, head>>
  BY FifoStep DEF IInv
<1> QED
  BY <1>1, <1>2, InductiveInvariant, PTL DEF Spec, ImplementsFifo, Fifo!Spec
============================================================================
