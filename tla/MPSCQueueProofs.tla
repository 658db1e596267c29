-------------------------- MODULE MPSCQueueProofs --------------------------
(***************************************************************************)
(* Proofs about MPSCQueue for every number of producers, every value set,  *)
(* every capacity of at least two and every width of the counters that     *)
(* leaves room for the lag, however often the counters wrap round.         *)
(*                                                                         *)
(* The counters show positions modulo Width.  The invariant says that      *)
(* behind them stand true positions, which only grow, such that every      *)
(* difference the code takes is less than half of Width: the signed        *)
(* difference of two counters is then the difference of the positions, and *)
(* what is left to prove is the protocol of the slots.                     *)
(***************************************************************************)
EXTENDS MPSCQueue, TLAPS

Half == Width \div 2

\* The counter that shows position x
Wrap(x) == x % Width

Looking == {"loadSequence", "cas"}
Claimed == {"write", "publish"}

\* The calls that still hold their element
Carrying == Looking \cup {"reload", "write"}

Elements == Values \cup {Empty}

\* Each variable stays in the range of its C++ type.
TypeOK ==
    /\ enqueuePos \in 0 .. Width - 1
    /\ dequeuePos \in 0 .. Width - 1
    /\ sequence \in [Slots -> 0 .. Width - 1]
    /\ storage \in [Slots -> Elements]
    /\ producer \in [Producers -> [pc : {"idle"} \cup Carrying \cup Claimed,
                                   pos : 0 .. Width - 1, item : Elements]]
    /\ consumer \in {"idle", "loadSequence", "read", "release", "advance"}
    /\ observer \in [inCall : BOOLEAN, first : 0 .. Width - 1, passed : Nat]
    /\ \A p \in Producers : producer[p].pc \in Carrying => producer[p].item \in Values

(* E, D and P[p] are the positions behind m_enqueuePos, m_dequeuePos and   *)
(* the pos of producer p.                                                  *)

\* The oldest position whose slot the consumer has not given back
First(D) == IF consumer = "advance" THEN D + 1 ELSE D

\* Position x is claimed and its element is not published yet.
Unpublished(P, x) == \E p \in Producers : producer[p].pc \in Claimed /\ P[p] = x

\* The ring holds the positions from First(D) on, of which E is the next free.
Window(E, D) ==
    /\ enqueuePos = Wrap(E)
    /\ dequeuePos = Wrap(D)
    /\ First(D) <= E
    /\ E <= First(D) + Capacity

\* A producer that looks at a position is not too far behind; when its
\* compare_exchange is about to succeed, the slot is free.
Behind(E, D, P) ==
    \A p \in Producers : producer[p].pc \in Looking =>
        /\ producer[p].pos = Wrap(P[p])
        /\ P[p] <= E
        /\ E <= P[p] + MaxLag
        /\ producer[p].pc = "cas" /\ P[p] = E => E < First(D) + Capacity

\* A claimed position is in the ring, and one producer's alone.
Claims(E, D, P) ==
    /\ \A p \in Producers : producer[p].pc \in Claimed =>
            /\ producer[p].pos = Wrap(P[p])
            /\ First(D) <= P[p]
            /\ P[p] < E
    /\ \A p, q \in Producers :
            producer[p].pc \in Claimed /\ producer[q].pc \in Claimed /\ P[p] = P[q] => p = q

\* What the slots' sequence numbers say: x + 1 when x is published
Protocol(E, D, P) ==
    \A x \in Nat : First(D) <= x /\ x < First(D) + Capacity =>
        sequence[Slot(x)] = IF x < E /\ ~Unpublished(P, x) THEN Wrap(x + 1) ELSE Wrap(x)

\* What the consumer is moving out is published.
Moving(E, D, P) == consumer \in {"read", "release"} => D < E /\ ~Unpublished(P, D)

\* The observer's first load is as far behind as there were claims since.
Observed(E) ==
    observer.inCall => /\ observer.passed <= MaxLag
                       /\ observer.passed <= E
                       /\ observer.first = Wrap(E - observer.passed)

Tracks(E, D, P) ==
    /\ Window(E, D) /\ Behind(E, D, P) /\ Claims(E, D, P) /\ Protocol(E, D, P)
    /\ Moving(E, D, P) /\ Observed(E)

QueueInv ==
    /\ TypeOK
    /\ \E E \in Nat, D \in Nat, P \in [Producers -> Nat] : Tracks(E, D, P)

----------------------------------------------------------------------------
(* Arithmetic of wrapped counters.                                         *)

\* A number is a number of rounds and a remainder.
LEMMA RoundAndRest ==
    ASSUME NEW m \in Nat \ {0}, NEW x \in Int
    PROVE  /\ x % m \in 0 .. m - 1
           /\ x \div m \in Int
           /\ x = m * (x \div m) + (x % m)
  OBVIOUS

LEMMA Rounds ==
    ASSUME NEW m \in Nat \ {0}, NEW x \in Int
    PROVE  \E k \in Int, r \in 0 .. m - 1 : r = x % m /\ x = m * k + r
<1>1. /\ x \div m \in Int /\ x % m \in 0 .. m - 1
      /\ x = m * (x \div m) + (x % m)
  BY RoundAndRest
<1> QED
  BY <1>1, Zenon

\* One round more is at least m more.
LEMMA RoundLength ==
    ASSUME NEW m \in Nat \ {0}, NEW a \in Int, NEW b \in Int, a < b
    PROVE  m * b >= m * a + m
  OBVIOUS

\* The remainder is the only one: x differs from r by whole rounds.
LEMMA RestUnique ==
    ASSUME NEW m \in Nat \ {0}, NEW x \in Int, NEW k \in Int, NEW r \in 0 .. m - 1,
           x = m * k + r
    PROVE  x % m = r
<1> DEFINE a == x \div m
           s == x % m
<1>1. a \in Int /\ s \in 0 .. m - 1 /\ x = m * a + s
  BY RoundAndRest
<1> HIDE DEF a, s
<1>2. CASE a < k
  <2>1. m * k >= m * a + m
    BY <1>1, <1>2, RoundLength
  <2>2. m * k \in Int /\ m * a \in Int
    BY <1>1
  <2> QED
    BY <1>1, <2>1, <2>2
<1>3. CASE k < a
  <2>1. m * a >= m * k + m
    BY <1>1, <1>3, RoundLength
  <2>2. m * k \in Int /\ m * a \in Int
    BY <1>1
  <2> QED
    BY <1>1, <2>1, <2>2
<1>4. CASE a = k
  <2>1. m * k \in Int
    OBVIOUS
  <2>2. s = r
    BY <1>1, <1>4, <2>1
  <2> QED
    BY <2>2 DEF s
<1> QED
  BY <1>1, <1>2, <1>3, <1>4

\* Whole rounds do not change the remainder.
LEMMA RestShift ==
    ASSUME NEW m \in Nat \ {0}, NEW x \in Int, NEW k \in Int
    PROVE  (x + m * k) % m = x % m
<1>1. PICK a \in Int, r \in 0 .. m - 1 : r = x % m /\ x = m * a + r
  BY Rounds
<1>2. m * (a + k) = m * a + m * k /\ m * a \in Int /\ m * k \in Int /\ a + k \in Int
  OBVIOUS
<1>3. x + m * k \in Int /\ x + m * k = m * (a + k) + r
  BY <1>1, <1>2
<1> QED
  BY <1>1, <1>2, <1>3, RestUnique

\* Width is an even number of laps of the ring, and more than two of them.
LEMMA WidthFacts ==
    /\ Width \in Nat \ {0} /\ Capacity \in Nat \ {0} /\ MaxLag \in Nat \ {0} /\ Half \in Nat
    /\ Capacity >= 2 /\ Width = Half + Half /\ MaxLag + Capacity <= Half /\ Capacity + 2 <= Half
    /\ \E k \in Int : Width = Capacity * k
<1>1. /\ Capacity \in Nat \ {0} /\ Capacity >= 2 /\ Width \in Nat /\ MaxLag \in Nat \ {0}
      /\ Width % (2 * Capacity) = 0 /\ MaxLag + Capacity <= Half
  BY WidthAssumption DEF Half
<1>2. PICK m \in Nat \ {0} : m = 2 * Capacity
  BY <1>1
<1>3. PICK k \in Int : Width = m * k
  <2>1. Width \in Int
    BY <1>1
  <2>2. PICK k \in Int, r \in 0 .. m - 1 : r = Width % m /\ Width = m * k + r
    BY <2>1, Rounds, Zenon
  <2>3. m * k \in Int /\ r = 0
    BY <1>1, <1>2, <2>2
  <2>4. Width = m * k
    BY <2>2, <2>3
  <2> QED
    BY <2>4
<1>4. PICK h \in Int : h = Capacity * k
  BY <1>1
<1>5. Width = h + h /\ Width = Capacity * (k + k)
  <2>1. (2 * Capacity) * k = Capacity * k + Capacity * k
    BY <1>1
  <2>2. Capacity * (k + k) = Capacity * k + Capacity * k
    BY <1>1
  <2> QED
    BY <1>2, <1>3, <1>4, <2>1, <2>2
<1>6. Half = h
  BY <1>1, <1>5 DEF Half
<1>7. Capacity + 1 <= h
  BY <1>1, <1>6
<1>8. k >= 2
  <2>1. CASE k < 1
    <3>1. Capacity * 1 >= Capacity * k + Capacity /\ Capacity * 1 = Capacity
      BY <1>1, <2>1, RoundLength
    <3> QED
      BY <1>1, <1>4, <1>7, <3>1
  <2>2. CASE k = 1
    BY <1>1, <1>4, <1>7, <2>2
  <2> QED
    BY <2>1, <2>2
<1>9. h >= Capacity + Capacity
  <2>1. Capacity * 1 = Capacity
    BY <1>1
  <2>2. Capacity * k >= Capacity * 1 + Capacity
    BY <1>1, <1>8, RoundLength
  <2> QED
    BY <1>1, <1>4, <2>1, <2>2
<1>10. Half \in Nat /\ Width \in Nat \ {0} /\ Capacity + 2 <= Half
  BY <1>1, <1>5, <1>6, <1>9
<1>11. k + k \in Int
  OBVIOUS
<1> QED
  BY <1>1, <1>5, <1>6, <1>10, <1>11

\* A counter is in the range of its type.
LEMMA WrapType == ASSUME NEW x \in Nat PROVE Wrap(x) \in 0 .. Width - 1
  BY WidthFacts, RoundAndRest DEF Wrap

\* Unsigned addition moves the position.
LEMMA AddWrap ==
    ASSUME NEW x \in Nat, NEW n \in Nat PROVE Add(Wrap(x), n) = Wrap(x + n)
<1>1. Width \in Nat \ {0} /\ x \in Int
  BY WidthFacts
<1>2. PICK a \in Int, r \in 0 .. Width - 1 : r = x % Width /\ x = Width * a + r
  BY <1>1, Rounds, Zenon
<1>3. Width * a \in Int /\ r + n \in Int /\ x + n = (r + n) + Width * a
  BY <1>1, <1>2
<1>4. ((r + n) + Width * a) % Width = (r + n) % Width
  BY <1>1, <1>3, RestShift
<1> QED
  BY <1>2, <1>3, <1>4 DEF Add, Wrap

\* Unsigned subtraction gives the distance of the positions, modulo Width.
LEMMA DistanceWrap ==
    ASSUME NEW x \in Nat, NEW y \in Nat PROVE Distance(Wrap(x), Wrap(y)) = (x - y) % Width
<1>1. Width \in Nat \ {0} /\ x \in Int /\ y \in Int
  BY WidthFacts
<1>2. PICK a \in Int, r \in 0 .. Width - 1 : r = x % Width /\ x = Width * a + r
  BY <1>1, Rounds, Zenon
<1>3. PICK b \in Int, s \in 0 .. Width - 1 : s = y % Width /\ y = Width * b + s
  BY <1>1, Rounds, Zenon
<1>4. /\ Width * a \in Int /\ Width * b \in Int /\ a - b \in Int /\ r - s \in Int
      /\ Width * (a - b) = Width * a - Width * b
  BY <1>1
<1>5. x - y = (r - s) + Width * (a - b)
  BY <1>2, <1>3, <1>4
<1>6. ((r - s) + Width * (a - b)) % Width = (r - s) % Width
  BY <1>1, <1>4, RestShift
<1> QED
  BY <1>2, <1>3, <1>5, <1>6 DEF Distance, Wrap

\* ... which is the distance itself when it is not negative and small,
\* and all but Width of it when it is negative and small.
LEMMA DistanceForward ==
    ASSUME NEW x \in Nat, NEW y \in Nat, y <= x, x < y + Width
    PROVE  Distance(Wrap(x), Wrap(y)) = x - y
<1>1. Width \in Nat \ {0} /\ x - y \in 0 .. Width - 1
  BY WidthFacts
<1>2. x - y = Width * 0 + (x - y)
  BY <1>1
<1>3. (x - y) % Width = x - y
  BY <1>1, <1>2, RestUnique
<1> QED
  BY <1>3, DistanceWrap

LEMMA DistanceBackward ==
    ASSUME NEW x \in Nat, NEW y \in Nat, x < y, y <= x + Width
    PROVE  Distance(Wrap(x), Wrap(y)) = x - y + Width
<1>1. Width \in Nat \ {0} /\ x - y + Width \in 0 .. Width - 1
  BY WidthFacts
<1>2. x - y \in Int /\ -1 \in Int /\ x - y = Width * (-1) + (x - y + Width)
  BY <1>1
<1>3. (x - y) % Width = x - y + Width
  BY <1>1, <1>2, RestUnique
<1> QED
  BY <1>3, DistanceWrap

\* The signed difference of two counters is the difference of the positions.
LEMMA DiffWrap ==
    ASSUME NEW x \in Nat, NEW y \in Nat, x < y + Half, y <= x + Half
    PROVE  Diff(Wrap(x), Wrap(y)) = x - y
<1>1. Half \in Nat /\ Width = Half + Half
  BY WidthFacts
<1>2. CASE y <= x
  <2>1. Distance(Wrap(x), Wrap(y)) = x - y
    BY <1>1, <1>2, DistanceForward
  <2> QED
    BY <1>1, <1>2, <2>1 DEF Diff, Half
<1>3. CASE x < y
  <2>1. Distance(Wrap(x), Wrap(y)) = x - y + Width
    BY <1>1, <1>3, DistanceBackward
  <2> QED
    BY <1>1, <1>3, <2>1 DEF Diff, Half
<1> QED
  BY <1>2, <1>3

\* Counters less than Width apart show different positions.
LEMMA WrapInjective ==
    ASSUME NEW x \in Nat, NEW y \in Nat, x < y + Width, y < x + Width, Wrap(x) = Wrap(y)
    PROVE  x = y
<1>1. Width \in Nat \ {0}
  BY WidthFacts
<1>2. CASE y < x
  <2>1. Distance(Wrap(x), Wrap(y)) = x - y /\ Distance(Wrap(y), Wrap(y)) = y - y
    BY <1>1, <1>2, DistanceForward
  <2> QED
    BY <1>2, <2>1
<1>3. CASE x < y
  <2>1. Distance(Wrap(y), Wrap(x)) = y - x /\ Distance(Wrap(x), Wrap(x)) = x - x
    BY <1>1, <1>3, DistanceForward
  <2> QED
    BY <1>3, <2>1
<1> QED
  BY <1>2, <1>3

----------------------------------------------------------------------------
(* Slots.                                                                  *)

LEMMA SlotInRing == ASSUME NEW x \in Nat PROVE Slot(x) \in Slots
  BY WidthFacts, RoundAndRest DEF Slot, Slots

\* The slot of a position can be computed from its counter.
LEMMA SlotWrap == ASSUME NEW x \in Nat PROVE Slot(Wrap(x)) = Slot(x)
<1>1. PICK k \in Int : Width = Capacity * k
  BY WidthFacts
<1>2. Width \in Nat \ {0} /\ Capacity \in Nat \ {0} /\ x \in Int
  BY WidthFacts
<1>3. PICK a \in Int, r \in 0 .. Width - 1 : r = x % Width /\ x = Width * a + r
  BY <1>2, Rounds, Zenon
<1>4. r \in Int /\ k * a \in Int /\ Width * a = Capacity * (k * a) /\ Width * a \in Int
  <2>1. (Capacity * k) * a = Capacity * (k * a)
    BY <1>2
  <2> QED
    BY <1>1, <1>2, <2>1
<1>5. x = r + Capacity * (k * a)
  BY <1>3, <1>4
<1>6. (r + Capacity * (k * a)) % Capacity = r % Capacity
  BY <1>2, <1>4, RestShift
<1> QED
  BY <1>3, <1>5, <1>6 DEF Slot, Wrap

\* A lap later a position is back in its slot.
LEMMA SlotPeriodic == ASSUME NEW x \in Nat PROVE Slot(x + Capacity) = Slot(x)
<1>1. Capacity \in Nat \ {0} /\ Capacity * 1 = Capacity /\ x \in Int /\ 1 \in Int
  BY WidthFacts
<1>2. (x + Capacity * 1) % Capacity = x % Capacity
  BY <1>1, RestShift, Zenon
<1> QED
  BY <1>1, <1>2 DEF Slot

\* Two positions of one slot are a lap apart.
LEMMA SlotsApart ==
    ASSUME NEW x \in Nat, NEW y \in Nat, x < y, y < x + Capacity PROVE Slot(x) # Slot(y)
<1>1. SUFFICES ASSUME Slot(x) = Slot(y) PROVE FALSE
  OBVIOUS
<1>2. Capacity \in Nat \ {0} /\ x \in Int /\ y \in Int
  BY WidthFacts
<1>3. PICK a \in Int, r \in 0 .. Capacity - 1 : r = x % Capacity /\ x = Capacity * a + r
  BY <1>2, Rounds, Zenon
<1>4. PICK b \in Int, s \in 0 .. Capacity - 1 : s = y % Capacity /\ y = Capacity * b + s
  BY <1>2, Rounds, Zenon
<1>5. r = s /\ Capacity * a \in Int /\ Capacity * b \in Int
  BY <1>1, <1>2, <1>3, <1>4 DEF Slot
<1>6. CASE a < b
  <2>1. Capacity * b >= Capacity * a + Capacity
    BY <1>2, <1>6, RoundLength
  <2> QED
    BY <1>2, <1>3, <1>4, <1>5, <2>1
<1>7. CASE b < a
  <2>1. Capacity * a >= Capacity * b + Capacity
    BY <1>2, <1>7, RoundLength
  <2> QED
    BY <1>2, <1>3, <1>4, <1>5, <2>1
<1>8. CASE a = b
  BY <1>3, <1>4, <1>5, <1>8
<1> QED
  BY <1>6, <1>7, <1>8

\* Within a lap from any position on, each position has its own slot, ...
LEMMA OneSlotEach ==
    ASSUME NEW f \in Nat, NEW x \in Nat, NEW y \in Nat, Slot(x) = Slot(y),
           f <= x, x < f + Capacity, f <= y, y < f + Capacity
    PROVE  x = y
<1>1. Capacity \in Nat
  BY WidthFacts
<1>2. ~(x < y /\ y < x + Capacity) /\ ~(y < x /\ x < y + Capacity)
  BY SlotsApart
<1> QED
  BY <1>1, <1>2

\* ... and each slot has a position.
LEMMA SlotTaken ==
    ASSUME NEW f \in Nat, NEW x \in Nat
    PROVE  \E y \in Nat : f <= y /\ y < f + Capacity /\ Slot(y) = Slot(x)
<1>1. Capacity \in Nat \ {0} /\ x - f \in Int
  BY WidthFacts
<1>2. PICK k \in Int, r \in 0 .. Capacity - 1 : r = (x - f) % Capacity /\ x - f = Capacity * k + r
  BY <1>1, Rounds, Zenon
<1>3. Capacity * k \in Int /\ f + r \in Int /\ x = (f + r) + Capacity * k
  BY <1>1, <1>2
<1>4. ((f + r) + Capacity * k) % Capacity = (f + r) % Capacity
  BY <1>1, <1>3, RestShift
<1>5. PICK y \in Nat : y = f + r
  OBVIOUS
<1>6. Slot(y) = Slot(x) /\ f <= y /\ y < f + Capacity
  BY <1>1, <1>3, <1>4, <1>5 DEF Slot
<1> QED
  BY <1>6

----------------------------------------------------------------------------
(* Type correctness.                                                       *)

LEMMA CounterType ==
    ASSUME NEW x \in 0 .. Width - 1, NEW n \in Nat PROVE Add(x, n) \in 0 .. Width - 1
<1>1. Width \in Nat \ {0} /\ x + n \in Int
  BY WidthFacts
<1> QED
  BY <1>1, RoundAndRest DEF Add

LEMMA PositionType ==
    ASSUME NEW x \in 0 .. Width - 1 PROVE Slot(x) \in Slots
  BY SlotInRing, WidthFacts

LEMMA InitTypeOK == Init => TypeOK
<1> SUFFICES ASSUME Init PROVE TypeOK
  OBVIOUS
<1>1. 0 \in 0 .. Width - 1 /\ \A i \in Slots : i \in 0 .. Width - 1
  BY WidthFacts DEF Slots
<1> QED
  BY <1>1 DEF Init, TypeOK, IdleProducer, IdleObserver, Elements, Carrying, Claimed, Looking

LEMMA StepTypeOK == TypeOK /\ [Next]_vars => TypeOK'
<1> SUFFICES ASSUME TypeOK, [Next]_vars PROVE TypeOK'
  OBVIOUS
<1>1. ASSUME NEW p \in Producers, NEW v \in Values, EnqueueCall(p, v) PROVE TypeOK'
  BY <1>1 DEF EnqueueCall, TypeOK, Elements, Carrying, Looking
<1>2. ASSUME NEW p \in Producers, EnqueueLoadSequence(p) PROVE TypeOK'
  <2>1. 0 \in 0 .. Width - 1
    BY WidthFacts
  <2>2. \/ \E c \in {"cas", "reload"} : producer' = [producer EXCEPT ![p].pc = c]
        \/ producer' = [producer EXCEPT ![p] = IdleProducer]
    BY <1>2 DEF EnqueueLoadSequence
  <2>3. /\ producer[p].item \in Values
        /\ UNCHANGED <<enqueuePos, dequeuePos, sequence, storage, consumer, observer>>
    BY <1>2 DEF EnqueueLoadSequence, TypeOK, Carrying, Looking
  <2> QED
    BY <2>1, <2>2, <2>3 DEF IdleProducer, TypeOK, Elements, Carrying, Looking, Claimed
<1>3. ASSUME NEW p \in Producers, EnqueueClaim(p) PROVE TypeOK'
  <2>1. Add(enqueuePos, 1) \in 0 .. Width - 1
    BY CounterType DEF TypeOK
  <2>2. Passed \in [inCall : BOOLEAN, first : 0 .. Width - 1, passed : Nat]
    BY DEF Passed, TypeOK
  <2> QED
    BY <1>3, <2>1, <2>2 DEF EnqueueClaim, TypeOK, Elements, Carrying, Looking, Claimed
<1>4. ASSUME NEW p \in Producers, EnqueueRetry(p) PROVE TypeOK'
  <2>1. /\ producer[p].item \in Values
        /\ producer' = [producer EXCEPT ![p].pc = "loadSequence", ![p].pos = enqueuePos]
        /\ UNCHANGED <<enqueuePos, dequeuePos, sequence, storage, consumer, observer>>
    BY <1>4 DEF EnqueueRetry, TypeOK, Carrying, Looking
  <2> QED
    BY <2>1 DEF TypeOK, Carrying, Looking
<1>5. ASSUME NEW p \in Producers, EnqueueWrite(p) PROVE TypeOK'
  <2>1. Slot(producer[p].pos) \in Slots /\ producer[p].item \in Elements
    BY PositionType DEF TypeOK
  <2>2. /\ storage' = [storage EXCEPT ![Slot(producer[p].pos)] = producer[p].item]
        /\ producer' = [producer EXCEPT ![p].pc = "publish", ![p].item = Empty]
        /\ UNCHANGED <<enqueuePos, dequeuePos, sequence, consumer, observer>>
    BY <1>5 DEF EnqueueWrite
  <2>3. storage' \in [Slots -> Elements]
    BY <2>1, <2>2 DEF TypeOK
  <2>4. /\ producer' \in [Producers -> [pc : {"idle"} \cup Carrying \cup Claimed,
                                       pos : 0 .. Width - 1, item : Elements]]
        /\ producer'[p].pc = "publish"
        /\ \A q \in Producers \ {p} : producer'[q] = producer[q]
    <3>1. PICK m : m = [producer EXCEPT ![p].pc = "publish"]
      OBVIOUS
    <3>2. /\ m \in [Producers -> [pc : {"idle"} \cup Carrying \cup Claimed,
                                  pos : 0 .. Width - 1, item : Elements]]
          /\ m[p].pc = "publish"
          /\ \A q \in Producers \ {p} : m[q] = producer[q]
      BY <3>1 DEF TypeOK, Claimed
    <3>3. producer' = [m EXCEPT ![p].item = Empty]
      BY <2>2, <3>1
    <3> QED
      BY <3>2, <3>3 DEF Elements
  <2>5. \A q \in Producers : producer'[q].pc \in Carrying => producer'[q].item \in Values
    BY <2>4 DEF TypeOK, Carrying, Looking
  <2> QED
    BY <2>2, <2>3, <2>4, <2>5 DEF TypeOK
<1>6. ASSUME NEW p \in Producers, EnqueuePublish(p) PROVE TypeOK'
  <2>1. Add(producer[p].pos, 1) \in 0 .. Width - 1 /\ 0 \in 0 .. Width - 1
    <3>1. producer[p].pos \in 0 .. Width - 1 /\ 1 \in Nat
      BY DEF TypeOK
    <3>2. 0 \in 0 .. Width - 1
      BY WidthFacts
    <3> QED
      BY <3>1, <3>2, CounterType
  <2> QED
    BY <1>6, <2>1 DEF EnqueuePublish, IdleProducer, TypeOK, Elements, Carrying, Looking, Claimed
<1>7. ASSUME DequeueCall \/ DequeueStep PROVE TypeOK'
  <2>1. /\ Add(dequeuePos, Capacity) \in 0 .. Width - 1 /\ Add(dequeuePos, 1) \in 0 .. Width - 1
        /\ Slot(dequeuePos) \in Slots
    BY CounterType, PositionType, WidthFacts DEF TypeOK
  <2> QED
    BY <1>7, <2>1
       DEF DequeueCall, DequeueStep, DequeueLoadSequence, DequeueRead, DequeueRelease,
           DequeueAdvance, TypeOK, Elements
<1>8. ASSUME ApproxSizeCall \/ ApproxSizeReturn PROVE TypeOK'
  <2>1. 0 \in 0 .. Width - 1
    BY WidthFacts
  <2>2. observer' \in [inCall : BOOLEAN, first : 0 .. Width - 1, passed : Nat]
    <3>1. \E b \in BOOLEAN, f \in 0 .. Width - 1 :
            observer' = [inCall |-> b, first |-> f, passed |-> 0]
      BY <1>8, <2>1
         DEF ApproxSizeCall, ApproxSizeReturn, IdleObserver, LoadsEnqueueFirst, TypeOK
    <3> QED
      BY <3>1
  <2>3. UNCHANGED <<enqueuePos, dequeuePos, sequence, storage, producer, consumer>>
    BY <1>8 DEF ApproxSizeCall, ApproxSizeReturn
  <2> QED
    BY <2>2, <2>3 DEF TypeOK
<1>9. CASE UNCHANGED vars
  BY <1>9 DEF vars, TypeOK
<1> QED
  BY <1>1, <1>2, <1>3, <1>4, <1>5, <1>6, <1>7, <1>8, <1>9 DEF Next, EnqueueStep

----------------------------------------------------------------------------
(* The true positions.                                                     *)

LEMMA InitTracks ==
    ASSUME Init
    PROVE  \E E \in Nat, D \in Nat, P \in [Producers -> Nat] : Tracks(E, D, P)
<1> DEFINE P == [p \in Producers |-> 0]
<1>1. \A x \in Nat : x < Width => Wrap(x) = x
  <2> SUFFICES ASSUME NEW x \in Nat, x < Width PROVE Wrap(x) = x
    OBVIOUS
  <2>1. Width \in Nat \ {0} /\ 0 \in Int /\ x \in Int /\ x \in 0 .. Width - 1
        /\ x = Width * 0 + x
    BY WidthFacts
  <2> QED
    BY <2>1, RestUnique, Zenon DEF Wrap
<1>2. \A x \in Nat : x < Capacity => Slot(x) = x /\ x \in Slots
  <2> SUFFICES ASSUME NEW x \in Nat, x < Capacity PROVE Slot(x) = x /\ x \in Slots
    OBVIOUS
  <2>1. Capacity \in Nat \ {0} /\ 0 \in Int /\ x \in Int /\ x \in 0 .. Capacity - 1
        /\ x = Capacity * 0 + x
    BY WidthFacts
  <2> QED
    BY <2>1, RestUnique, Zenon DEF Slot, Slots
<1>3. /\ First(0) = 0 /\ consumer = "idle" /\ ~observer.inCall
      /\ \A p \in Producers : producer[p].pc = "idle"
      /\ \A i \in Slots : sequence[i] = i
  BY DEF Init, First, IdleProducer, IdleObserver
<1>4. Capacity \in Nat /\ Capacity < Width /\ Wrap(0) = 0
  BY <1>1, WidthFacts
<1>5. Window(0, 0)
  BY <1>3, <1>4 DEF Init, Window
<1>6. Protocol(0, 0, P)
  <2> SUFFICES ASSUME NEW x \in Nat, x < Capacity PROVE sequence[Slot(x)] = Wrap(x)
    BY <1>3, <1>4 DEF Protocol
  <2>1. x < Width
    BY <1>4, WidthFacts
  <2> QED
    BY <1>1, <1>2, <1>3, <2>1
<1>7. Behind(0, 0, P) /\ Claims(0, 0, P) /\ Moving(0, 0, P) /\ Observed(0)
  BY <1>3 DEF Behind, Claims, Moving, Observed, Looking, Claimed
<1>8. P \in [Producers -> Nat] /\ Tracks(0, 0, P)
  BY <1>5, <1>6, <1>7 DEF Tracks
<1> QED
  BY <1>8

\* A step of a producer that leaves the shared counters and the claims alone
LEMMA ProducerMoves ==
    ASSUME NEW E \in Nat, NEW D \in Nat, NEW P \in [Producers -> Nat],
           NEW Q \in [Producers -> Nat], NEW p \in Producers, Tracks(E, D, P),
           UNCHANGED <<enqueuePos, dequeuePos, sequence, consumer, observer>>,
           \A q \in Producers \ {p} : producer'[q] = producer[q] /\ Q[q] = P[q],
           producer'[p].pc \in Claimed <=> producer[p].pc \in Claimed,
           producer[p].pc \in Claimed => Q[p] = P[p] /\ producer'[p].pos = producer[p].pos,
           producer'[p].pc \in Looking =>
               /\ producer'[p].pos = Wrap(Q[p])
               /\ Q[p] <= E
               /\ E <= Q[p] + MaxLag
               /\ producer'[p].pc = "cas" /\ Q[p] = E => E < First(D) + Capacity
    PROVE  Tracks(E, D, Q)'
<1>1. First(D)' = First(D)
  BY DEF First
<1>2. \A q \in Producers : producer[q].pc \in Claimed =>
          Q[q] = P[q] /\ producer'[q].pos = producer[q].pos
  OBVIOUS
<1>3. \A q \in Producers : producer'[q].pc \in Claimed <=> producer[q].pc \in Claimed
  OBVIOUS
<1>4. \A x : Unpublished(Q, x)' <=> Unpublished(P, x)
  BY <1>2, <1>3 DEF Unpublished
<1>5. Window(E, D)' /\ Observed(E)' /\ Moving(E, D, Q)' /\ Protocol(E, D, Q)'
  BY <1>1, <1>4 DEF Tracks, Window, Observed, Moving, Protocol
<1>6. Claims(E, D, Q)'
  BY <1>1, <1>2, <1>3 DEF Tracks, Claims
<1>7. Behind(E, D, Q)'
  BY <1>1 DEF Tracks, Behind
<1> QED
  BY <1>5, <1>6, <1>7 DEF Tracks

\* A step of the consumer that gives no slot back
LEMMA ConsumerMoves ==
    ASSUME NEW E \in Nat, NEW D \in Nat, NEW P \in [Producers -> Nat], Tracks(E, D, P),
           UNCHANGED <<enqueuePos, dequeuePos, sequence, producer, observer>>,
           consumer # "advance", consumer' # "advance",
           consumer' \in {"read", "release"} => D < E /\ ~Unpublished(P, D)
    PROVE  Tracks(E, D, P)'
<1>1. First(D)' = First(D)
  BY DEF First
<1>2. \A x : Unpublished(P, x)' <=> Unpublished(P, x)
  BY DEF Unpublished
<1> QED
  BY <1>1, <1>2 DEF Tracks, Window, Observed, Moving, Protocol, Claims, Behind

\* What a producer learns from the sequence number of its slot: the queue is
\* full, or the slot is free if nobody claimed the position meanwhile.
LEMMA TestMeaning ==
    ASSUME NEW E \in Nat, NEW D \in Nat, NEW P \in [Producers -> Nat], Tracks(E, D, P),
           NEW p \in Producers, producer[p].pc = "loadSequence",
           NEW diff, diff = Diff(sequence[Slot(producer[p].pos)], producer[p].pos)
    PROVE  /\ diff \in Int
           /\ diff < 0 => E = First(D) + Capacity
           /\ diff = 0 /\ P[p] = E => E < First(D) + Capacity
<1>1. /\ MaxLag \in Nat \ {0} /\ Capacity \in Nat /\ Capacity >= 2 /\ Half \in Nat
      /\ MaxLag + Capacity <= Half
  BY WidthFacts
<1>2. PICK x \in Nat : x = P[p]
  OBVIOUS
<1>3. PICK f \in Nat : f = First(D)
  BY DEF First
<1>4. producer[p].pos = Wrap(x) /\ x <= E /\ E <= x + MaxLag
  BY <1>2 DEF Tracks, Behind, Looking
<1>5. f <= E /\ E <= f + Capacity
  BY <1>3 DEF Tracks, Window
<1>6. PICK y \in Nat : f <= y /\ y < f + Capacity /\ Slot(y) = Slot(x)
  BY SlotTaken
<1>7. PICK z \in Nat : /\ sequence[Slot(y)] = Wrap(z)
                       /\ z = y \/ (z = y + 1 /\ y < E)
  BY <1>3, <1>6 DEF Tracks, Protocol
<1>8. diff = Diff(Wrap(z), Wrap(x))
  BY <1>4, <1>6, <1>7, SlotWrap
<1>9. z < x + Half /\ x <= z + Half
  BY <1>1, <1>4, <1>5, <1>6, <1>7
<1>10. diff = z - x
  BY <1>8, <1>9, DiffWrap
<1>11. diff < 0 => E = f + Capacity
  <2>1. x < f + Capacity /\ f <= x => x = y
    BY <1>6, OneSlotEach
  <2> QED
    BY <1>1, <1>4, <1>5, <1>6, <1>7, <1>10, <2>1
<1>12. diff = 0 /\ x = E => E < f + Capacity
  <2>1. y < x /\ x < y + Capacity => Slot(y) # Slot(x)
    BY SlotsApart
  <2> QED
    BY <1>1, <1>5, <1>6, <1>7, <1>10, <2>1
<1> QED
  BY <1>2, <1>3, <1>10, <1>11, <1>12

LEMMA CallTracks ==
    ASSUME NEW E \in Nat, NEW D \in Nat, NEW P \in [Producers -> Nat], Tracks(E, D, P), TypeOK,
           NEW p \in Producers, EnqueueRetry(p) \/ \E v \in Values : EnqueueCall(p, v)
    PROVE  [P EXCEPT ![p] = E] \in [Producers -> Nat] /\ Tracks(E, D, [P EXCEPT ![p] = E])'
<1>1. PICK Q \in [Producers -> Nat] : Q = [P EXCEPT ![p] = E]
  OBVIOUS
<1>2. Q[p] = E /\ \A q \in Producers \ {p} : Q[q] = P[q]
  BY <1>1
<1>3. /\ producer[p].pc \notin Claimed /\ producer'[p].pc = "loadSequence"
      /\ producer'[p].pos = enqueuePos
      /\ \A q \in Producers \ {p} : producer'[q] = producer[q]
      /\ UNCHANGED <<enqueuePos, dequeuePos, sequence, consumer, observer>>
  BY DEF EnqueueRetry, EnqueueCall, TypeOK, Claimed
<1>4. enqueuePos = Wrap(E) /\ MaxLag \in Nat
  BY WidthFacts DEF Tracks, Window
<1>5. Tracks(E, D, Q)'
  BY <1>2, <1>3, <1>4, ProducerMoves, SMTT(30) DEF Claimed
<1> QED
  BY <1>1, <1>5

LEMMA LoadTracks ==
    ASSUME NEW E \in Nat, NEW D \in Nat, NEW P \in [Producers -> Nat], Tracks(E, D, P), TypeOK,
           NEW p \in Producers, EnqueueLoadSequence(p)
    PROVE  Tracks(E, D, P)'
<1> DEFINE diff == Diff(sequence[Slot(producer[p].pos)], producer[p].pos)
<1>1. /\ producer[p].pc = "loadSequence" /\ producer'[p].pc \in {"idle", "cas", "reload"}
      /\ producer'[p].pc = "cas" => producer'[p].pos = producer[p].pos /\ diff = 0
      /\ \A q \in Producers \ {p} : producer'[q] = producer[q]
      /\ UNCHANGED <<enqueuePos, dequeuePos, sequence, consumer, observer>>
  BY DEF EnqueueLoadSequence, IdleProducer, TypeOK
<1>2. diff = 0 /\ P[p] = E => E < First(D) + Capacity
  BY <1>1, TestMeaning
<1> HIDE DEF diff
<1>3. producer[p].pos = Wrap(P[p]) /\ P[p] <= E /\ E <= P[p] + MaxLag
  BY <1>1 DEF Tracks, Behind, Looking
<1>4. producer'[p].pc \in Looking => producer'[p].pc = "cas"
  BY <1>1 DEF Looking
<1>5. producer[p].pc \notin Claimed /\ producer'[p].pc \notin Claimed
  BY <1>1 DEF Claimed
<1> QED
  BY <1>1, <1>2, <1>3, <1>4, <1>5, ProducerMoves

LEMMA WriteTracks ==
    ASSUME NEW E \in Nat, NEW D \in Nat, NEW P \in [Producers -> Nat], Tracks(E, D, P), TypeOK,
           NEW p \in Producers, EnqueueWrite(p)
    PROVE  Tracks(E, D, P)'
<1>1. /\ producer[p].pc = "write" /\ producer'[p].pc = "publish"
      /\ producer'[p].pos = producer[p].pos
      /\ \A q \in Producers \ {p} : producer'[q] = producer[q]
      /\ UNCHANGED <<enqueuePos, dequeuePos, sequence, consumer, observer>>
  BY DEF EnqueueWrite, TypeOK
<1>2. /\ producer[p].pc \in Claimed /\ producer'[p].pc \in Claimed
      /\ producer'[p].pc \notin Looking
  BY <1>1 DEF Claimed, Looking
<1> QED
  BY <1>1, <1>2, ProducerMoves

\* A producer whose compare_exchange succeeds has looked at the true position.
LEMMA ClaimPosition ==
    ASSUME NEW E \in Nat, NEW D \in Nat, NEW P \in [Producers -> Nat], Tracks(E, D, P),
           NEW p \in Producers, EnqueueClaim(p)
    PROVE  P[p] = E /\ E < First(D) + Capacity
<1>1. PICK x \in Nat : x = P[p]
  OBVIOUS
<1>2. /\ producer[p].pc = "cas" /\ enqueuePos = producer[p].pos /\ enqueuePos = Wrap(E)
      /\ producer[p].pos = Wrap(x) /\ x <= E /\ E <= x + MaxLag
      /\ x = E => E < First(D) + Capacity
  BY <1>1 DEF EnqueueClaim, Tracks, Behind, Window, Looking
<1>3. x < E + Width /\ E < x + Width
  BY <1>2, WidthFacts
<1>4. x = E
  BY <1>2, <1>3, WrapInjective
<1> QED
  BY <1>1, <1>2, <1>4

LEMMA ClaimTracks ==
    ASSUME NEW E \in Nat, NEW D \in Nat, NEW P \in [Producers -> Nat], Tracks(E, D, P), TypeOK,
           NEW p \in Producers, EnqueueClaim(p)
    PROVE  E + 1 \in Nat /\ Tracks(E + 1, D, P)'
<1>1. P[p] = E /\ E < First(D) + Capacity
  BY ClaimPosition
<1>2. /\ producer[p].pc = "cas" /\ producer'[p].pc = "write"
      /\ producer'[p].pos = producer[p].pos
      /\ \A q \in Producers \ {p} : producer'[q] = producer[q]
      /\ UNCHANGED <<dequeuePos, sequence, consumer>>
  BY DEF EnqueueClaim, TypeOK
<1>3. enqueuePos' = Wrap(E + 1) /\ producer[p].pos = Wrap(E) /\ enqueuePos = Wrap(E)
  BY <1>1, AddWrap DEF EnqueueClaim, Tracks, Window
<1>4. First(D)' = First(D) /\ First(D) \in Nat /\ Capacity \in Nat
  BY <1>2, WidthFacts DEF First
<1>5. \A q \in Producers : producer'[q].pc \in Claimed <=> (q = p \/ producer[q].pc \in Claimed)
  BY <1>2 DEF Claimed
<1>6. Window(E + 1, D)'
  BY <1>1, <1>2, <1>3, <1>4 DEF Tracks, Window
<1>7. Claims(E + 1, D, P)'
  <2>1. First(D) <= E
    BY DEF Tracks, Window
  <2>2. \A q \in Producers : producer[q].pc \in Claimed => P[q] < E
    BY DEF Tracks, Claims
  <2>3. ASSUME NEW q \in Producers, producer'[q].pc \in Claimed
        PROVE  producer'[q].pos = Wrap(P[q]) /\ First(D) <= P[q] /\ P[q] < E + 1
    <3>1. CASE q = p
      BY <1>1, <1>2, <1>3, <2>1, <3>1
    <3>2. CASE q # p
      BY <1>2, <1>5, <2>3, <3>2 DEF Tracks, Claims
    <3> QED
      BY <3>1, <3>2
  <2>4. ASSUME NEW q \in Producers, NEW r \in Producers, producer'[q].pc \in Claimed,
               producer'[r].pc \in Claimed, P[q] = P[r]
        PROVE  q = r
    BY <1>1, <1>5, <2>2, <2>4 DEF Tracks, Claims
  <2> QED
    BY <1>4, <2>3, <2>4 DEF Claims
<1>8. Behind(E + 1, D, P)'
  <2> SUFFICES ASSUME NEW q \in Producers, producer'[q].pc \in Looking
               PROVE  /\ producer'[q].pos = Wrap(P[q]) /\ P[q] <= E + 1
                      /\ E + 1 <= P[q] + MaxLag /\ P[q] # E + 1
    BY <1>4 DEF Behind
  <2>1. q # p /\ producer[q].pc \in Looking /\ producer'[q] = producer[q]
    BY <1>2 DEF Looking
  <2>2. PICK x \in Nat : x = P[q]
    OBVIOUS
  <2>3. producer[q].pos = Wrap(x) /\ x <= E /\ E <= x + MaxLag
    BY <2>1, <2>2 DEF Tracks, Behind
  <2>4. Distance(Wrap(E), Wrap(x)) < MaxLag
    BY <1>3, <2>1, <2>3 DEF EnqueueClaim, WithinLag, Looking
  <2>5. Distance(Wrap(E), Wrap(x)) = E - x
    BY <2>3, DistanceForward, WidthFacts
  <2> QED
    BY <2>1, <2>2, <2>3, <2>4, <2>5, WidthFacts
<1>9. Protocol(E + 1, D, P)'
  <2> SUFFICES ASSUME NEW x \in Nat, First(D) <= x, x < First(D) + Capacity
               PROVE  sequence[Slot(x)] =
                        IF x < E + 1 /\ ~Unpublished(P, x)' THEN Wrap(x + 1) ELSE Wrap(x)
    BY <1>2, <1>4 DEF Protocol
  <2>1. sequence[Slot(x)] = IF x < E /\ ~Unpublished(P, x) THEN Wrap(x + 1) ELSE Wrap(x)
    BY DEF Tracks, Protocol
  <2>2. Unpublished(P, x)' <=> (x = E \/ Unpublished(P, x))
    BY <1>1, <1>5 DEF Unpublished
  <2> QED
    BY <2>1, <2>2
<1>10. Moving(E + 1, D, P)'
  BY <1>1, <1>2, <1>5 DEF Tracks, Moving, Unpublished
<1>11. Observed(E + 1)'
  <2>1. CASE observer.inCall
    <3>1. observer' = [observer EXCEPT !.passed = observer.passed + 1] /\ observer.passed < MaxLag
      BY <2>1 DEF EnqueueClaim, Passed, WithinLag
    <3>2. observer.passed \in Nat /\ MaxLag \in Nat
      BY WidthFacts DEF TypeOK
    <3>3. observer'.passed = observer.passed + 1 /\ observer'.first = observer.first
      BY <3>1 DEF TypeOK
    <3>4. (E + 1) - (observer.passed + 1) = E - observer.passed
      BY <3>2
    <3> QED
      BY <2>1, <3>1, <3>2, <3>3, <3>4 DEF Tracks, Observed
  <2>2. CASE ~observer.inCall
    BY <2>2 DEF EnqueueClaim, Passed, Observed
  <2> QED
    BY <2>1, <2>2
<1> QED
  BY <1>6, <1>7, <1>8, <1>9, <1>10, <1>11 DEF Tracks

LEMMA PublishTracks ==
    ASSUME NEW E \in Nat, NEW D \in Nat, NEW P \in [Producers -> Nat], Tracks(E, D, P), TypeOK,
           NEW p \in Producers, EnqueuePublish(p)
    PROVE  Tracks(E, D, P)'
<1>1. /\ producer[p].pc \in Claimed /\ producer'[p].pc = "idle"
      /\ \A q \in Producers \ {p} : producer'[q] = producer[q]
      /\ UNCHANGED <<enqueuePos, dequeuePos, consumer, observer>>
      /\ sequence' = [sequence EXCEPT ![Slot(producer[p].pos)] = Add(producer[p].pos, 1)]
  BY DEF EnqueuePublish, IdleProducer, TypeOK, Claimed
<1>2. PICK y \in Nat : y = P[p]
  OBVIOUS
<1>3. First(D)' = First(D) /\ First(D) \in Nat /\ Capacity \in Nat
  BY <1>1, WidthFacts DEF First
<1>4. producer[p].pos = Wrap(y) /\ First(D) <= y /\ y < E
  BY <1>1, <1>2 DEF Tracks, Claims
<1>5. y < First(D) + Capacity
  BY <1>3, <1>4 DEF Tracks, Window
<1>6. \A q \in Producers : producer'[q].pc \in Claimed <=> (q # p /\ producer[q].pc \in Claimed)
  BY <1>1 DEF Claimed
<1>7. sequence' = [sequence EXCEPT ![Slot(y)] = Wrap(y + 1)] /\ Slot(y) \in Slots
  BY <1>1, <1>4, SlotWrap, AddWrap, SlotInRing
<1>8. \A x \in Nat : Unpublished(P, x)' <=> (x # y /\ Unpublished(P, x))
  BY <1>1, <1>2, <1>6 DEF Unpublished, Tracks, Claims
<1>9. Window(E, D)' /\ Observed(E)' /\ Moving(E, D, P)'
  BY <1>1, <1>3, <1>8 DEF Tracks, Window, Observed, Moving
<1>10. Behind(E, D, P)'
  BY <1>1, <1>3 DEF Tracks, Behind, Looking
<1>11. Claims(E, D, P)'
  BY <1>1, <1>3, <1>6 DEF Tracks, Claims
<1>12. Protocol(E, D, P)'
  <2> SUFFICES ASSUME NEW x \in Nat, First(D) <= x, x < First(D) + Capacity
               PROVE  sequence'[Slot(x)] =
                        IF x < E /\ ~Unpublished(P, x)' THEN Wrap(x + 1) ELSE Wrap(x)
    BY <1>3 DEF Protocol
  <2>1. sequence[Slot(x)] = IF x < E /\ ~Unpublished(P, x) THEN Wrap(x + 1) ELSE Wrap(x)
    BY DEF Tracks, Protocol
  <2>2. CASE x = y
    BY <1>4, <1>7, <1>8, <2>2 DEF TypeOK
  <2>3. CASE x # y
    <3>1. Slot(x) # Slot(y)
      BY <1>3, <1>4, <1>5, <2>3, OneSlotEach
    <3>2. Slot(x) \in Slots
      BY SlotInRing
    <3>3. sequence'[Slot(x)] = sequence[Slot(x)]
      BY <1>7, <3>1, <3>2 DEF TypeOK
    <3> QED
      BY <1>8, <2>1, <2>3, <3>3
  <2> QED
    BY <2>2, <2>3
<1> QED
  BY <1>9, <1>10, <1>11, <1>12 DEF Tracks

\* The consumer goes on only when the position is published.
LEMMA DequeueLoadTracks ==
    ASSUME NEW E \in Nat, NEW D \in Nat, NEW P \in [Producers -> Nat], Tracks(E, D, P), TypeOK,
           DequeueCall \/ DequeueLoadSequence \/ DequeueRead
    PROVE  Tracks(E, D, P)'
<1>1. consumer # "advance" /\ consumer' # "advance"
      /\ UNCHANGED <<enqueuePos, dequeuePos, sequence, producer, observer>>
  BY DEF DequeueCall, DequeueLoadSequence, DequeueRead
<1>2. ASSUME consumer' \in {"read", "release"} PROVE D < E /\ ~Unpublished(P, D)
  <2>1. CASE DequeueCall
    BY <1>2, <2>1 DEF DequeueCall
  <2>2. CASE DequeueRead
    BY <2>2 DEF DequeueRead, Tracks, Moving
  <2>3. CASE DequeueLoadSequence
    <3>1. dequeuePos = Wrap(D) /\ First(D) = D
          /\ Diff(sequence[Slot(dequeuePos)], Add(dequeuePos, 1)) = 0
      BY <1>1, <1>2, <2>3 DEF DequeueLoadSequence, Tracks, Window, First
    <3>2. Diff(sequence[Slot(D)], Wrap(D + 1)) = 0
      BY <3>1, SlotWrap, AddWrap
    <3>3. sequence[Slot(D)] = IF D < E /\ ~Unpublished(P, D) THEN Wrap(D + 1) ELSE Wrap(D)
      BY <3>1, WidthFacts DEF Tracks, Protocol
    <3>4. Diff(Wrap(D), Wrap(D + 1)) = D - (D + 1)
      <4>1. Half \in Nat /\ Half >= 1 /\ D + 1 \in Nat
        BY WidthFacts
      <4>2. D < (D + 1) + Half /\ D + 1 <= D + Half
        BY <4>1
      <4> QED
        BY <4>1, <4>2, DiffWrap
    <3>5. D - (D + 1) # 0
      OBVIOUS
    <3> QED
      BY <3>2, <3>3, <3>4, <3>5
  <2> QED
    BY <2>1, <2>2, <2>3
<1> QED
  BY <1>1, <1>2, ConsumerMoves

LEMMA ReleaseTracks ==
    ASSUME NEW E \in Nat, NEW D \in Nat, NEW P \in [Producers -> Nat], Tracks(E, D, P), TypeOK,
           DequeueRelease
    PROVE  Tracks(E, D, P)'
<1>1. /\ consumer = "release" /\ consumer' = "advance"
      /\ sequence' = [sequence EXCEPT ![Slot(dequeuePos)] = Add(dequeuePos, Capacity)]
      /\ UNCHANGED <<enqueuePos, dequeuePos, producer, observer>>
  BY DEF DequeueRelease
<1>2. First(D) = D /\ First(D)' = D + 1 /\ Capacity \in Nat /\ Capacity >= 2
  BY <1>1, WidthFacts DEF First
<1>3. D < E /\ ~Unpublished(P, D) /\ dequeuePos = Wrap(D) /\ E <= D + Capacity
  BY <1>1, <1>2 DEF Tracks, Moving, Window
<1>4. \A x : Unpublished(P, x)' <=> Unpublished(P, x)
  BY <1>1 DEF Unpublished
<1>5. sequence' = [sequence EXCEPT ![Slot(D)] = Wrap(D + Capacity)] /\ Slot(D) \in Slots
  BY <1>1, <1>2, <1>3, SlotWrap, AddWrap, SlotInRing
<1>6. Window(E, D)' /\ Observed(E)' /\ Moving(E, D, P)'
  BY <1>1, <1>2, <1>3 DEF Tracks, Window, Observed, Moving
<1>7. Behind(E, D, P)'
  BY <1>1, <1>2 DEF Tracks, Behind
<1>8. Claims(E, D, P)'
  <2>1. ASSUME NEW p \in Producers, producer[p].pc \in Claimed
        PROVE  producer[p].pos = Wrap(P[p]) /\ D + 1 <= P[p] /\ P[p] < E
    BY <1>2, <1>3, <2>1 DEF Tracks, Claims, Unpublished
  <2> QED
    BY <1>1, <1>2, <2>1 DEF Tracks, Claims
<1>9. Protocol(E, D, P)'
  <2> SUFFICES ASSUME NEW x \in Nat, D + 1 <= x, x < (D + 1) + Capacity
               PROVE  sequence'[Slot(x)] =
                        IF x < E /\ ~Unpublished(P, x) THEN Wrap(x + 1) ELSE Wrap(x)
    BY <1>2, <1>4 DEF Protocol
  <2>1. CASE x = D + Capacity
    <3>1. Slot(x) = Slot(D) /\ ~(x < E)
      BY <1>2, <1>3, <2>1, SlotPeriodic
    <3> QED
      BY <1>5, <2>1, <3>1 DEF TypeOK
  <2>2. CASE x # D + Capacity
    <3>1. D < x /\ x < D + Capacity
      BY <1>2, <2>2
    <3>2. Slot(x) # Slot(D) /\ Slot(x) \in Slots
      BY <3>1, SlotsApart, SlotInRing
    <3>3. sequence'[Slot(x)] = sequence[Slot(x)]
      BY <1>5, <3>2 DEF TypeOK
    <3> QED
      BY <1>2, <3>1, <3>3 DEF Tracks, Protocol
  <2> QED
    BY <2>1, <2>2
<1> QED
  BY <1>6, <1>7, <1>8, <1>9 DEF Tracks

LEMMA AdvanceTracks ==
    ASSUME NEW E \in Nat, NEW D \in Nat, NEW P \in [Producers -> Nat], Tracks(E, D, P), TypeOK,
           DequeueAdvance
    PROVE  D + 1 \in Nat /\ Tracks(E, D + 1, P)'
<1>1. /\ consumer = "advance" /\ consumer' = "idle" /\ dequeuePos' = Add(dequeuePos, 1)
      /\ UNCHANGED <<enqueuePos, sequence, producer, observer>>
  BY DEF DequeueAdvance
<1>2. First(D) = D + 1 /\ First(D + 1)' = D + 1
  BY <1>1 DEF First
<1>3. dequeuePos' = Wrap(D + 1)
  BY <1>1, AddWrap DEF Tracks, Window
<1>4. \A x : Unpublished(P, x)' <=> Unpublished(P, x)
  BY <1>1 DEF Unpublished
<1>5. Window(E, D + 1)' /\ Observed(E)' /\ Moving(E, D + 1, P)'
  BY <1>1, <1>2, <1>3 DEF Tracks, Window, Observed, Moving
<1>6. Behind(E, D + 1, P)' /\ Claims(E, D + 1, P)' /\ Protocol(E, D + 1, P)'
  BY <1>1, <1>2, <1>4 DEF Tracks, Behind, Claims, Protocol
<1> QED
  BY <1>5, <1>6 DEF Tracks

LEMMA ObserverTracks ==
    ASSUME NEW E \in Nat, NEW D \in Nat, NEW P \in [Producers -> Nat], Tracks(E, D, P),
           ApproxSizeCall \/ ApproxSizeReturn \/ UNCHANGED vars
    PROVE  Tracks(E, D, P)'
<1>1. UNCHANGED <<enqueuePos, dequeuePos, sequence, producer, consumer>>
  BY DEF ApproxSizeCall, ApproxSizeReturn, vars
<1>2. First(D)' = First(D) /\ \A x : Unpublished(P, x)' <=> Unpublished(P, x)
  BY <1>1 DEF First, Unpublished
<1>3. Window(E, D)' /\ Moving(E, D, P)' /\ Behind(E, D, P)' /\ Claims(E, D, P)'
      /\ Protocol(E, D, P)'
  BY <1>1, <1>2 DEF Tracks, Window, Moving, Behind, Claims, Protocol
<1>4. Observed(E)'
  <2>1. CASE ApproxSizeCall
    <3>1. observer'.passed = 0 /\ observer'.first = Wrap(E) /\ E - 0 = E
      BY <2>1 DEF ApproxSizeCall, LoadsEnqueueFirst, Tracks, Window
    <3> QED
      BY <3>1, WidthFacts DEF Observed
  <2>2. CASE ApproxSizeReturn
    BY <2>2 DEF ApproxSizeReturn, IdleObserver, Observed
  <2>3. CASE UNCHANGED vars
    BY <2>3 DEF vars, Tracks, Observed
  <2> QED
    BY <2>1, <2>2, <2>3
<1> QED
  BY <1>3, <1>4 DEF Tracks

----------------------------------------------------------------------------
(* The invariant.                                                          *)

LEMMA StepQueueInv == QueueInv /\ [Next]_vars => QueueInv'
<1> SUFFICES ASSUME QueueInv, [Next]_vars PROVE QueueInv'
  OBVIOUS
<1>1. TypeOK /\ TypeOK'
  BY StepTypeOK DEF QueueInv
<1>2. PICK E \in Nat, D \in Nat, P \in [Producers -> Nat] : Tracks(E, D, P)
  BY DEF QueueInv
<1>3. SUFFICES \E F \in Nat, G \in Nat, Q \in [Producers -> Nat] : Tracks(F, G, Q)'
  BY <1>1 DEF QueueInv
<1>4. ASSUME NEW p \in Producers, (\E v \in Values : EnqueueCall(p, v)) \/ EnqueueStep(p)
      PROVE  \E F \in Nat, G \in Nat, Q \in [Producers -> Nat] : Tracks(F, G, Q)'
  <2>1. CASE EnqueueRetry(p) \/ \E v \in Values : EnqueueCall(p, v)
    BY <1>1, <1>2, <2>1, CallTracks
  <2>2. CASE EnqueueLoadSequence(p)
    BY <1>1, <1>2, <2>2, LoadTracks
  <2>3. CASE EnqueueClaim(p)
    BY <1>1, <1>2, <2>3, ClaimTracks
  <2>4. CASE EnqueueWrite(p)
    BY <1>1, <1>2, <2>4, WriteTracks
  <2>5. CASE EnqueuePublish(p)
    BY <1>1, <1>2, <2>5, PublishTracks
  <2> QED
    BY <1>4, <2>1, <2>2, <2>3, <2>4, <2>5 DEF EnqueueStep
<1>5. CASE DequeueCall \/ DequeueStep
  <2>1. CASE DequeueCall \/ DequeueLoadSequence \/ DequeueRead
    BY <1>1, <1>2, <2>1, DequeueLoadTracks
  <2>2. CASE DequeueRelease
    BY <1>1, <1>2, <2>2, ReleaseTracks
  <2>3. CASE DequeueAdvance
    BY <1>1, <1>2, <2>3, AdvanceTracks
  <2> QED
    BY <1>5, <2>1, <2>2, <2>3 DEF DequeueStep
<1>6. CASE ApproxSizeCall \/ ApproxSizeReturn \/ UNCHANGED vars
  BY <1>2, <1>6, ObserverTracks
<1> QED
  BY <1>4, <1>5, <1>6 DEF Next

(* Whatever the interleaving and however often m_enqueuePos, m_dequeuePos  *)
(* and the sequence numbers wrap, they stand for positions that obey the   *)
(* protocol of the slots.                                                  *)
THEOREM CountersTrackPositions == Spec => []QueueInv
<1>1. Init => QueueInv
  BY InitTypeOK, InitTracks DEF QueueInv
<1> QED
  BY <1>1, StepQueueInv, PTL DEF Spec

----------------------------------------------------------------------------
(* ApproxSize.                                                             *)

LEMMA EstimateBounded == QueueInv => SizeEstimate
<1> SUFFICES ASSUME QueueInv, observer.inCall
             PROVE  Diff(ApproxSize, 0) \in -observer.passed .. Capacity + 1
  BY DEF SizeEstimate
<1>1. PICK E \in Nat, D \in Nat, P \in [Producers -> Nat] : Tracks(E, D, P)
  BY DEF QueueInv
<1>2. PICK n \in Nat : n = observer.passed
  BY DEF QueueInv, TypeOK
<1>3. PICK x \in Nat : x = E - n
  BY <1>1, <1>2 DEF Tracks, Observed
<1>4. n <= MaxLag /\ observer.first = Wrap(x) /\ dequeuePos = Wrap(D)
  BY <1>1, <1>2, <1>3 DEF Tracks, Observed, Window
<1>5. D <= E /\ E <= D + 1 + Capacity
  <2>1. First(D) \in {D, D + 1} /\ First(D) <= E /\ E <= First(D) + Capacity
    BY <1>1 DEF First, Tracks, Window
  <2> QED
    BY <2>1, WidthFacts
<1>6. /\ MaxLag \in Nat /\ Capacity \in Nat /\ Half \in Nat /\ Width = Half + Half
      /\ Capacity + 2 <= Half /\ MaxLag <= Half
  BY WidthFacts
<1>7. ApproxSize = Distance(Wrap(x), Wrap(D))
  BY <1>4 DEF ApproxSize, LoadsEnqueueFirst
<1>8. x < D + Half /\ D <= x + Half
  BY <1>3, <1>4, <1>5, <1>6
<1>9. PICK d \in 0 .. Width - 1 : d = Distance(Wrap(x), Wrap(D))
  <2>1. (x - D) % Width \in 0 .. Width - 1
    BY WidthFacts, RoundAndRest
  <2> QED
    BY <2>1, DistanceWrap
<1>10. Diff(d, 0) = Diff(Wrap(x), Wrap(D))
  <2>1. Width \in Nat \ {0} /\ 0 \in Int /\ d \in Int /\ d = Width * 0 + d /\ d - 0 = d
    BY WidthFacts
  <2>2. d % Width = d
    BY <2>1, RestUnique, Zenon
  <2>3. Distance(d, 0) = d
    BY <2>1, <2>2 DEF Distance
  <2> QED
    BY <1>9, <2>3 DEF Diff
<1>11. Diff(ApproxSize, 0) = x - D
  BY <1>7, <1>8, <1>9, <1>10, DiffWrap
<1> QED
  BY <1>2, <1>3, <1>4, <1>5, <1>6, <1>11

(* ApproxSize, read as a signed number, is never above Capacity + 1 and    *)
(* never further below zero than there were claims between its two loads;  *)
(* without one it does not wrap.  Read as the unsigned number it is, it    *)
(* can be almost Width, against the comment at MPSCQueue.hpp:129.          *)
THEOREM EstimateIsBounded == Spec => []SizeEstimate
<1>1. QueueInv => SizeEstimate
  BY EstimateBounded
<1> QED
  BY <1>1, CountersTrackPositions, PTL

----------------------------------------------------------------------------
(* What the queue holds.                                                   *)

\* The position behind FirstWaiting
Waiting(D) == IF consumer \in {"release", "advance"} THEN D + 1 ELSE D

LEMMA WaitingFacts ==
    ASSUME QueueInv, NEW E \in Nat, NEW D \in Nat, NEW P \in [Producers -> Nat],
           Tracks(E, D, P)
    PROVE  /\ Waiting(D) \in Nat /\ First(D) \in Nat
           /\ FirstWaiting = Wrap(Waiting(D))
           /\ First(D) <= Waiting(D) /\ Waiting(D) <= E /\ E <= First(D) + Capacity
           /\ Distance(enqueuePos, FirstWaiting) = E - Waiting(D)
<1>1. Waiting(D) \in Nat /\ First(D) \in Nat
  BY DEF Waiting, First
<1>2. dequeuePos = Wrap(D) /\ enqueuePos = Wrap(E)
  BY DEF Tracks, Window
<1>3. Add(dequeuePos, 1) = Wrap(D + 1)
  BY <1>2, AddWrap
<1>4. FirstWaiting = Wrap(Waiting(D))
  BY <1>2, <1>3 DEF FirstWaiting, Waiting
<1>5. First(D) <= Waiting(D) /\ Waiting(D) <= E /\ E <= First(D) + Capacity
  BY DEF First, Waiting, Tracks, Window, Moving
<1>6. Capacity \in Nat /\ Width \in Nat /\ Capacity < Width
  BY WidthFacts
<1>7. E < Waiting(D) + Width
  BY <1>1, <1>5, <1>6
<1>8. Distance(Wrap(E), Wrap(Waiting(D))) = E - Waiting(D)
  BY <1>1, <1>5, <1>7, DistanceForward
<1> QED
  BY <1>1, <1>2, <1>4, <1>5, <1>8

\* ElementAt, as a function of the slots and of the producers' locals
ElementOf(pos, st, pr) ==
    LET unwritten == {p \in Producers : pr[p].pc = "write" /\ pr[p].pos = pos}
    IN IF unwritten = {} THEN st[Slot(pos)] ELSE pr[CHOOSE p \in unwritten : TRUE].item

LEMMA ElementIs ==
    /\ \A pos : ElementAt(pos) = ElementOf(pos, storage, producer)
    /\ \A pos : ElementAt(pos)' = ElementOf(pos, storage', producer')
  BY DEF ElementAt, ElementOf

\* An element is in the hands of the one producer that has not stored it, ...
LEMMA InHands ==
    ASSUME NEW pos, NEW st, NEW pr, NEW p \in Producers, pr[p].pc = "write", pr[p].pos = pos,
           \A q \in Producers : pr[q].pc = "write" /\ pr[q].pos = pos => q = p
    PROVE  ElementOf(pos, st, pr) = pr[p].item
<1> DEFINE U == {q \in Producers : pr[q].pc = "write" /\ pr[q].pos = pos}
<1>1. U = {p}
  OBVIOUS
<1>2. ElementOf(pos, st, pr) = IF U = {} THEN st[Slot(pos)] ELSE pr[CHOOSE q \in U : TRUE].item
  BY DEF ElementOf
<1> HIDE DEF U
<1> QED
  BY <1>1, <1>2

\* ... or else in its slot.
LEMMA InSlot ==
    ASSUME NEW pos, NEW st, NEW pr,
           \A q \in Producers : ~(pr[q].pc = "write" /\ pr[q].pos = pos)
    PROVE  ElementOf(pos, st, pr) = st[Slot(pos)]
<1> DEFINE U == {q \in Producers : pr[q].pc = "write" /\ pr[q].pos = pos}
<1>1. U = {}
  OBVIOUS
<1>2. ElementOf(pos, st, pr) = IF U = {} THEN st[Slot(pos)] ELSE pr[CHOOSE q \in U : TRUE].item
  BY DEF ElementOf
<1> HIDE DEF U
<1> QED
  BY <1>1, <1>2

\* It depends on nothing but its slot and the producers that hold it.
LEMMA ElementKept ==
    ASSUME NEW pos, NEW st, NEW pr, NEW ss, NEW rr, ss[Slot(pos)] = st[Slot(pos)],
           \A q \in Producers :
               (rr[q].pc = "write" /\ rr[q].pos = pos) <=> (pr[q].pc = "write" /\ pr[q].pos = pos),
           \A q \in Producers : pr[q].pc = "write" /\ pr[q].pos = pos => rr[q].item = pr[q].item
    PROVE  ElementOf(pos, ss, rr) = ElementOf(pos, st, pr)
<1> DEFINE U == {q \in Producers : pr[q].pc = "write" /\ pr[q].pos = pos}
           V == {q \in Producers : rr[q].pc = "write" /\ rr[q].pos = pos}
<1>1. U = V
  OBVIOUS
<1>2. /\ ElementOf(pos, st, pr) = IF U = {} THEN st[Slot(pos)] ELSE pr[CHOOSE q \in U : TRUE].item
      /\ ElementOf(pos, ss, rr) = IF V = {} THEN ss[Slot(pos)] ELSE rr[CHOOSE q \in V : TRUE].item
  BY DEF ElementOf
<1>3. CASE U = {}
  BY <1>1, <1>2, <1>3
<1>4. CASE U # {}
  <2>1. PICK r : r = CHOOSE q \in U : TRUE
    OBVIOUS
  <2>2. r \in U
    BY <1>4, <2>1
  <2>3. rr[r].item = pr[r].item
    BY <2>2
  <2> QED
    BY <1>1, <1>2, <1>4, <2>1, <2>3
<1> QED
  BY <1>3, <1>4

\* The counter of a claimed position tells it from the others of the ring.
LEMMA ClaimedCounter ==
    ASSUME NEW E \in Nat, NEW D \in Nat, NEW P \in [Producers -> Nat], Tracks(E, D, P),
           NEW x \in Nat, First(D) <= x, x <= E,
           NEW q \in Producers, producer[q].pc = "write"
    PROVE  producer[q].pos = Wrap(x) <=> P[q] = x
<1>1. PICK y \in Nat : y = P[q]
  OBVIOUS
<1>2. producer[q].pos = Wrap(y) /\ First(D) <= y /\ y < E
  BY <1>1 DEF Tracks, Claims, Claimed
<1>3. First(D) \in Nat /\ E <= First(D) + Capacity
  BY DEF Tracks, Window, First
<1>4. y < x + Width /\ x < y + Width
  BY <1>2, <1>3, WidthFacts
<1> QED
  BY <1>1, <1>2, <1>4, WrapInjective

\* Contents, position by position
LEMMA ContentsFacts ==
    ASSUME QueueInv, NEW E \in Nat, NEW D \in Nat, NEW P \in [Producers -> Nat],
           Tracks(E, D, P)
    PROVE  /\ E - Waiting(D) \in Nat
           /\ Contents = [i \in 1 .. E - Waiting(D) |-> ElementAt(Wrap(Waiting(D) + i - 1))]
<1>1. /\ Waiting(D) \in Nat /\ FirstWaiting = Wrap(Waiting(D)) /\ Waiting(D) <= E
      /\ Distance(enqueuePos, FirstWaiting) = E - Waiting(D)
  BY WaitingFacts
<1>2. PICK w \in Nat : w = Waiting(D)
  BY <1>1
<1>3. \A i \in 1 .. E - w : Add(FirstWaiting, i - 1) = Wrap(w + i - 1)
  <2> SUFFICES ASSUME NEW i \in 1 .. E - w PROVE Add(FirstWaiting, i - 1) = Wrap(w + i - 1)
    OBVIOUS
  <2>1. i - 1 \in Nat /\ w + (i - 1) = w + i - 1
    OBVIOUS
  <2>2. Add(Wrap(w), i - 1) = Wrap(w + (i - 1))
    BY <2>1, AddWrap
  <2> QED
    BY <1>1, <1>2, <2>1, <2>2
<1> QED
  BY <1>1, <1>2, <1>3 DEF Contents

----------------------------------------------------------------------------
(* The refinement, step by step.                                           *)

LEMMA ContentsIs ==
    /\ Contents = [i \in 1 .. Distance(enqueuePos, FirstWaiting) |->
                     ElementOf(Add(FirstWaiting, i - 1), storage, producer)]
    /\ Contents' = [i \in 1 .. Distance(enqueuePos', FirstWaiting') |->
                     ElementOf(Add(FirstWaiting', i - 1), storage', producer')]
  BY DEF Contents, ElementAt, ElementOf

\* A step that moves no element
LEMMA NothingMoves ==
    ASSUME UNCHANGED <<enqueuePos, storage, FirstWaiting>>,
           \A q \in Producers : producer'[q].pc = "write" <=> producer[q].pc = "write",
           \A q \in Producers : producer[q].pc = "write" => producer'[q] = producer[q]
    PROVE  Contents' = Contents
<1>1. \A pos : ElementOf(pos, storage', producer') = ElementOf(pos, storage, producer)
  <2> SUFFICES ASSUME NEW pos
               PROVE  ElementOf(pos, storage', producer') = ElementOf(pos, storage, producer)
    OBVIOUS
  <2> QED
    BY ElementKept
<1> QED
  BY <1>1, ContentsIs

LEMMA QuietProducer ==
    ASSUME TypeOK, NEW p \in Producers,
           \/ \E v \in Values : EnqueueCall(p, v)
           \/ EnqueueLoadSequence(p) \/ EnqueueRetry(p) \/ EnqueuePublish(p)
    PROVE  UNCHANGED <<Contents, out>>
<1>1. /\ UNCHANGED <<enqueuePos, dequeuePos, storage, consumer, out>>
      /\ producer[p].pc # "write" /\ producer'[p].pc # "write"
      /\ \A q \in Producers \ {p} : producer'[q] = producer[q]
  BY DEF EnqueueCall, EnqueueLoadSequence, EnqueueRetry, EnqueuePublish, IdleProducer, TypeOK
<1>2. FirstWaiting' = FirstWaiting
  BY <1>1 DEF FirstWaiting
<1>3. Contents' = Contents
  BY <1>1, <1>2, NothingMoves
<1> QED
  BY <1>1, <1>3

LEMMA QuietConsumer ==
    ASSUME \/ DequeueCall \/ DequeueLoadSequence \/ DequeueRelease \/ DequeueAdvance
           \/ ApproxSizeCall \/ ApproxSizeReturn \/ UNCHANGED vars
    PROVE  UNCHANGED <<Contents, out>>
<1>1. UNCHANGED <<enqueuePos, storage, producer, out>>
  BY DEF DequeueCall, DequeueLoadSequence, DequeueRelease, DequeueAdvance, ApproxSizeCall,
         ApproxSizeReturn, vars
<1>2. FirstWaiting' = FirstWaiting
  BY DEF DequeueCall, DequeueLoadSequence, DequeueRelease, DequeueAdvance, ApproxSizeCall,
         ApproxSizeReturn, vars, FirstWaiting
<1>3. Contents' = Contents
  BY <1>1, <1>2, NothingMoves
<1> QED
  BY <1>1, <1>3

\* The element goes from the producer's hands into its slot.
LEMMA WriteMovesNothing ==
    ASSUME QueueInv, NEW p \in Producers, EnqueueWrite(p)
    PROVE  UNCHANGED <<Contents, out>>
<1>1. PICK E \in Nat, D \in Nat, P \in [Producers -> Nat] : Tracks(E, D, P)
  BY DEF QueueInv
<1>2. PICK x \in Nat : x = P[p]
  BY <1>1
<1>3. /\ producer[p].pc = "write" /\ producer'[p].pc = "publish"
      /\ \A q \in Producers \ {p} : producer'[q] = producer[q]
      /\ storage' = [storage EXCEPT ![Slot(producer[p].pos)] = producer[p].item]
      /\ UNCHANGED <<enqueuePos, dequeuePos, consumer, out>>
      /\ FirstWaiting' = FirstWaiting
  BY DEF EnqueueWrite, QueueInv, TypeOK, FirstWaiting
<1>4. producer[p].pos = Wrap(x) /\ First(D) <= x /\ x < E /\ Slot(x) \in Slots
  BY <1>1, <1>2, <1>3, SlotInRing DEF Tracks, Claims, Claimed
<1>5. storage' = [storage EXCEPT ![Slot(x)] = producer[p].item] /\ storage \in [Slots -> Elements]
  BY <1>3, <1>4, SlotWrap DEF QueueInv, TypeOK
<1>6. /\ Waiting(D) \in Nat /\ First(D) \in Nat /\ FirstWaiting = Wrap(Waiting(D))
      /\ First(D) <= Waiting(D) /\ Waiting(D) <= E /\ E <= First(D) + Capacity
      /\ Distance(enqueuePos, FirstWaiting) = E - Waiting(D) /\ Capacity \in Nat
  BY <1>1, WaitingFacts, WidthFacts
<1>7. ASSUME NEW y \in Nat, Waiting(D) <= y, y < E
      PROVE  ElementOf(Wrap(y), storage', producer') = ElementOf(Wrap(y), storage, producer)
  <2>1. \A q \in Producers : producer[q].pc = "write" => (producer[q].pos = Wrap(y) <=> P[q] = y)
    <3>1. First(D) <= y /\ y <= E
      BY <1>6, <1>7
    <3> QED
      BY <1>1, <3>1, ClaimedCounter
  <2>2. CASE y = x
    <3>1. \A q \in Producers : producer[q].pc = "write" /\ P[q] = x => q = p
      BY <1>1, <1>2, <1>3 DEF Tracks, Claims, Claimed
    <3>2. ElementOf(Wrap(x), storage, producer) = producer[p].item
      BY <1>3, <1>4, <2>1, <2>2, <3>1, InHands
    <3>3. \A q \in Producers : ~(producer'[q].pc = "write" /\ producer'[q].pos = Wrap(x))
      BY <1>3, <2>1, <2>2, <3>1
    <3>4. ElementOf(Wrap(x), storage', producer') = storage'[Slot(Wrap(x))]
      BY <3>3, InSlot
    <3>5. storage'[Slot(Wrap(x))] = producer[p].item
      BY <1>4, <1>5, SlotWrap
    <3> QED
      BY <2>2, <3>2, <3>4, <3>5
  <2>3. CASE y # x
    <3>1. Slot(y) # Slot(x) /\ Slot(y) \in Slots
      BY <1>4, <1>6, <1>7, <2>3, OneSlotEach, SlotInRing
    <3>2. storage'[Slot(Wrap(y))] = storage[Slot(Wrap(y))]
      BY <1>5, <3>1, SlotWrap
    <3>3. ~(producer[p].pos = Wrap(y))
      BY <1>2, <1>3, <2>1, <2>3
    <3>4. \A q \in Producers :
             (producer'[q].pc = "write" /\ producer'[q].pos = Wrap(y))
               <=> (producer[q].pc = "write" /\ producer[q].pos = Wrap(y))
      BY <1>3, <3>3
    <3>5. \A q \in Producers : producer[q].pc = "write" /\ producer[q].pos = Wrap(y)
             => producer'[q].item = producer[q].item
      BY <1>3, <3>3
    <3> QED
      BY <3>2, <3>4, <3>5, ElementKept
  <2> QED
    BY <2>2, <2>3
<1>8. ASSUME NEW i \in 1 .. Distance(enqueuePos, FirstWaiting)
      PROVE  ElementOf(Add(FirstWaiting, i - 1), storage', producer')
               = ElementOf(Add(FirstWaiting, i - 1), storage, producer)
  <2>1. i - 1 \in Nat /\ Waiting(D) + (i - 1) \in Nat /\ Waiting(D) + (i - 1) < E
        /\ Waiting(D) <= Waiting(D) + (i - 1)
    BY <1>6
  <2>2. Add(FirstWaiting, i - 1) = Wrap(Waiting(D) + (i - 1))
    BY <1>6, <2>1, AddWrap
  <2> QED
    BY <1>7, <2>1, <2>2
<1>9. Contents' = Contents
  BY <1>3, <1>8, ContentsIs
<1> QED
  BY <1>3, <1>9

\* A claim appends the element that the producer carries.
LEMMA ClaimPuts ==
    ASSUME QueueInv, NEW p \in Producers, EnqueueClaim(p)
    PROVE  /\ Len(Contents) < Capacity
           /\ producer[p].item \in Values
           /\ Contents' = Append(Contents, producer[p].item)
           /\ out' = out
<1>1. PICK E \in Nat, D \in Nat, P \in [Producers -> Nat] : Tracks(E, D, P)
  BY DEF QueueInv
<1>2. P[p] = E /\ E < First(D) + Capacity
  BY <1>1, ClaimPosition
<1>3. /\ producer[p].pc = "cas" /\ producer'[p].pc = "write"
      /\ producer'[p].item = producer[p].item /\ producer'[p].pos = producer[p].pos
      /\ \A q \in Producers \ {p} : producer'[q] = producer[q]
      /\ UNCHANGED <<dequeuePos, storage, consumer, out>>
      /\ FirstWaiting' = FirstWaiting
      /\ enqueuePos' = Add(enqueuePos, 1)
  BY DEF EnqueueClaim, QueueInv, TypeOK, FirstWaiting
<1>4. producer[p].pos = Wrap(E) /\ enqueuePos' = Wrap(E + 1)
  BY <1>1, <1>2, <1>3, AddWrap DEF Tracks, Window, Behind, Looking
<1>5. PICK w \in Nat : w = Waiting(D)
  BY DEF Waiting
<1>6. /\ FirstWaiting = Wrap(w) /\ First(D) <= w /\ w <= E /\ First(D) \in Nat
      /\ Distance(enqueuePos, FirstWaiting) = E - w
  BY <1>1, <1>5, WaitingFacts
<1>7. PICK n \in Nat : n = E - w
  BY <1>6
<1>8. n < Capacity /\ Capacity \in Nat /\ Width \in Nat /\ Capacity + 2 <= Width
  BY <1>2, <1>6, <1>7, WidthFacts
<1>9. Distance(enqueuePos', FirstWaiting') = n + 1
  <2>1. E + 1 \in Nat /\ w <= E + 1 /\ E + 1 < w + Width /\ (E + 1) - w = n + 1
    BY <1>6, <1>7, <1>8
  <2> QED
    BY <1>3, <1>4, <1>6, <2>1, DistanceForward
<1>10. \A i \in 1 .. n + 1 : Add(FirstWaiting, i - 1) = Wrap(w + (i - 1))
  BY <1>6, AddWrap
<1>11. Contents = [i \in 1 .. n |-> ElementOf(Wrap(w + (i - 1)), storage, producer)]
  BY <1>6, <1>7, <1>10, ContentsIs
<1>12. Contents' = [i \in 1 .. n + 1 |-> ElementOf(Wrap(w + (i - 1)), storage', producer')]
  BY <1>3, <1>9, <1>10, ContentsIs
<1>13. \A q \in Producers : producer[q].pc = "write" => producer[q].pos # Wrap(E)
  <2>1. ASSUME NEW q \in Producers, producer[q].pc = "write" PROVE P[q] # E
    BY <1>1, <2>1 DEF Tracks, Claims, Claimed
  <2>2. First(D) <= E
    BY <1>6
  <2> QED
    BY <1>1, <2>1, <2>2, ClaimedCounter
<1>14. ElementOf(Wrap(w + ((n + 1) - 1)), storage', producer') = producer[p].item
  <2>1. w + ((n + 1) - 1) = E
    BY <1>6, <1>7
  <2>2. \A q \in Producers : producer'[q].pc = "write" /\ producer'[q].pos = Wrap(E) => q = p
    BY <1>3, <1>13
  <2> QED
    BY <1>3, <1>4, <2>1, <2>2, InHands
<1>15. ASSUME NEW i \in 1 .. n
       PROVE  ElementOf(Wrap(w + (i - 1)), storage', producer')
                = ElementOf(Wrap(w + (i - 1)), storage, producer)
  <2>1. PICK y \in Nat : y = w + (i - 1)
    OBVIOUS
  <2>2. y < E /\ E < y + Width
    BY <1>6, <1>7, <1>8, <2>1
  <2>3. Wrap(y) # Wrap(E)
    <3>1. y < E + Width
      BY <1>8, <2>2
    <3> QED
      BY <2>2, <3>1, WrapInjective
  <2>4. \A q \in Producers :
           (producer'[q].pc = "write" /\ producer'[q].pos = Wrap(y))
             <=> (producer[q].pc = "write" /\ producer[q].pos = Wrap(y))
    BY <1>3, <1>4, <2>3
  <2>5. \A q \in Producers : producer[q].pc = "write" /\ producer[q].pos = Wrap(y)
           => producer'[q].item = producer[q].item
    BY <1>3
  <2>6. storage'[Slot(Wrap(y))] = storage[Slot(Wrap(y))]
    BY <1>3
  <2> QED
    BY <2>1, <2>4, <2>5, <2>6, ElementKept
<1>16. Contents' = Append(Contents, producer[p].item) /\ Len(Contents) = n
  <2> DEFINE c(i) == ElementOf(Wrap(w + (i - 1)), storage, producer)
             d(i) == ElementOf(Wrap(w + (i - 1)), storage', producer')
  <2>1. Contents = [i \in 1 .. n |-> c(i)] /\ Contents' = [i \in 1 .. n + 1 |-> d(i)]
    BY <1>11, <1>12
  <2>2. d(n + 1) = producer[p].item /\ \A i \in 1 .. n : d(i) = c(i)
    BY <1>14, <1>15
  <2> HIDE DEF c, d
  <2>3. Contents \in Seq({c(i) : i \in 1 .. n}) /\ Len(Contents) = n
    BY <2>1
  <2>4. Append(Contents, producer[p].item)
          = [i \in 1 .. n + 1 |-> IF i = n + 1 THEN producer[p].item ELSE Contents[i]]
    BY <2>3
  <2>5. \A i \in 1 .. n + 1 : d(i) = IF i = n + 1 THEN producer[p].item ELSE Contents[i]
    BY <2>1, <2>2
  <2> QED
    BY <2>1, <2>3, <2>4, <2>5
<1>17. producer[p].item \in Values
  BY <1>3 DEF QueueInv, TypeOK, Carrying, Looking
<1> QED
  BY <1>3, <1>8, <1>16, <1>17

LEMMA TailShifts ==
    ASSUME NEW S, NEW s \in Seq(S), s # << >>
    PROVE  Tail(s) = [i \in 1 .. Len(s) - 1 |-> s[i + 1]]
<1>1. /\ Tail(s) \in Seq(S) /\ Len(s) \in Nat /\ Len(Tail(s)) = Len(s) - 1
      /\ \A i \in 1 .. Len(s) - 1 : Tail(s)[i] = s[i + 1]
  OBVIOUS
<1>2. PICK t \in Seq(S) : t = Tail(s)
  BY <1>1
<1>3. t \in [1 .. Len(t) -> S]
  OBVIOUS
<1>4. t = [i \in 1 .. Len(s) - 1 |-> s[i + 1]]
  BY <1>1, <1>2, <1>3
<1> QED
  BY <1>2, <1>4

\* Moving an element out takes the oldest one away and hands it to the consumer.
LEMMA ReadGets ==
    ASSUME QueueInv, DequeueRead
    PROVE  Contents # << >> /\ out' = Head(Contents) /\ Contents' = Tail(Contents)
<1>1. PICK E \in Nat, D \in Nat, P \in [Producers -> Nat] : Tracks(E, D, P)
  BY DEF QueueInv
<1>2. /\ consumer = "read" /\ consumer' = "release"
      /\ out' = storage[Slot(dequeuePos)]
      /\ storage' = [storage EXCEPT ![Slot(dequeuePos)] = Empty]
      /\ UNCHANGED <<enqueuePos, dequeuePos, producer>>
  BY DEF DequeueRead
<1>3. dequeuePos = Wrap(D) /\ enqueuePos = Wrap(E) /\ D < E /\ ~Unpublished(P, D)
  BY <1>1, <1>2 DEF Tracks, Window, Moving
<1>4. First(D) = D /\ E <= D + Capacity
  BY <1>1, <1>2 DEF First, Tracks, Window
<1>5. FirstWaiting = Wrap(D) /\ FirstWaiting' = Wrap(D + 1)
  BY <1>2, <1>3, AddWrap DEF FirstWaiting
<1>6. Capacity \in Nat /\ Width \in Nat /\ Capacity < Width
  BY WidthFacts
<1>7. PICK n \in Nat : E = D + n + 1
  <2>1. E - D - 1 \in Nat /\ E = D + (E - D - 1) + 1
    BY <1>3
  <2> QED
    BY <2>1
<1>8. Distance(enqueuePos, FirstWaiting) = n + 1 /\ Distance(enqueuePos', FirstWaiting') = n
  <2>1. D <= E /\ E < D + Width /\ E - D = n + 1
    BY <1>3, <1>4, <1>6, <1>7
  <2>2. D + 1 \in Nat /\ D + 1 <= E /\ E < (D + 1) + Width /\ E - (D + 1) = n
    BY <1>3, <1>4, <1>6, <1>7
  <2> QED
    BY <1>2, <1>3, <1>5, <2>1, <2>2, DistanceForward
<1> DEFINE c(i) == ElementOf(Wrap(D + (i - 1)), storage, producer)
           d(i) == ElementOf(Wrap(D + i), storage', producer')
<1>9. Contents = [i \in 1 .. n + 1 |-> c(i)]
  <2>1. \A i \in 1 .. n + 1 : Add(FirstWaiting, i - 1) = Wrap(D + (i - 1))
    BY <1>5, AddWrap
  <2> QED
    BY <1>8, <2>1, ContentsIs
<1>10. Contents' = [i \in 1 .. n |-> d(i)]
  <2>1. ASSUME NEW i \in 1 .. n PROVE Add(FirstWaiting', i - 1) = Wrap(D + i)
    <3>1. i - 1 \in Nat /\ D + 1 \in Nat /\ (D + 1) + (i - 1) = D + i
      OBVIOUS
    <3> QED
      BY <1>5, <3>1, AddWrap
  <2> QED
    BY <1>8, <2>1, ContentsIs
<1>11. c(1) = storage[Slot(dequeuePos)]
  <2>1. D + (1 - 1) = D
    OBVIOUS
  <2>2. \A q \in Producers : ~(producer[q].pc = "write" /\ producer[q].pos = Wrap(D))
    BY <1>1, <1>3, <1>4, ClaimedCounter DEF Unpublished, Claimed
  <2> QED
    BY <1>3, <2>1, <2>2, InSlot
<1>12. ASSUME NEW i \in 1 .. n PROVE d(i) = c(i + 1)
  <2>1. PICK y \in Nat : y = D + i
    OBVIOUS
  <2>2. D + ((i + 1) - 1) = y /\ D < y /\ y < D + Capacity
    BY <1>4, <1>6, <1>7, <2>1
  <2>3. Slot(y) # Slot(D) /\ Slot(y) \in Slots /\ Slot(D) \in Slots
    BY <2>2, SlotsApart, SlotInRing
  <2>4. storage'[Slot(Wrap(y))] = storage[Slot(Wrap(y))]
    BY <1>2, <1>3, <2>3, SlotWrap DEF QueueInv, TypeOK
  <2>5. ElementOf(Wrap(y), storage', producer') = ElementOf(Wrap(y), storage, producer)
    <3>1. \A q \in Producers :
             (producer'[q].pc = "write" /\ producer'[q].pos = Wrap(y))
               <=> (producer[q].pc = "write" /\ producer[q].pos = Wrap(y))
      BY <1>2
    <3>2. \A q \in Producers : producer[q].pc = "write" /\ producer[q].pos = Wrap(y)
             => producer'[q].item = producer[q].item
      BY <1>2
    <3> QED
      BY <2>4, <3>1, <3>2, ElementKept
  <2> QED
    BY <2>1, <2>2, <2>5
<1> HIDE DEF c, d
<1>13. Contents \in Seq({c(i) : i \in 1 .. n + 1}) /\ Len(Contents) = n + 1
  BY <1>9
<1>14. Contents # << >> /\ Head(Contents) = c(1)
  BY <1>9, <1>13
<1>15. Tail(Contents) = [i \in 1 .. n |-> Contents[i + 1]]
  <2>1. Tail(Contents) = [i \in 1 .. Len(Contents) - 1 |-> Contents[i + 1]]
    BY <1>13, <1>14, TailShifts
  <2>2. Len(Contents) - 1 = n
    BY <1>13
  <2> QED
    BY <2>1, <2>2
<1>16. \A i \in 1 .. n : Contents[i + 1] = c(i + 1)
  BY <1>9
<1> QED
  BY <1>2, <1>10, <1>11, <1>12, <1>14, <1>15, <1>16

LEMMA QueueStep ==
    ASSUME QueueInv, [Next]_vars PROVE [Fifo!Next]_<<Contents, out>>
<1>1. TypeOK
  BY DEF QueueInv
<1>2. ASSUME NEW p \in Producers, (\E v \in Values : EnqueueCall(p, v)) \/ EnqueueStep(p)
      PROVE  [Fifo!Next]_<<Contents, out>>
  <2>1. CASE EnqueueClaim(p)
    BY <2>1, ClaimPuts DEF Fifo!Next, Fifo!Put
  <2>2. CASE EnqueueWrite(p)
    BY <2>2, WriteMovesNothing
  <2>3. CASE ~EnqueueClaim(p) /\ ~EnqueueWrite(p)
    BY <1>1, <1>2, <2>3, QuietProducer DEF EnqueueStep
  <2> QED
    BY <2>1, <2>2, <2>3
<1>3. CASE DequeueRead
  BY <1>3, ReadGets DEF Fifo!Next, Fifo!Get
<1>4. CASE \/ DequeueCall \/ DequeueLoadSequence \/ DequeueRelease \/ DequeueAdvance
           \/ ApproxSizeCall \/ ApproxSizeReturn \/ UNCHANGED vars
  BY <1>4, QuietConsumer
<1> QED
  BY <1>2, <1>3, <1>4 DEF Next, DequeueStep

LEMMA QueueStart == Init => Fifo!Init
<1> SUFFICES ASSUME Init PROVE Contents = << >>
  BY DEF Fifo!Init
<1>1. enqueuePos = 0 /\ FirstWaiting = 0
  BY DEF Init, FirstWaiting
<1>2. Distance(0, 0) = 0
  BY WidthFacts DEF Distance
<1> QED
  BY <1>1, <1>2 DEF Contents

(* The queue implements the bounded FIFO: no element is lost, duplicated,  *)
(* reordered or overwritten, whatever the interleaving of producers and    *)
(* consumer and however often the counters wrap.                           *)
THEOREM QueueImplementsBoundedQueue == Spec => ImplementsQueue
<1>1. QueueInv /\ [Next]_vars => [Fifo!Next]_<<Contents, out>>
  BY QueueStep
<1>2. Init => Fifo!Init
  BY QueueStart
<1> QED
  BY <1>1, <1>2, CountersTrackPositions, PTL DEF Spec, ImplementsQueue, Fifo!Spec

----------------------------------------------------------------------------
(* Refusals.                                                               *)

LEMMA RefusalMeansFull ==
    ASSUME QueueInv, [Next]_vars, NEW p \in Producers,
           producer[p].pc = "loadSequence", producer'[p].pc = "idle"
    PROVE  Len(Contents) + (IF consumer = "release" THEN 1 ELSE 0) = Capacity
<1>1. PICK E \in Nat, D \in Nat, P \in [Producers -> Nat] : Tracks(E, D, P)
  BY DEF QueueInv
<1>2. EnqueueLoadSequence(p)
  BY DEF Next, EnqueueCall, EnqueueStep, EnqueueClaim, EnqueueRetry, EnqueueWrite,
         EnqueuePublish, EnqueueLoadSequence, DequeueCall, DequeueStep, DequeueLoadSequence,
         DequeueRead, DequeueRelease, DequeueAdvance, ApproxSizeCall, ApproxSizeReturn, vars,
         QueueInv, TypeOK
<1>3. Diff(sequence[Slot(producer[p].pos)], producer[p].pos) < 0
  BY <1>2 DEF EnqueueLoadSequence, QueueInv, TypeOK
<1>4. E = First(D) + Capacity
  BY <1>1, <1>3, TestMeaning
<1>5. /\ Waiting(D) \in Nat /\ First(D) \in Nat /\ Capacity \in Nat /\ Waiting(D) <= E
      /\ Distance(enqueuePos, FirstWaiting) = E - Waiting(D)
  BY <1>1, WaitingFacts, WidthFacts
<1>6. Waiting(D) = First(D) + (IF consumer = "release" THEN 1 ELSE 0)
  BY DEF Waiting, First
<1>7. Len(Contents) = E - Waiting(D)
  <2>1. PICK n \in Nat : n = E - Waiting(D)
    BY <1>5
  <2>2. Contents = [i \in 1 .. n |-> ElementAt(Add(FirstWaiting, i - 1))]
    BY <1>5, <2>1 DEF Contents
  <2> QED
    BY <2>1, <2>2
<1> QED
  BY <1>4, <1>5, <1>6, <1>7

(* Enqueue returns false only when every slot is taken.                    *)
THEOREM RefusalsAreJustified == Spec => RefusesOnlyWhenFull
<1>1. QueueInv /\ [Next]_vars =>
        [\A p \in Producers :
            producer[p].pc = "loadSequence" /\ producer'[p].pc = "idle"
              => Len(Contents) + (IF consumer = "release" THEN 1 ELSE 0) = Capacity]_vars
  BY RefusalMeansFull
<1> QED
  BY <1>1, CountersTrackPositions, PTL DEF Spec, RefusesOnlyWhenFull
============================================================================
