----------------------- MODULE RuntimePipelineProofs -----------------------
(***************************************************************************)
(* RuntimePipelineExecutor over JobDispatch, for every number of workers,  *)
(* phases and tasks: the barrier, the counter behind it, the room in the   *)
(* ready queue, and the refinement of PhaseSchedule.                       *)
(*                                                                         *)
(* The theorems are about graphs in which every edge leaves its phase.     *)
(* With an edge inside a phase the dispatcher does not keep these promises *)
(* (runs v_barrier_complete and v_dependency_order).                              *)
(***************************************************************************)
EXTENDS RuntimePipelineExecutor, FiniteSetTheorems, WellFoundedInduction, TLAPS

Crossing == \A t \in Tasks : \A c \in ChildSet(t) : PhaseOf[t] < PhaseOf[c]

Elements(s) == {s[k] : k \in 1 .. Len(s)}
Distinct(s) == \A j, k \in 1 .. Len(s) : s[j] = s[k] => j = k

BusyPcs == {"seed", "seedEnqueue", "seedAdd",
            "waitActive", "waitEpoch", "waitRecheck", "waitBlock", "asleep"}

\* The main thread is between the first look at a node and the barrier.
Busy == main.pc \in BusyPcs

\* A task that was enqueued and is not yet counted
Lag == IF main.pc = "seedAdd" THEN 1 ELSE 0

\* The nodes the main thread has still to look at
ToSeed == IF main.pc = "seedAdd" THEN Tail(main.todo) ELSE main.todo

Holders == {w \in Workers : worker[w].pc \in {"execute", "release", "child"}}

WorkerRecord ==
    [pc : {"exited", "loop", "dequeue", "execute", "release", "child", "bump", "notify"},
     task : Tasks \cup {NoTask}, phase : Phases, todo : Seq(Tasks)]

\* No worker is ever at "enqueue" or "add": a child is never of its parent's phase.
TypeOK ==
    /\ running \in BOOLEAN
    /\ currentPhase \in Phases
    /\ remaining \in [Tasks -> Nat]
    /\ readyQueue \in Seq(Tasks)
    /\ active \in 0 .. Modulus - 1
    /\ main \in [pc : BusyPcs \cup {"idle", "build", "join"}, todo : Seq(Tasks), epoch : Nat]
    /\ epoch \in Nat
    /\ worker \in [Workers -> WorkerRecord]
    /\ executed \in [Tasks -> Nat]
    /\ nextPhase \in 0 .. PhaseCount

\* Outside Seed and the barrier nothing is queued, held or counted.
Quiet == ~Busy => readyQueue = << >> /\ Holders = {} /\ active = 0

\* The counter is exact up to the add that lags behind its Enqueue; it may be
\* below zero by one, as an unsigned number.
Balance ==
    LET total == Len(readyQueue) + Cardinality(Holders)
    IN active + Lag = total \/ active + Lag = total + Modulus

\* Every task in the queue or in a worker was one of the nodes to look at.
Room ==
    Busy => Len(readyQueue) + Cardinality(Holders) + Len(ToSeed) <= Len(PhaseOf)

WaitPcs == {"waitActive", "waitEpoch", "waitRecheck", "waitBlock", "asleep"}

\* Enqueue and count are for a node at hand; at the barrier there is none left.
Seeding ==
    /\ main.pc \in {"seedEnqueue", "seedAdd"} => main.todo # << >>
    /\ main.pc \in WaitPcs => main.todo = << >>

\* What a worker with record r holds is of the current phase.
HeldBy(r, ph, ex) ==
    /\ r.task \in Tasks /\ PhaseOf[r.task] = ph
    /\ r.pc = "execute" => ex[r.task] = 0
    /\ r.pc # "execute" => ex[r.task] = 1
    /\ r.pc = "child" => /\ r.phase = ph
                         /\ Elements(r.todo) \subseteq ChildSet(r.task)
                         /\ Distinct(r.todo)

Held == \A w \in Holders : HeldBy(worker[w], currentPhase, executed)

Apart == \A v, w \in Holders : worker[v].task = worker[w].task => v = w

\* What is in the queue is of the current phase, once, and nowhere else.
Queued ==
    /\ Distinct(readyQueue)
    /\ \A t \in Elements(readyQueue) :
          /\ PhaseOf[t] = currentPhase /\ executed[t] = 0
          /\ \A w \in Holders : worker[w].task # t

\* So is what will be looked at.
Unseeded ==
    Busy => /\ Distinct(ToSeed)
            /\ \A t \in Elements(ToSeed) :
                  /\ PhaseOf[t] = currentPhase /\ executed[t] = 0
                  /\ t \notin Elements(readyQueue)
                  /\ \A w \in Holders : worker[w].task # t

\* Earlier phases have run, later ones have not, and no task of this one is lost.
Ran ==
    Busy => \A t \in Tasks :
        /\ PhaseOf[t] < currentPhase => executed[t] = 1
        /\ PhaseOf[t] > currentPhase => executed[t] = 0
        /\ PhaseOf[t] = currentPhase =>
              \/ t \in Elements(ToSeed) \cup Elements(readyQueue)
              \/ \E w \in Holders : worker[w].pc = "execute" /\ worker[w].task = t
              \/ executed[t] = 1

\* The worker with record r has still to count t down.
Owes(r, t) == r.pc = "release" \/ (r.pc = "child" /\ t \in Elements(r.todo))

\* The parents that have not yet counted t down
Pending(t) ==
    {p \in Parents(t) : \/ executed[p] = 0
                        \/ \E w \in Holders : worker[w].task = p /\ Owes(worker[w], t)}

CountedDown == \A t \in Tasks : remaining[t] = Cardinality(Pending(t))

\* Between ticks
Rest ==
    (\A t \in Tasks : executed[t] = 0) \/ (\A t \in Tasks : executed[t] = 1)

Between ==
    /\ Busy => /\ state = "Running" /\ running
               /\ nextPhase = currentPhase + 1 /\ CountedDown
    /\ main.pc = "build" =>
          /\ state = "Running" /\ running
          /\ currentPhase = InputPhase /\ nextPhase = 1
          /\ \A t \in Tasks : executed[t] = 0
          /\ \A t \in Tasks : t \in Elements(main.todo) \/ remaining[t] = ParentCount(t)
    /\ main.pc = "join" => ~running /\ state \notin {"Running", "Stopped"} /\ Rest
    /\ main.pc = "idle" =>
          \/ /\ state = "Running" /\ running
             /\ nextPhase = currentPhase + 1 /\ CountedDown
             /\ \A t \in Tasks : executed[t] = IF PhaseOf[t] <= currentPhase THEN 1 ELSE 0
          \/ (state = "Running" => nextPhase = 0) /\ Rest
    /\ running => Tasks \subseteq registry
    /\ main.pc = "idle" /\ ~running => \A w \in Workers : worker[w].pc = "exited"

PipelineInv ==
    /\ TypeOK /\ Quiet /\ Balance /\ Room /\ Seeding
    /\ Held /\ Apart /\ Queued /\ Unseeded /\ Ran
    /\ Between

----------------------------------------------------------------------------
(* Sequences of tasks, and the counters.                                   *)

\* A set of naturals that is not empty has a least member.
LEMMA LeastNatural ==
    ASSUME NEW T \in SUBSET Nat, T # {}
    PROVE  \E x \in T : \A y \in T : x <= y
<1> DEFINE R == OpToRel(<, Nat)
<1>1. IsWellFoundedOn(R, Nat)
  BY NatLessThanWellFounded
<1>2. \A x, y \in Nat : x < y => <<x, y>> \in R
  BY DEF OpToRel
<1> HIDE DEF R
<1>3. PICK x \in T : \A y \in T : ~(<<y, x>> \in R)
  BY <1>1, WFMin
<1>4. ASSUME NEW y \in T PROVE x <= y
  <2>1. x \in Nat /\ y \in Nat
    OBVIOUS
  <2>2. ~(y < x)
    BY <1>2, <1>3, <2>1, Zenon
  <2> QED
    BY <2>1, <2>2
<1> QED
  BY <1>4

LEMMA IntervalSize ==
    \A a, b \in Nat : IsFiniteSet(a + 1 .. b)
                      /\ Cardinality(a + 1 .. b) = IF a > b THEN 0 ELSE b - a
<1> SUFFICES ASSUME NEW a \in Nat, NEW b \in Nat
             PROVE  IsFiniteSet(a + 1 .. b)
                    /\ Cardinality(a + 1 .. b) = IF a > b THEN 0 ELSE b - a
  OBVIOUS
<1>1. a + 1 \in Int /\ b \in Int
  OBVIOUS
<1>2. IsFiniteSet(a + 1 .. b)
      /\ Cardinality(a + 1 .. b) = IF a + 1 > b THEN 0 ELSE b - (a + 1) + 1
  BY <1>1, FS_Interval
<1> QED
  BY <1>2

LEMMA SizeFacts ==
    /\ Len(PhaseOf) \in Nat /\ Tasks \subseteq Nat
    /\ IsFiniteSet(Tasks) /\ Cardinality(Tasks) = Len(PhaseOf)
    /\ Modulus \in Nat /\ QueueCapacity \in Nat
    /\ Len(PhaseOf) < Modulus /\ Len(PhaseOf) <= QueueCapacity
    /\ \A t \in Tasks : PhaseOf[t] \in Phases
    /\ PhaseCount \in Nat /\ InputPhase \in Phases
<1>1. Len(PhaseOf) \in Nat /\ \A t \in Tasks : PhaseOf[t] \in Phases
  BY GraphAssumption DEF Tasks
<1>2. IsFiniteSet(1 .. Len(PhaseOf)) /\ Cardinality(1 .. Len(PhaseOf)) = Len(PhaseOf)
  BY <1>1, IntervalSize
<1>3. PhaseCount \in Nat /\ InputPhase \in Phases
  BY GraphAssumption DEF Phases, InputPhase
<1> QED
  BY <1>1, <1>2, <1>3, DispatchAssumption DEF Tasks

LEMMA TailFacts ==
    \A s \in Seq(Tasks) : s # << >> =>
        /\ Head(s) \in Tasks /\ Tail(s) \in Seq(Tasks) /\ Len(Tail(s)) = Len(s) - 1
        /\ Len(s) \in Nat /\ Len(s) > 0
        /\ Elements(s) = {Head(s)} \cup Elements(Tail(s))
        /\ Distinct(s) => Distinct(Tail(s)) /\ Head(s) \notin Elements(Tail(s))
<1> SUFFICES ASSUME NEW s \in Seq(Tasks), s # << >>
             PROVE  /\ Head(s) \in Tasks /\ Tail(s) \in Seq(Tasks) /\ Len(Tail(s)) = Len(s) - 1
                    /\ Len(s) \in Nat /\ Len(s) > 0
                    /\ Elements(s) = {Head(s)} \cup Elements(Tail(s))
                    /\ Distinct(s) => Distinct(Tail(s)) /\ Head(s) \notin Elements(Tail(s))
  OBVIOUS
<1>1. /\ Head(s) \in Tasks /\ Tail(s) \in Seq(Tasks) /\ Len(Tail(s)) = Len(s) - 1
      /\ Len(s) \in Nat /\ Len(s) > 0 /\ Head(s) = s[1]
      /\ \A k \in 1 .. Len(s) - 1 : Tail(s)[k] = s[k + 1]
  OBVIOUS
<1>2. Elements(s) = {Head(s)} \cup Elements(Tail(s))
  <2>1. ASSUME NEW k \in 1 .. Len(s) PROVE s[k] = s[1] \/ \E j \in 1 .. Len(s) - 1 : s[k] = Tail(s)[j]
    <3>1. k = 1 \/ (k - 1 \in 1 .. Len(s) - 1 /\ (k - 1) + 1 = k)
      BY <1>1
    <3> QED
      BY <1>1, <3>1
  <2>2. \A j \in 1 .. Len(s) - 1 : \E k \in 1 .. Len(s) : Tail(s)[j] = s[k]
    BY <1>1
  <2>3. 1 \in 1 .. Len(s)
    BY <1>1
  <2> QED
    BY <1>1, <2>1, <2>2, <2>3 DEF Elements
<1>3. ASSUME Distinct(s) PROVE Distinct(Tail(s)) /\ Head(s) \notin Elements(Tail(s))
  <2>1. Distinct(Tail(s))
    BY <1>1, <1>3 DEF Distinct
  <2>2. \A j \in 1 .. Len(s) - 1 : Tail(s)[j] # s[1]
    BY <1>1, <1>3 DEF Distinct
  <2> QED
    BY <1>1, <2>1, <2>2 DEF Elements
<1> QED
  BY <1>1, <1>2, <1>3

LEMMA AppendFacts ==
    \A s \in Seq(Tasks) : \A t \in Tasks :
        /\ Append(s, t) \in Seq(Tasks) /\ Len(Append(s, t)) = Len(s) + 1 /\ Len(s) \in Nat
        /\ Elements(Append(s, t)) = Elements(s) \cup {t}
        /\ Distinct(s) /\ t \notin Elements(s) => Distinct(Append(s, t))
<1> SUFFICES ASSUME NEW s \in Seq(Tasks), NEW t \in Tasks
             PROVE  /\ Append(s, t) \in Seq(Tasks) /\ Len(Append(s, t)) = Len(s) + 1
                    /\ Len(s) \in Nat
                    /\ Elements(Append(s, t)) = Elements(s) \cup {t}
                    /\ Distinct(s) /\ t \notin Elements(s) => Distinct(Append(s, t))
  OBVIOUS
<1>1. /\ Append(s, t) \in Seq(Tasks) /\ Len(Append(s, t)) = Len(s) + 1 /\ Len(s) \in Nat
      /\ \A k \in 1 .. Len(s) : Append(s, t)[k] = s[k]
      /\ Append(s, t)[Len(s) + 1] = t
  OBVIOUS
<1>2. Elements(Append(s, t)) = Elements(s) \cup {t}
  BY <1>1 DEF Elements
<1>3. ASSUME Distinct(s), t \notin Elements(s) PROVE Distinct(Append(s, t))
  BY <1>1, <1>3 DEF Distinct, Elements
<1> QED
  BY <1>1, <1>2, <1>3

LEMMA EmptyFacts == Elements(<< >>) = {} /\ Distinct(<< >>) /\ << >> \in Seq(Tasks) /\ Len(<< >>) = 0
BY DEF Elements, Distinct

\* The unsigned counters
LEMMA IncFacts ==
    \A n \in 0 .. Modulus - 1 :
        Inc(n) \in 0 .. Modulus - 1 /\ (Inc(n) = n + 1 \/ (Inc(n) = n + 1 - Modulus))
BY SizeFacts DEF Inc

LEMMA DecFacts ==
    \A n \in 0 .. Modulus - 1 :
        /\ Dec(n) \in 0 .. Modulus - 1
        /\ n > 0 => Dec(n) = n - 1
        /\ n = 0 => Dec(n) = Modulus - 1
BY SizeFacts DEF Dec

\* The tasks before a phase are a prefix of the node table: it is sorted.
LEMMA PrefixBefore ==
    ASSUME NEW ph \in Nat
    PROVE  /\ RangeBegin(ph) \in 0 .. Len(PhaseOf)
           /\ {t \in Tasks : PhaseOf[t] < ph} = 1 .. RangeBegin(ph)
<1> DEFINE S == {t \in Tasks : PhaseOf[t] < ph}
           T == Tasks \ S
<1>1. /\ Len(PhaseOf) \in Nat /\ Tasks = 1 .. Len(PhaseOf)
      /\ \A t \in Tasks : PhaseOf[t] \in Nat
      /\ \A s, t \in Tasks : s < t => PhaseOf[s] <= PhaseOf[t]
  BY SizeFacts, GraphAssumption DEF Tasks, Phases
<1>2. \E m \in 0 .. Len(PhaseOf) : S = 1 .. m
  <2>1. CASE T = {}
    <3>1. S = Tasks
      BY <2>1
    <3> QED
      BY <1>1, <3>1
  <2>2. CASE T # {}
    <3>1. T \in SUBSET Nat
      BY <1>1
    <3>2. PICK x \in T : \A y \in T : x <= y
      BY <2>2, <3>1, LeastNatural
    <3>3. x \in Tasks /\ ~(PhaseOf[x] < ph) /\ x \in Nat /\ x >= 1 /\ x <= Len(PhaseOf)
      BY <1>1
    <3>4. ASSUME NEW t \in S PROVE t \in 1 .. x - 1
      <4>1. t \in Tasks /\ PhaseOf[t] < ph /\ t \in Nat /\ t >= 1 /\ t # x
        BY <1>1, <3>3
      <4>2. ~(x < t)
        BY <1>1, <3>3, <4>1
      <4> QED
        BY <3>3, <4>1, <4>2
    <3>5. ASSUME NEW t \in 1 .. x - 1 PROVE t \in S
      <4>1. t \in Tasks /\ ~(x <= t)
        BY <1>1, <3>3
      <4>2. t \notin T
        BY <3>2, <4>1
      <4> QED
        BY <4>1, <4>2
    <3>6. S = 1 .. x - 1 /\ x - 1 \in 0 .. Len(PhaseOf)
      BY <1>1, <3>3, <3>4, <3>5
    <3> QED
      BY <3>6
  <2> QED
    BY <2>1, <2>2
<1>3. PICK m \in 0 .. Len(PhaseOf) : S = 1 .. m
  BY <1>2
<1>4. Cardinality(1 .. m) = m
  <2>1. m \in Nat /\ 0 \in Nat
    BY <1>1
  <2>2. Cardinality(0 + 1 .. m) = IF 0 > m THEN 0 ELSE m - 0
    BY <2>1, IntervalSize
  <2> QED
    BY <2>1, <2>2
<1>5. RangeBegin(ph) = m
  BY <1>3, <1>4, Zenon DEF RangeBegin
<1> QED
  BY <1>3, <1>5

\* phaseRanges delimits exactly the tasks of a phase.
LEMMA PhaseNodesFacts ==
    ASSUME NEW ph \in Phases
    PROVE  /\ PhaseNodes(ph) \in Seq(Tasks)
           /\ Len(PhaseNodes(ph)) <= Len(PhaseOf)
           /\ Distinct(PhaseNodes(ph))
           /\ Elements(PhaseNodes(ph)) = {t \in Tasks : PhaseOf[t] = ph}
<1>1. /\ ph \in Nat /\ ph + 1 \in Nat /\ Len(PhaseOf) \in Nat /\ Tasks = 1 .. Len(PhaseOf)
      /\ \A t \in Tasks : PhaseOf[t] \in Nat
  BY SizeFacts DEF Tasks, Phases
<1>2. PICK b \in 0 .. Len(PhaseOf) :
          b = RangeBegin(ph) /\ {t \in Tasks : PhaseOf[t] < ph} = 1 .. b
  BY <1>1, PrefixBefore
<1>3. PICK e \in 0 .. Len(PhaseOf) : {t \in Tasks : PhaseOf[t] < ph + 1} = 1 .. e
  BY <1>1, PrefixBefore
<1>4. {t \in Tasks : PhaseOf[t] = ph} = b + 1 .. e /\ b <= e
  <2>1. \A t \in Tasks : PhaseOf[t] = ph <=> PhaseOf[t] < ph + 1 /\ ~(PhaseOf[t] < ph)
    BY <1>1
  <2>2. \A t \in Tasks : PhaseOf[t] < ph => PhaseOf[t] < ph + 1
    BY <1>1
  <2>3. \A t \in Tasks : (PhaseOf[t] < ph <=> t <= b) /\ (PhaseOf[t] < ph + 1 <=> t <= e)
    BY <1>1, <1>2, <1>3
  <2>4. b <= e
    <3>1. CASE b = 0
      BY <1>1, <3>1
    <3>2. CASE b # 0
      <4>1. b \in Tasks
        BY <1>1, <3>2
      <4> QED
        BY <1>1, <2>2, <2>3, <4>1
    <3> QED
      BY <3>1, <3>2
  <2>5. \A t \in Tasks : PhaseOf[t] = ph <=> t \in b + 1 .. e
    BY <1>1, <2>1, <2>3
  <2>6. \A t \in b + 1 .. e : t \in Tasks
    BY <1>1
  <2> QED
    BY <2>4, <2>5, <2>6
<1>5. RangeCount(ph) = e - b
  <2>1. b \in Nat /\ e \in Nat
    BY <1>1
  <2>2. Cardinality(b + 1 .. e) = e - b
    BY <1>4, <2>1, IntervalSize
  <2> QED
    BY <1>4, <2>2, Zenon DEF RangeCount
<1> DEFINE s == PhaseNodes(ph)
<1>6. s = [i \in 1 .. e - b |-> b + i]
  BY <1>2, <1>5, Zenon DEF PhaseNodes
<1> HIDE DEF s
<1>7. /\ s \in Seq(Tasks) /\ Len(s) = e - b
      /\ \A i \in 1 .. e - b : s[i] = b + i
  <2>1. \A i \in 1 .. e - b : b + i \in Tasks
    BY <1>1, <1>4
  <2>2. e - b \in Nat
    BY <1>1, <1>4
  <2> QED
    BY <1>6, <2>1, <2>2
<1>8. Distinct(s)
  BY <1>1, <1>7 DEF Distinct
<1>9. Elements(s) = b + 1 .. e
  <2>1. \A x \in b + 1 .. e : x - b \in 1 .. e - b /\ x = b + (x - b)
    BY <1>1, <1>4
  <2>2. \A x \in b + 1 .. e : \E i \in 1 .. e - b : s[i] = x
    BY <1>7, <2>1
  <2>3. \A i \in 1 .. e - b : s[i] \in b + 1 .. e
    BY <1>1, <1>4, <1>7
  <2> QED
    BY <1>7, <2>2, <2>3 DEF Elements
<1> QED
  BY <1>1, <1>4, <1>7, <1>8, <1>9 DEF s

LEMMA AllNodesFacts == AllNodes \in Seq(Tasks) /\ Elements(AllNodes) = Tasks
<1>1. Len(PhaseOf) \in Nat /\ Tasks = 1 .. Len(PhaseOf)
  BY SizeFacts DEF Tasks
<1>2. AllNodes \in Seq(Tasks) /\ Len(AllNodes) = Len(PhaseOf)
      /\ \A i \in 1 .. Len(PhaseOf) : AllNodes[i] = i
  BY <1>1 DEF AllNodes
<1> QED
  BY <1>1, <1>2 DEF Elements

----------------------------------------------------------------------------
(* What a step leaves alone.                                               *)

WorkerPcs == {"exited", "loop", "dequeue", "execute", "release", "child", "bump", "notify"}
HolderPcs == {"execute", "release", "child"}

LEMMA HoldersFinite == IsFiniteSet(Holders) /\ Cardinality(Holders) \in Nat
<1>1. IsFiniteSet(Workers) /\ Holders \in SUBSET Workers
  BY DispatchAssumption DEF Holders
<1>2. IsFiniteSet(Holders)
  BY <1>1, FS_Subset
<1> QED
  BY <1>2, FS_CardinalityType

\* A worker's step: only its own record changes.
LEMMA WorkerStepFacts ==
    ASSUME worker \in [Workers -> WorkerRecord], NEW w \in Workers, NEW r \in WorkerRecord,
           worker' = [worker EXCEPT ![w] = r]
    PROVE  /\ worker' \in [Workers -> WorkerRecord]
           /\ worker'[w] = r
           /\ \A v \in Workers : v # w => worker'[v] = worker[v]
           /\ r.pc \in HolderPcs => Holders' = Holders \cup {w}
           /\ r.pc \notin HolderPcs => Holders' = Holders \ {w}
<1>1. /\ worker' \in [Workers -> WorkerRecord]
      /\ worker'[w] = r
      /\ \A v \in Workers : v # w => worker'[v] = worker[v]
  OBVIOUS
<1>2. Holders' = {v \in Workers : worker'[v].pc \in HolderPcs}
  BY Zenon DEF Holders, HolderPcs
<1>3. Holders = {v \in Workers : worker[v].pc \in HolderPcs}
  BY Zenon DEF Holders, HolderPcs
<1> QED
  BY <1>1, <1>2, <1>3

LEMMA WorkerGotoFacts ==
    ASSUME worker \in [Workers -> WorkerRecord], NEW w \in Workers, NEW label \in WorkerPcs,
           WorkerGoto(w, label)
    PROVE  \E r \in WorkerRecord :
              /\ worker' = [worker EXCEPT ![w] = r]
              /\ r.pc = label /\ r.task = worker[w].task
              /\ r.phase = worker[w].phase /\ r.todo = worker[w].todo
<1> DEFINE r == [worker[w] EXCEPT !.pc = label]
<1>1. worker[w] \in WorkerRecord
  OBVIOUS
<1>2. /\ r \in WorkerRecord /\ r.pc = label /\ r.task = worker[w].task
      /\ r.phase = worker[w].phase /\ r.todo = worker[w].todo
  BY <1>1 DEF WorkerRecord, WorkerPcs
<1>3. worker' = [worker EXCEPT ![w] = r]
  BY DEF WorkerGoto
<1> QED
  BY <1>2, <1>3

LEMMA FreshWorkerFacts ==
    \A label \in WorkerPcs : FreshWorker(label) \in WorkerRecord /\ FreshWorker(label).pc = label
<1>1. InputPhase \in Phases /\ << >> \in Seq(Tasks)
  BY SizeFacts, EmptyFacts
<1> QED
  BY <1>1 DEF FreshWorker, WorkerRecord, WorkerPcs

\* Nothing that the invariant speaks of changes but program counters of idle
\* workers and of the waiting main thread.
LEMMA Frame ==
    ASSUME PipelineInv, TypeOK',
           UNCHANGED <<running, currentPhase, remaining, readyQueue, active, executed,
                       registry, state, nextPhase>>,
           Holders' = Holders, \A v \in Holders : worker'[v] = worker[v],
           main' = main \/ (Busy /\ Busy' /\ Seeding' /\ ToSeed' = ToSeed /\ Lag' = Lag),
           main'.pc = "idle" /\ ~running => \A v \in Workers : worker'[v].pc = "exited"
    PROVE  PipelineInv'
<1> USE DEF PipelineInv
<1>1. ToSeed' = ToSeed /\ Lag' = Lag /\ (Busy' <=> Busy)
  BY DEF ToSeed, Lag, Busy
<1>2. Quiet'
  BY <1>1 DEF Quiet
<1>3. Balance' /\ Room' /\ Seeding'
  BY <1>1 DEF Balance, Room, Seeding
<1>4. Held'
  BY <1>1 DEF Held
<1>5. Apart' /\ Queued' /\ Unseeded'
  BY <1>1 DEF Apart, Queued, Unseeded
<1>6. Ran'
  BY <1>1 DEF Ran
<1>7. \A t \in Tasks : Pending(t)' = Pending(t)
  BY DEF Pending
<1>8. CountedDown' <=> CountedDown
  BY <1>7 DEF CountedDown
<1>9. Rest' <=> Rest
  BY DEF Rest
<1>10. Between'
  <2>1. CASE main' = main
    BY <1>1, <1>8, <1>9, <2>1, Zenon DEF Between
  <2>2. CASE Busy /\ Busy'
    <3>1. main'.pc \notin {"build", "join", "idle"}
      BY <2>2 DEF Busy, BusyPcs
    <3> QED
      BY <1>8, <2>2, <3>1 DEF Between
  <2> QED
    BY <2>1, <2>2
<1> QED
  BY <1>2, <1>3, <1>4, <1>5, <1>6, <1>10

----------------------------------------------------------------------------
(* The initial state, and the steps that carry no task.                    *)

LEMMA PipelineInitInv ==
    PipelineInit => PipelineInv
<1> SUFFICES ASSUME PipelineInit PROVE PipelineInv
  OBVIOUS
<1> USE DEF PipelineInit, Init
<1>1. /\ main.pc = "idle" /\ main.todo = << >> /\ main.epoch = 0
      /\ \A w \in Workers : worker[w].pc = "exited"
  BY DEF IdleMain, FreshWorker
<1>2. ~Busy /\ Lag = 0 /\ Holders = {}
  BY <1>1 DEF Busy, BusyPcs, Lag, Holders
<1>3. TypeOK
  <2>1. /\ InputPhase \in Phases /\ << >> \in Seq(Tasks) /\ Modulus \in Nat /\ Modulus > 0
        /\ PhaseCount \in Nat
    BY SizeFacts, EmptyFacts
  <2>2. worker \in [Workers -> WorkerRecord]
    BY FreshWorkerFacts DEF WorkerPcs
  <2>3. main \in [pc : BusyPcs \cup {"idle", "build", "join"}, todo : Seq(Tasks), epoch : Nat]
    BY <2>1 DEF IdleMain
  <2>4. running \in BOOLEAN
    BY Zenon
  <2>5. /\ currentPhase \in Phases /\ readyQueue \in Seq(Tasks) /\ active \in 0 .. Modulus - 1
        /\ epoch \in Nat /\ nextPhase \in 0 .. PhaseCount
    BY <2>1
  <2>6. remaining \in [Tasks -> Nat] /\ executed \in [Tasks -> Nat]
    OBVIOUS
  <2> QED
    BY <2>2, <2>3, <2>4, <2>5, <2>6, Zenon DEF TypeOK
<1>4. Quiet /\ Room /\ Seeding /\ Held /\ Apart /\ Unseeded /\ Ran
  BY <1>1, <1>2 DEF Quiet, Room, Seeding, WaitPcs, Held, Apart, Unseeded, Ran
<1>5. Balance
  BY <1>2, FS_EmptySet, EmptyFacts DEF Balance
<1>6. Queued
  BY <1>2, EmptyFacts DEF Queued
<1>7. Between
  <2>1. Rest
    BY DEF Rest
  <2> QED
    BY <1>1, <1>2, <2>1 DEF Between
<1> QED
  BY <1>3, <1>4, <1>5, <1>6, <1>7 DEF PipelineInv

\* A worker without a task looks for one, leaves, or wakes the main thread.
LEMMA LoopCheckInv ==
    ASSUME PipelineInv, UNCHANGED pipelineVars, NEW w \in Workers, LoopCheck(w)
    PROVE  PipelineInv'
<1>1. TypeOK
  BY DEF PipelineInv
<1>2. PICK label \in WorkerPcs : /\ worker' = [worker EXCEPT ![w] = FreshWorker(label)]
                                 /\ label \in {"dequeue", "exited"}
  BY DEF LoopCheck, WorkerPcs
<1>3. FreshWorker(label) \in WorkerRecord /\ FreshWorker(label).pc = label
  BY FreshWorkerFacts
<1>4. worker \in [Workers -> WorkerRecord]
  BY <1>1 DEF TypeOK
<1>5. /\ worker' \in [Workers -> WorkerRecord] /\ Holders' = Holders \ {w}
      /\ \A v \in Workers : v # w => worker'[v] = worker[v]
  BY <1>2, <1>3, <1>4, WorkerStepFacts DEF HolderPcs
<1>6. w \notin Holders
  BY DEF LoopCheck, WorkerAt, Holders
<1>7. TypeOK'
  BY <1>1, <1>5 DEF TypeOK, LoopCheck, pipelineVars
<1>8. ~(main'.pc = "idle" /\ ~running)
  BY DEF PipelineInv, Between, LoopCheck, WorkerAt
<1>9. Holders' = Holders /\ \A v \in Holders : worker'[v] = worker[v]
  BY <1>5, <1>6 DEF Holders
<1> QED
  BY <1>7, <1>8, <1>9, Frame DEF LoopCheck, pipelineVars

LEMMA IdleWorkerInv ==
    ASSUME PipelineInv, UNCHANGED pipelineVars, NEW w \in Workers,
           (Dequeue(w) /\ readyQueue = << >>) \/ BumpEpoch(w) \/ NotifyAll(w)
    PROVE  PipelineInv'
<1>1. TypeOK
  BY DEF PipelineInv
<1>2. PICK label \in WorkerPcs : WorkerGoto(w, label) /\ label \in {"loop", "notify"}
  BY DEF Dequeue, BumpEpoch, NotifyAll, WorkerPcs
<1>3. worker \in [Workers -> WorkerRecord]
  BY <1>1 DEF TypeOK
<1>4. PICK r \in WorkerRecord : worker' = [worker EXCEPT ![w] = r] /\ r.pc = label
  BY <1>2, <1>3, WorkerGotoFacts
<1>5. /\ worker' \in [Workers -> WorkerRecord] /\ Holders' = Holders \ {w}
      /\ \A v \in Workers : v # w => worker'[v] = worker[v]
  BY <1>2, <1>3, <1>4, WorkerStepFacts DEF HolderPcs
<1>6. w \notin Holders /\ worker[w].pc # "exited"
  BY DEF Dequeue, BumpEpoch, NotifyAll, WorkerAt, Holders
<1>7. /\ main' = main \/ (main.pc = "asleep" /\ main' = [main EXCEPT !.pc = "waitBlock"])
      /\ epoch' = epoch \/ epoch' = epoch + 1
      /\ UNCHANGED <<running, currentPhase, remaining, readyQueue, active, executed, registry>>
  BY DEF Dequeue, BumpEpoch, NotifyAll, MainAt
<1>8. main' = main \/ (Busy /\ Busy' /\ Seeding' /\ ToSeed' = ToSeed /\ Lag' = Lag)
  BY <1>1, <1>7 DEF PipelineInv, TypeOK, Busy, BusyPcs, WaitPcs, Seeding, ToSeed, Lag
<1>9. TypeOK'
  <2>1. main' \in [pc : BusyPcs \cup {"idle", "build", "join"}, todo : Seq(Tasks), epoch : Nat]
    BY <1>1, <1>7 DEF TypeOK, BusyPcs
  <2>2. epoch' \in Nat
    BY <1>1, <1>7 DEF TypeOK
  <2> QED
    BY <1>1, <1>5, <1>7, <2>1, <2>2 DEF TypeOK, pipelineVars
<1>10. ~(main'.pc = "idle" /\ ~running)
  <2>1. main.pc = "idle" /\ ~running => worker[w].pc = "exited"
    BY DEF PipelineInv, Between
  <2> QED
    BY <1>1, <1>6, <1>7, <2>1 DEF TypeOK
<1>11. Holders' = Holders /\ \A v \in Holders : worker'[v] = worker[v]
  BY <1>5, <1>6 DEF Holders
<1> QED
  BY <1>7, <1>8, <1>9, <1>10, <1>11, Frame DEF pipelineVars

\* The main thread moves within Seed and the barrier.
LEMMA BarrierMoveInv ==
    ASSUME PipelineInv, UNCHANGED pipelineVars,
           \/ SeedDone
           \/ SeedCheck /\ remaining[Head(main.todo)] = 0
           \/ (WaitActive \/ WaitRecheck) /\ active # 0
           \/ WaitEpoch \/ WaitBlock
    PROVE  PipelineInv'
<1>1. TypeOK
  BY DEF PipelineInv
<1>2. PICK label \in BusyPcs \ {"seedAdd"} :
          \/ main' = [main EXCEPT !.pc = label]
          \/ main' = [main EXCEPT !.pc = label, !.epoch = epoch]
  BY DEF SeedDone, SeedCheck, WaitActive, WaitRecheck, WaitEpoch, WaitBlock, MainGoto, BusyPcs
<1>3. main.pc \in BusyPcs \ {"seedAdd"}
  BY DEF SeedDone, SeedCheck, WaitActive, WaitRecheck, WaitEpoch, WaitBlock, MainAt, BusyPcs
<1>4. UNCHANGED <<running, poolRunning, registry, currentPhase, remaining,
                   readyQueue, active, epoch, worker, executed>>
  BY DEF SeedDone, SeedCheck, WaitActive, WaitRecheck, WaitEpoch, WaitBlock
<1>5. main'.pc = label /\ main'.todo = main.todo
      /\ main' \in [pc : BusyPcs \cup {"idle", "build", "join"}, todo : Seq(Tasks), epoch : Nat]
  BY <1>1, <1>2 DEF TypeOK
<1>6. Busy /\ Busy' /\ ToSeed' = ToSeed /\ Lag' = Lag
  BY <1>3, <1>5 DEF Busy, ToSeed, Lag
<1>7. Seeding'
  <2>1. /\ label = "seedEnqueue" => main.todo # << >>
        /\ label # "seedEnqueue" => (main.pc = "seed" /\ main.todo = << >>) \/ main.pc \in WaitPcs
    BY <1>2, <1>5 DEF SeedDone, SeedCheck, WaitActive, WaitRecheck, WaitEpoch, WaitBlock,
                      MainGoto, MainAt, WaitPcs
  <2> QED
    BY <1>5, <2>1 DEF PipelineInv, Seeding, WaitPcs
<1>8. TypeOK'
  BY <1>1, <1>4, <1>5 DEF TypeOK, pipelineVars
<1>9. main'.pc # "idle"
  BY <1>5 DEF BusyPcs
<1>10. Holders' = Holders
  BY <1>4 DEF Holders
<1> QED
  BY <1>4, <1>6, <1>7, <1>8, <1>9, <1>10, Frame DEF pipelineVars

----------------------------------------------------------------------------
(* Between ticks: the executor's own steps, Initialize and Shutdown.       *)

\* Outside Seed and the barrier only the type and Between say anything.
LEMMA QuietFrame ==
    ASSUME TypeOK', ~Busy', readyQueue' = << >>, Holders' = {}, active' = 0, Between'
    PROVE  PipelineInv'
<1>1. Lag' = 0
  BY DEF Busy, BusyPcs, Lag
<1>2. Quiet' /\ Room' /\ Seeding' /\ Held' /\ Apart' /\ Unseeded' /\ Ran'
  BY DEF Busy, BusyPcs, Quiet, Room, Seeding, WaitPcs, Held, Apart, Unseeded, Ran
<1>3. Balance'
  BY <1>1, FS_EmptySet, EmptyFacts DEF Balance
<1>4. Queued'
  BY EmptyFacts DEF Queued
<1> QED
  BY <1>2, <1>3, <1>4 DEF PipelineInv

\* The phases of a tick are behind it.
LEMMA IdleFacts ==
    ASSUME PipelineInv, MainAt("idle")
    PROVE  /\ ~Busy /\ readyQueue = << >> /\ Holders = {} /\ active = 0
           /\ state # "Running" \/ ~running \/ nextPhase \notin Phases => Rest
<1>1. ~Busy /\ main.pc = "idle"
  BY DEF MainAt, Busy, BusyPcs
<1>2. readyQueue = << >> /\ Holders = {} /\ active = 0
  BY <1>1 DEF PipelineInv, Quiet
<1>3. ASSUME state # "Running" \/ ~running \/ nextPhase \notin Phases PROVE Rest
  <2>1. CASE (state = "Running" => nextPhase = 0) /\ Rest
    BY <2>1
  <2>2. CASE /\ state = "Running" /\ running
             /\ nextPhase = currentPhase + 1
             /\ \A t \in Tasks : executed[t] = IF PhaseOf[t] <= currentPhase THEN 1 ELSE 0
    <3>1. nextPhase \in 0 .. PhaseCount /\ currentPhase \in 0 .. PhaseCount - 1
          /\ PhaseCount \in Nat /\ \A t \in Tasks : PhaseOf[t] \in 0 .. PhaseCount - 1
      BY SizeFacts DEF PipelineInv, TypeOK, Phases
    <3>2. nextPhase = PhaseCount
      BY <1>3, <2>2, <3>1 DEF Phases
    <3>3. \A t \in Tasks : PhaseOf[t] <= currentPhase
      BY <2>2, <3>1, <3>2
    <3> QED
      BY <2>2, <3>3 DEF Rest
  <2> QED
    BY <1>1, <2>1, <2>2 DEF PipelineInv, Between
<1> QED
  BY <1>1, <1>2, <1>3

\* The steps of the executor that only move its own state
LEMMA ExecutorInv ==
    ASSUME PipelineInv, UNCHANGED vars, MainAt("idle"),
           \/ state' # "Running" /\ (nextPhase' = nextPhase \/ nextPhase' = 0)
           \/ state' = "Running" /\ nextPhase' = 0,
           state # "Running" \/ ~running \/ nextPhase \notin Phases
    PROVE  PipelineInv'
<1>1. /\ ~Busy /\ readyQueue = << >> /\ Holders = {} /\ active = 0 /\ Rest
  BY IdleFacts
<1>2. /\ ~Busy' /\ readyQueue' = << >> /\ Holders' = {} /\ active' = 0 /\ Rest'
  BY <1>1 DEF vars, Busy, Holders, Rest
<1>3. TypeOK'
  <2>1. nextPhase' \in 0 .. PhaseCount
    BY SizeFacts DEF PipelineInv, TypeOK
  <2> QED
    BY <2>1 DEF PipelineInv, TypeOK, vars
<1>4. Between'
  <2>1. main' = main /\ running' = running /\ registry' = registry /\ worker' = worker
        /\ main.pc = "idle"
    BY DEF vars, MainAt
  <2> QED
    BY <1>2, <2>1 DEF PipelineInv, Between
<1> QED
  BY <1>2, <1>3, <1>4, QuietFrame

LEMMA InitializeInv ==
    ASSUME PipelineInv, NEW reg, Initialize(reg), state # "Running", state' # "Running",
           nextPhase' = nextPhase
    PROVE  PipelineInv'
<1>1. /\ ~Busy /\ readyQueue = << >> /\ Holders = {} /\ active = 0 /\ Rest
  BY IdleFacts DEF Initialize
<1>2. worker' = [v \in Workers |-> FreshWorker("loop")] /\ main' = main /\ main.pc = "idle"
  BY DEF Initialize, MainAt
<1>3. worker' \in [Workers -> WorkerRecord] /\ \A v \in Workers : worker'[v].pc = "loop"
  BY <1>2, FreshWorkerFacts DEF WorkerPcs
<1>4. Holders' = {}
  BY <1>3 DEF Holders
<1>5. /\ ~Busy' /\ readyQueue' = << >> /\ active' = 0 /\ Rest'
  BY <1>1, <1>2 DEF Busy, Rest, Initialize
<1>6. TypeOK'
  BY <1>3 DEF PipelineInv, TypeOK, Initialize
<1>7. Between'
  <2>1. running' /\ Tasks \subseteq registry'
    BY DEF Initialize, Validate, IsRegistered
  <2> QED
    BY <1>2, <1>5, <2>1 DEF Between
<1> QED
  BY <1>4, <1>5, <1>6, <1>7, QuietFrame

LEMMA ShutdownCallInv ==
    ASSUME PipelineInv, ShutdownCall, state # "Running", state' \notin {"Running", "Stopped"},
           nextPhase' = nextPhase
    PROVE  PipelineInv'
<1>1. /\ ~Busy /\ readyQueue = << >> /\ Holders = {} /\ active = 0 /\ Rest
  BY IdleFacts DEF ShutdownCall
<1>2. main' \in [pc : BusyPcs \cup {"idle", "build", "join"}, todo : Seq(Tasks), epoch : Nat]
      /\ main'.pc = "join"
  BY DEF PipelineInv, TypeOK, ShutdownCall, MainGoto
<1>3. /\ ~Busy' /\ readyQueue' = << >> /\ active' = 0 /\ Rest' /\ Holders' = {}
  BY <1>1, <1>2 DEF Busy, BusyPcs, Rest, Holders, ShutdownCall
<1>4. TypeOK'
  BY <1>2 DEF PipelineInv, TypeOK, ShutdownCall
<1>5. Between'
  <2>1. ~running'
    BY DEF ShutdownCall
  <2> QED
    BY <1>2, <1>3, <2>1 DEF Between
<1> QED
  BY <1>3, <1>4, <1>5, QuietFrame

LEMMA ShutdownResetInv ==
    ASSUME PipelineInv, ShutdownReset, UNCHANGED pipelineVars
    PROVE  PipelineInv'
<1>1. main.pc = "join" /\ ~Busy /\ ~running /\ state # "Running" /\ Rest
  BY DEF ShutdownReset, MainAt, PipelineInv, Between, Busy, BusyPcs
<1>2. readyQueue = << >> /\ Holders = {} /\ active = 0
  BY <1>1 DEF PipelineInv, Quiet
<1>3. main' \in [pc : BusyPcs \cup {"idle", "build", "join"}, todo : Seq(Tasks), epoch : Nat]
      /\ main'.pc = "idle"
  BY EmptyFacts DEF ShutdownReset, IdleMain
<1>4. /\ ~Busy' /\ readyQueue' = << >> /\ active' = 0 /\ Rest' /\ Holders' = {}
  BY <1>1, <1>2, <1>3 DEF Busy, BusyPcs, Rest, Holders, ShutdownReset
<1>5. TypeOK'
  <2>1. InputPhase \in Phases /\ 0 \in 0 .. Modulus - 1
    BY SizeFacts
  <2>2. remaining' \in [Tasks -> Nat]
    BY DEF ShutdownReset
  <2> QED
    BY <1>3, <2>1, <2>2 DEF PipelineInv, TypeOK, ShutdownReset, pipelineVars
<1>6. Between'
  <2>1. ~running' /\ state' # "Running" /\ \A v \in Workers : worker'[v].pc = "exited"
    BY <1>1 DEF ShutdownReset, pipelineVars, Joined, WorkerAt
  <2> QED
    BY <1>3, <1>4, <2>1 DEF Between
<1> QED
  BY <1>4, <1>5, <1>6, QuietFrame

----------------------------------------------------------------------------
(* ExecutePhase up to SeedReadyQueue.                                      *)

LEMMA SeedStart ==
    ASSUME TypeOK', Between', main'.pc = "seed", main'.todo = PhaseNodes(currentPhase'),
           readyQueue' = << >>, Holders' = {}, active' = 0,
           \A t \in Tasks : executed'[t] = IF PhaseOf[t] < currentPhase' THEN 1 ELSE 0
    PROVE  PipelineInv'
<1>1. Lag' = 0 /\ ToSeed' = main'.todo /\ Busy'
  BY DEF Lag, ToSeed, Busy, BusyPcs
<1>2. PICK ph \in Phases : ph = currentPhase'
  BY DEF TypeOK
<1>3. /\ PhaseNodes(ph) \in Seq(Tasks)
      /\ Len(PhaseNodes(ph)) <= Len(PhaseOf)
      /\ Distinct(PhaseNodes(ph))
      /\ Elements(PhaseNodes(ph)) = {t \in Tasks : PhaseOf[t] = ph}
  BY PhaseNodesFacts
<1>4. PICK s \in Seq(Tasks) : s = PhaseNodes(ph)
  BY <1>3
<1>5. ToSeed' = s /\ Len(s) <= Len(PhaseOf) /\ Distinct(s)
      /\ Elements(s) = {t \in Tasks : PhaseOf[t] = ph}
  BY <1>1, <1>2, <1>3, <1>4
<1>6. Cardinality(Holders') = 0 /\ Len(readyQueue') = 0
  BY FS_EmptySet, EmptyFacts
<1>7. \A t \in Tasks : PhaseOf[t] \in Nat /\ ph \in Nat
  BY SizeFacts DEF Phases
<1>8. Quiet' /\ Seeding' /\ Held' /\ Apart'
  BY <1>1 DEF Quiet, Seeding, WaitPcs, Held, Apart
<1>9. Balance'
  BY <1>1, <1>6 DEF Balance
<1>10. Room'
  <2>1. Len(s) \in Nat
    BY <1>4
  <2> QED
    BY <1>5, <1>6, <2>1 DEF Room
<1>11. Queued'
  BY EmptyFacts DEF Queued
<1>12. Unseeded'
  BY <1>2, <1>5, <1>7, EmptyFacts DEF Unseeded
<1>13. Ran'
  BY <1>2, <1>5, <1>7 DEF Ran
<1> QED
  BY <1>8, <1>9, <1>10, <1>11, <1>12, <1>13 DEF PipelineInv

LEMMA ExecutePhaseInv ==
    ASSUME PipelineInv, PipelinePhase
    PROVE  PipelineInv'
<1>1. /\ main.pc = "idle" /\ running /\ state = "Running" /\ nextPhase \in Phases
      /\ currentPhase' = nextPhase /\ nextPhase' = nextPhase + 1
      /\ UNCHANGED <<running, registry, remaining, readyQueue, active, epoch, worker, state>>
  BY DEF PipelinePhase, ExecutePhaseCall, MainAt
<1>2. /\ ~Busy /\ readyQueue = << >> /\ Holders = {} /\ active = 0
  BY <1>1, IdleFacts DEF MainAt
<1>3. /\ Holders' = {} /\ readyQueue' = << >> /\ active' = 0
  BY <1>1, <1>2 DEF Holders
<1>4. Tasks \subseteq registry /\ TypeOK
  BY <1>1 DEF PipelineInv, Between
<1>5. nextPhase' \in 0 .. PhaseCount
  BY <1>1, SizeFacts DEF Phases
<1>6. CASE nextPhase = InputPhase
  <2>1. main' = [main EXCEPT !.pc = "build", !.todo = AllNodes]
        /\ executed' = [t \in Tasks |-> 0]
    BY <1>6 DEF PipelinePhase, ExecutePhaseCall
  <2>2. /\ main' \in [pc : BusyPcs \cup {"idle", "build", "join"}, todo : Seq(Tasks), epoch : Nat]
        /\ main'.pc = "build" /\ main'.todo = AllNodes
    BY <1>4, <2>1, AllNodesFacts DEF TypeOK
  <2>3. \A t \in Tasks : executed'[t] = 0
    BY <2>1
  <2>4. TypeOK'
    <3>1. executed' \in [Tasks -> Nat]
      BY <2>1
    <3> QED
      BY <1>1, <1>4, <1>5, <2>2, <3>1 DEF TypeOK
  <2>5. ~Busy'
    BY <2>2 DEF Busy, BusyPcs
  <2>6. Between'
    <3>1. nextPhase' = 1 /\ currentPhase' = InputPhase
      BY <1>1, <1>6 DEF InputPhase
    <3> QED
      BY <1>1, <1>4, <2>2, <2>3, <2>5, <3>1, AllNodesFacts DEF Between
  <2> QED
    BY <1>3, <2>4, <2>5, <2>6, QuietFrame
<1>7. CASE nextPhase # InputPhase
  <2>1. main' = [main EXCEPT !.pc = "seed", !.todo = PhaseNodes(nextPhase)]
        /\ executed' = executed
    BY <1>7 DEF PipelinePhase, ExecutePhaseCall
  <2>2. PhaseNodes(nextPhase) \in Seq(Tasks)
    BY <1>1, PhaseNodesFacts
  <2>3. /\ main' \in [pc : BusyPcs \cup {"idle", "build", "join"}, todo : Seq(Tasks), epoch : Nat]
        /\ main'.pc = "seed" /\ main'.todo = PhaseNodes(nextPhase)
    BY <1>4, <2>1, <2>2 DEF TypeOK, BusyPcs
  <2>4. /\ nextPhase = currentPhase + 1 /\ CountedDown
        /\ \A t \in Tasks : executed[t] = IF PhaseOf[t] <= currentPhase THEN 1 ELSE 0
    BY <1>1, <1>7 DEF PipelineInv, Between, InputPhase
  <2>5. \A t \in Tasks : executed'[t] = IF PhaseOf[t] < currentPhase' THEN 1 ELSE 0
    <3>1. \A t \in Tasks : PhaseOf[t] \in Nat /\ currentPhase \in Nat
      BY <1>4, SizeFacts DEF Phases, TypeOK
    <3> QED
      BY <1>1, <2>1, <2>4, <3>1
  <2>6. TypeOK'
    BY <1>1, <1>4, <1>5, <2>1, <2>3 DEF TypeOK
  <2>7. CountedDown'
    <3>1. \A t \in Tasks : Pending(t)' = Pending(t)
      BY <1>2, <1>3, <2>1 DEF Pending
    <3> QED
      BY <1>1, <2>4, <3>1 DEF CountedDown
  <2>8. Busy' /\ nextPhase' = currentPhase' + 1
    BY <1>1, <2>3 DEF Busy, BusyPcs
  <2>9. Between'
    BY <1>1, <1>4, <2>3, <2>7, <2>8 DEF Between
  <2> QED
    BY <1>1, <1>3, <2>3, <2>5, <2>6, <2>9, SeedStart
<1> QED
  BY <1>6, <1>7

\* What holds while BuildRuntimeState runs
LEMMA BuildFacts ==
    ASSUME PipelineInv, MainAt("build")
    PROVE  /\ ~Busy /\ readyQueue = << >> /\ Holders = {} /\ active = 0 /\ TypeOK
           /\ main.pc = "build" /\ state = "Running" /\ running
           /\ currentPhase = InputPhase /\ nextPhase = 1 /\ Tasks \subseteq registry
           /\ \A t \in Tasks : executed[t] = 0
           /\ \A t \in Tasks : t \in Elements(main.todo) \/ remaining[t] = ParentCount(t)
<1>1. main.pc = "build" /\ ~Busy
  BY DEF MainAt, Busy, BusyPcs
<1> QED
  BY <1>1 DEF PipelineInv, Quiet, Between

LEMMA ParentsFacts ==
    \A t \in Tasks : IsFiniteSet(Parents(t)) /\ ParentCount(t) \in Nat
<1>1. \A t \in Tasks : IsFiniteSet(Parents(t))
  BY SizeFacts, FS_Subset DEF Parents
<1> QED
  BY <1>1, FS_CardinalityType DEF ParentCount

LEMMA BuildNodeInv ==
    ASSUME PipelineInv, BuildNode, UNCHANGED pipelineVars
    PROVE  PipelineInv'
<1>1. /\ ~Busy /\ readyQueue = << >> /\ Holders = {} /\ active = 0 /\ TypeOK
      /\ main.pc = "build" /\ state = "Running" /\ running
      /\ currentPhase = InputPhase /\ nextPhase = 1 /\ Tasks \subseteq registry
      /\ \A t \in Tasks : executed[t] = 0
      /\ \A t \in Tasks : t \in Elements(main.todo) \/ remaining[t] = ParentCount(t)
  BY BuildFacts DEF BuildNode
<1>2. PICK s \in Seq(Tasks) : s = main.todo /\ s # << >>
  BY <1>1 DEF TypeOK, BuildNode
<1>3. PICK h \in Tasks : h = Head(s) /\ Tail(s) \in Seq(Tasks)
                         /\ Elements(s) = {h} \cup Elements(Tail(s))
  BY <1>2, TailFacts
<1>4. remaining' = [remaining EXCEPT ![h] = ParentCount(h)] /\ ParentCount(h) \in Nat
  BY <1>2, <1>3, ParentsFacts DEF BuildNode
<1>5. remaining' \in [Tasks -> Nat]
      /\ \A t \in Tasks : remaining'[t] = IF t = h THEN ParentCount(h) ELSE remaining[t]
  BY <1>1, <1>4 DEF TypeOK
<1>6. /\ main' \in [pc : BusyPcs \cup {"idle", "build", "join"}, todo : Seq(Tasks), epoch : Nat]
      /\ main'.pc = "build" /\ main'.todo = Tail(s)
  BY <1>1, <1>2, <1>3 DEF TypeOK, BuildNode
<1>7. UNCHANGED <<running, registry, currentPhase, readyQueue, active, epoch, worker, executed,
                  state, nextPhase>>
  BY DEF BuildNode, pipelineVars
<1>8. TypeOK'
  BY <1>1, <1>5, <1>6, <1>7 DEF TypeOK
<1>9. ~Busy' /\ Holders' = {} /\ readyQueue' = << >> /\ active' = 0
  BY <1>1, <1>6, <1>7 DEF Busy, BusyPcs, Holders
<1>10. \A t \in Tasks : t \in Elements(main'.todo) \/ remaining'[t] = ParentCount(t)
  BY <1>1, <1>2, <1>3, <1>5, <1>6
<1>11. Between'
  BY <1>1, <1>6, <1>7, <1>9, <1>10 DEF Between
<1> QED
  BY <1>8, <1>9, <1>11, QuietFrame

LEMMA BuildDoneInv ==
    ASSUME PipelineInv, BuildDone, UNCHANGED pipelineVars
    PROVE  PipelineInv'
<1>1. /\ ~Busy /\ readyQueue = << >> /\ Holders = {} /\ active = 0 /\ TypeOK
      /\ main.pc = "build" /\ state = "Running" /\ running
      /\ currentPhase = InputPhase /\ nextPhase = 1 /\ Tasks \subseteq registry
      /\ \A t \in Tasks : executed[t] = 0
      /\ \A t \in Tasks : t \in Elements(main.todo) \/ remaining[t] = ParentCount(t)
  BY BuildFacts DEF BuildDone
<1>2. \A t \in Tasks : remaining[t] = ParentCount(t)
  <2>1. main.todo = << >>
    BY DEF BuildDone
  <2> QED
    BY <1>1, <2>1, EmptyFacts
<1>3. PhaseNodes(InputPhase) \in Seq(Tasks)
  BY SizeFacts, PhaseNodesFacts
<1>4. /\ main' \in [pc : BusyPcs \cup {"idle", "build", "join"}, todo : Seq(Tasks), epoch : Nat]
      /\ main'.pc = "seed" /\ main'.todo = PhaseNodes(InputPhase)
  BY <1>1, <1>3 DEF TypeOK, BuildDone, BusyPcs
<1>5. UNCHANGED <<running, registry, currentPhase, remaining, readyQueue, active, epoch, worker,
                  executed, state, nextPhase>>
  BY DEF BuildDone, pipelineVars
<1>6. TypeOK'
  BY <1>1, <1>4, <1>5 DEF TypeOK
<1>7. Holders' = {} /\ readyQueue' = << >> /\ active' = 0 /\ Busy'
  BY <1>1, <1>4, <1>5 DEF Holders, Busy, BusyPcs
<1>8. CountedDown'
  <2>1. \A t \in Tasks : Pending(t)' = Parents(t)
    <3>1. \A t \in Tasks : \A p \in Parents(t) : executed'[p] = 0
      BY <1>1, <1>5 DEF Parents
    <3> QED
      BY <3>1 DEF Pending
  <2> QED
    BY <1>2, <1>5, <2>1 DEF CountedDown, ParentCount
<1>9. \A t \in Tasks : executed'[t] = IF PhaseOf[t] < currentPhase' THEN 1 ELSE 0
  <2>1. \A t \in Tasks : PhaseOf[t] \in Nat
    BY SizeFacts DEF Phases
  <2> QED
    BY <1>1, <1>5, <2>1 DEF InputPhase
<1>10. Between'
  <2>1. nextPhase' = currentPhase' + 1
    BY <1>1, <1>5 DEF InputPhase
  <2> QED
    BY <1>1, <1>4, <1>5, <1>7, <1>8, <2>1 DEF Between
<1> QED
  BY <1>1, <1>4, <1>5, <1>6, <1>7, <1>9, <1>10, SeedStart

----------------------------------------------------------------------------
(* SeedReadyQueue: every edge leaves its phase, so every node of the       *)
(* phase is ready at once.                                                 *)

LEMMA ReadyAtOnce ==
    ASSUME Crossing, PipelineInv, Busy, NEW t \in Tasks, PhaseOf[t] = currentPhase
    PROVE  remaining[t] = 0 /\ \A p \in Parents(t) : executed[p] = 1
<1>1. \A p \in Parents(t) : p \in Tasks /\ PhaseOf[p] < currentPhase
  BY DEF Crossing, Parents
<1>2. \A p \in Parents(t) : executed[p] = 1
  BY <1>1 DEF PipelineInv, Ran
<1>3. \A w \in Holders : worker[w].task \notin Parents(t)
  <2>1. \A w \in Holders : PhaseOf[worker[w].task] = currentPhase /\ currentPhase \in Int
    BY SizeFacts DEF PipelineInv, TypeOK, Held, HeldBy, Phases
  <2>2. currentPhase \in Int => ~(currentPhase < currentPhase)
    OBVIOUS
  <2> QED
    BY <1>1, <2>1, <2>2
<1>4. Pending(t) = {}
  BY <1>2, <1>3 DEF Pending
<1> QED
  BY <1>2, <1>4, FS_EmptySet DEF PipelineInv, Between, CountedDown

LEMMA SeedFacts ==
    ASSUME PipelineInv, main.pc \in {"seed", "seedEnqueue", "seedAdd"}, main.todo # << >>
    PROVE  /\ Busy /\ main.todo \in Seq(Tasks) /\ Len(main.todo) \in Nat /\ Len(main.todo) > 0
           /\ Head(main.todo) \in Tasks /\ Tail(main.todo) \in Seq(Tasks)
           /\ Len(Tail(main.todo)) = Len(main.todo) - 1
           /\ Elements(main.todo) = {Head(main.todo)} \cup Elements(Tail(main.todo))
           /\ Distinct(main.todo) => /\ Distinct(Tail(main.todo))
                                     /\ Head(main.todo) \notin Elements(Tail(main.todo))
<1>1. main.todo \in Seq(Tasks) /\ Busy
  BY DEF PipelineInv, TypeOK, Busy, BusyPcs
<1> QED
  BY <1>1, TailFacts

LEMMA SeedCheckInv ==
    ASSUME Crossing, PipelineInv, SeedCheck, UNCHANGED pipelineVars
    PROVE  PipelineInv'
<1>1. main.pc = "seed" /\ main.todo # << >>
  BY DEF SeedCheck, MainAt
<1>2. /\ Busy /\ Head(main.todo) \in Tasks /\ Head(main.todo) \in Elements(main.todo)
      /\ ToSeed = main.todo
  BY <1>1, SeedFacts DEF ToSeed
<1>3. PhaseOf[Head(main.todo)] = currentPhase
  BY <1>2 DEF PipelineInv, Unseeded
<1>4. remaining[Head(main.todo)] = 0
  BY <1>2, <1>3, ReadyAtOnce
<1> QED
  BY <1>4, BarrierMoveInv

\* The queue has room: what it holds was among the nodes to look at.
LEMMA SeedRoom ==
    ASSUME PipelineInv, MainAt("seedEnqueue")
    PROVE  Len(readyQueue) < QueueCapacity
<1>1. main.pc = "seedEnqueue" /\ main.todo # << >>
  BY DEF PipelineInv, Seeding, MainAt
<1>2. Busy /\ ToSeed = main.todo /\ Len(main.todo) \in Nat /\ Len(main.todo) > 0
  BY <1>1, SeedFacts DEF ToSeed
<1>3. Len(readyQueue) + Cardinality(Holders) + Len(main.todo) <= Len(PhaseOf)
  BY <1>2 DEF PipelineInv, Room
<1>4. Len(readyQueue) \in Nat
  BY DEF PipelineInv, TypeOK
<1> QED
  BY <1>2, <1>3, <1>4, HoldersFinite, SizeFacts

LEMMA SeedEnqueueInv ==
    ASSUME PipelineInv, SeedEnqueue, UNCHANGED pipelineVars
    PROVE  PipelineInv'
<1>1. main.pc = "seedEnqueue" /\ main.todo # << >> /\ Len(readyQueue) < QueueCapacity
  BY SeedRoom DEF SeedEnqueue, PipelineInv, Seeding, MainAt
<1>2. /\ Busy /\ main.todo \in Seq(Tasks) /\ Len(main.todo) \in Nat /\ Len(main.todo) > 0
      /\ Head(main.todo) \in Tasks /\ Tail(main.todo) \in Seq(Tasks)
      /\ Len(Tail(main.todo)) = Len(main.todo) - 1
      /\ Elements(main.todo) = {Head(main.todo)} \cup Elements(Tail(main.todo))
      /\ Distinct(main.todo) => /\ Distinct(Tail(main.todo))
                                /\ Head(main.todo) \notin Elements(Tail(main.todo))
  BY <1>1, SeedFacts
<1>3. PICK h \in Tasks : h = Head(main.todo)
  BY <1>2
<1>4. TypeOK /\ readyQueue \in Seq(Tasks)
  BY DEF PipelineInv, TypeOK
<1>5. readyQueue' = Append(readyQueue, h)
  BY <1>1, <1>3 DEF SeedEnqueue, EnqueueReady
<1>6. /\ readyQueue' \in Seq(Tasks) /\ Len(readyQueue') = Len(readyQueue) + 1
      /\ Len(readyQueue) \in Nat
      /\ Elements(readyQueue') = Elements(readyQueue) \cup {h}
      /\ Distinct(readyQueue) /\ h \notin Elements(readyQueue) => Distinct(readyQueue')
  BY <1>4, <1>5, AppendFacts
<1>7. /\ main' \in [pc : BusyPcs \cup {"idle", "build", "join"}, todo : Seq(Tasks), epoch : Nat]
      /\ main'.pc = "seedAdd" /\ main'.todo = main.todo
  BY <1>4 DEF SeedEnqueue, MainGoto, TypeOK, BusyPcs
<1>8. UNCHANGED <<running, registry, currentPhase, remaining, active, epoch, worker, executed,
                  state, nextPhase>>
  BY DEF SeedEnqueue, pipelineVars
<1>9. Holders' = Holders /\ \A t \in Tasks : Pending(t)' = Pending(t)
  BY <1>8 DEF Holders, Pending
<1>10. Busy' /\ ToSeed = main.todo /\ ToSeed' = Tail(main.todo) /\ Lag = 0 /\ Lag' = 1
  BY <1>1, <1>7 DEF Busy, BusyPcs, ToSeed, Lag
<1>11. TypeOK'
  BY <1>4, <1>6, <1>7, <1>8 DEF TypeOK
<1>12. Quiet' /\ Seeding'
  BY <1>1, <1>7, <1>10 DEF Quiet, Seeding, WaitPcs
<1>13. Balance' /\ Room'
  <2>1. active \in Nat /\ Modulus \in Nat
    BY <1>4, SizeFacts DEF TypeOK
  <2>2. Balance'
    BY <1>6, <1>8, <1>9, <1>10, <2>1, HoldersFinite, SMTT(30) DEF PipelineInv, Balance
  <2>3. Room'
    BY <1>2, <1>6, <1>9, <1>10, HoldersFinite, SizeFacts DEF PipelineInv, Room
  <2> QED
    BY <2>2, <2>3
<1>14. Held' /\ Apart'
  BY <1>8, <1>9 DEF PipelineInv, Held, Apart
<1>15. /\ Distinct(ToSeed) /\ PhaseOf[h] = currentPhase /\ executed[h] = 0
       /\ h \notin Elements(readyQueue) /\ \A w \in Holders : worker[w].task # h
  BY <1>2, <1>3, <1>10 DEF PipelineInv, Unseeded
<1>16. Queued'
  BY <1>6, <1>8, <1>9, <1>15 DEF PipelineInv, Queued
<1>17. Unseeded'
  BY <1>2, <1>3, <1>6, <1>8, <1>9, <1>10, <1>15 DEF PipelineInv, Unseeded
<1>18. Ran'
  BY <1>2, <1>3, <1>6, <1>8, <1>9, <1>10 DEF PipelineInv, Ran
<1>19. CountedDown'
  BY <1>2, <1>8, <1>9 DEF PipelineInv, Between, CountedDown
<1>20. Between'
  BY <1>2, <1>7, <1>8, <1>19 DEF PipelineInv, Between
<1> QED
  BY <1>11, <1>12, <1>13, <1>14, <1>16, <1>17, <1>18, <1>20 DEF PipelineInv

\* The count catches up with the Enqueue.
LEMMA SeedAddInv ==
    ASSUME PipelineInv, SeedAdd, UNCHANGED pipelineVars
    PROVE  PipelineInv'
<1>1. main.pc = "seedAdd" /\ main.todo # << >>
  BY DEF SeedAdd, PipelineInv, Seeding, MainAt
<1>2. /\ Busy /\ main.todo \in Seq(Tasks) /\ Len(main.todo) \in Nat /\ Len(main.todo) > 0
      /\ Tail(main.todo) \in Seq(Tasks) /\ Len(Tail(main.todo)) \in Nat
  BY <1>1, SeedFacts
<1>3. TypeOK
  BY DEF PipelineInv
<1>4. /\ main' \in [pc : BusyPcs \cup {"idle", "build", "join"}, todo : Seq(Tasks), epoch : Nat]
      /\ main'.pc = "seed" /\ main'.todo = Tail(main.todo)
  BY <1>2, <1>3 DEF SeedAdd, TypeOK, BusyPcs
<1>5. UNCHANGED <<running, registry, currentPhase, remaining, readyQueue, epoch, worker, executed,
                  state, nextPhase>>
  BY DEF SeedAdd, pipelineVars
<1>6. Holders' = Holders /\ \A t \in Tasks : Pending(t)' = Pending(t)
  BY <1>5 DEF Holders, Pending
<1>7. Busy' /\ ToSeed = Tail(main.todo) /\ ToSeed' = ToSeed /\ Lag = 1 /\ Lag' = 0
  BY <1>1, <1>4 DEF Busy, BusyPcs, ToSeed, Lag
<1>8. active \in 0 .. Modulus - 1 /\ Modulus \in Nat /\ active' = Inc(active)
  BY <1>3, SizeFacts DEF TypeOK, SeedAdd
<1>9. PICK a \in 0 .. Modulus - 1 : a = active' /\ (a = active + 1 \/ a = active + 1 - Modulus)
  BY <1>8, IncFacts
<1>10. TypeOK'
  BY <1>3, <1>4, <1>5, <1>9 DEF TypeOK
<1>11. Quiet' /\ Seeding'
  BY <1>4, <1>7 DEF Quiet, Seeding, WaitPcs
<1>12. Balance' /\ Room'
  <2>1. PICK total \in Nat : total = Len(readyQueue) + Cardinality(Holders)
    BY <1>3, HoldersFinite DEF TypeOK
  <2>2. total + Len(Tail(main.todo)) <= Len(PhaseOf)
    BY <1>2, <1>7, <2>1 DEF PipelineInv, Room
  <2>3. total < Modulus
    BY <1>2, <2>2, SizeFacts
  <2>4. active + 1 = total \/ active + 1 = total + Modulus
    BY <1>7, <2>1 DEF PipelineInv, Balance
  <2>5. a = total
    BY <1>8, <1>9, <2>3, <2>4
  <2> QED
    BY <1>5, <1>6, <1>7, <1>9, <2>1, <2>2, <2>5 DEF Balance, Room
<1>13. Held' /\ Apart' /\ Queued'
  BY <1>5, <1>6 DEF PipelineInv, Held, Apart, Queued
<1>14. Unseeded'
  BY <1>2, <1>5, <1>6, <1>7 DEF PipelineInv, Unseeded
<1>15. Ran'
  BY <1>2, <1>5, <1>6, <1>7 DEF PipelineInv, Ran
<1>16. CountedDown'
  BY <1>2, <1>5, <1>6 DEF PipelineInv, Between, CountedDown
<1>17. Between'
  BY <1>2, <1>4, <1>5, <1>16 DEF PipelineInv, Between
<1> QED
  BY <1>10, <1>11, <1>12, <1>13, <1>14, <1>15, <1>17 DEF PipelineInv

----------------------------------------------------------------------------
(* The barrier: a count of zero means that nothing is queued or held.      *)

LEMMA CountZero ==
    ASSUME PipelineInv, main.pc \in WaitPcs, active = 0
    PROVE  readyQueue = << >> /\ Holders = {}
<1>1. Busy /\ Lag = 0 /\ ToSeed = main.todo /\ main.todo \in Seq(Tasks) /\ TypeOK
  BY DEF Busy, BusyPcs, WaitPcs, Lag, ToSeed, PipelineInv, TypeOK
<1>2. PICK total \in Nat : total = Len(readyQueue) + Cardinality(Holders)
  BY <1>1, HoldersFinite DEF TypeOK
<1>3. 0 = total \/ 0 = total + Modulus
  BY <1>1, <1>2 DEF PipelineInv, Balance
<1>4. total = 0
  BY <1>3, SizeFacts
<1>5. Len(readyQueue) \in Nat /\ Len(readyQueue) = 0 /\ Cardinality(Holders) = 0
  BY <1>1, <1>2, <1>4, HoldersFinite DEF TypeOK
<1> QED
  BY <1>1, <1>5, HoldersFinite, FS_EmptySet DEF TypeOK

LEMMA BarrierInv ==
    ASSUME PipelineInv, (WaitActive \/ WaitRecheck) /\ active = 0, UNCHANGED pipelineVars
    PROVE  PipelineInv'
<1>1. main.pc \in WaitPcs /\ Busy /\ TypeOK /\ main.pc # "seedAdd" /\ main.todo = << >>
  BY DEF WaitActive, WaitRecheck, MainAt, WaitPcs, Busy, BusyPcs, PipelineInv, Seeding
<1>2. readyQueue = << >> /\ Holders = {}
  BY <1>1, CountZero
<1>3. UNCHANGED <<running, registry, currentPhase, remaining, readyQueue, active, epoch, worker,
                  executed, state, nextPhase>>
  BY DEF WaitActive, WaitRecheck, pipelineVars
<1>4. /\ main' \in [pc : BusyPcs \cup {"idle", "build", "join"}, todo : Seq(Tasks), epoch : Nat]
      /\ main'.pc = "idle"
  <2>1. main' = IdleMain
    BY DEF WaitActive, WaitRecheck
  <2> QED
    BY <2>1, EmptyFacts DEF IdleMain
<1>5. ~Busy' /\ readyQueue' = << >> /\ Holders' = {} /\ active' = 0
  BY <1>2, <1>3, <1>4 DEF Busy, BusyPcs, Holders, WaitActive, WaitRecheck
<1>6. TypeOK'
  BY <1>1, <1>3, <1>4 DEF TypeOK
<1>7. /\ state = "Running" /\ running /\ nextPhase = currentPhase + 1 /\ CountedDown
      /\ Tasks \subseteq registry
  BY <1>1 DEF PipelineInv, Between
<1>8. CountedDown'
  <2>1. \A t \in Tasks : Pending(t)' = Pending(t)
    BY <1>2, <1>3, <1>5 DEF Pending
  <2> QED
    BY <1>3, <1>7, <2>1 DEF CountedDown
<1>9. \A t \in Tasks : executed[t] = IF PhaseOf[t] <= currentPhase THEN 1 ELSE 0
  <2>1. \A t \in Tasks : PhaseOf[t] \in Nat /\ currentPhase \in Nat
    BY <1>1, SizeFacts DEF TypeOK, Phases
  <2>2. ToSeed = << >>
    BY <1>1 DEF ToSeed
  <2>3. \A t \in Tasks :
            /\ PhaseOf[t] < currentPhase => executed[t] = 1
            /\ PhaseOf[t] > currentPhase => executed[t] = 0
            /\ PhaseOf[t] = currentPhase => executed[t] = 1
    BY <1>1, <1>2, <2>2, EmptyFacts DEF PipelineInv, Ran
  <2> QED
    BY <2>1, <2>3
<1>10. Between'
  BY <1>3, <1>4, <1>5, <1>7, <1>8, <1>9 DEF Between
<1> QED
  BY <1>5, <1>6, <1>10, QuietFrame

----------------------------------------------------------------------------
(* A worker with a task.                                                   *)

\* The main thread is at its work while a task is queued or held.
LEMMA BusyFacts ==
    ASSUME PipelineInv, readyQueue # << >> \/ Holders # {}
    PROVE  /\ Busy /\ TypeOK /\ worker \in [Workers -> WorkerRecord] /\ running
           /\ readyQueue \in Seq(Tasks) /\ Len(readyQueue) \in Nat
           /\ Tasks \subseteq registry /\ CountedDown
           /\ \A t \in Tasks : PhaseOf[t] \in Nat /\ currentPhase \in Nat
BY SizeFacts DEF PipelineInv, Quiet, TypeOK, Between, Phases

\* What a worker's step has to show when the main thread does not move.
LEMMA BusyFrame ==
    ASSUME PipelineInv, Busy, TypeOK',
           UNCHANGED <<main, running, registry, currentPhase, state, nextPhase>>,
           Balance', Room', Held', Apart', Queued', Unseeded', Ran', CountedDown'
    PROVE  PipelineInv'
<1>1. Busy' /\ main.pc \notin {"idle", "build", "join"}
  BY DEF Busy, BusyPcs
<1>2. Quiet' /\ Seeding'
  BY <1>1 DEF PipelineInv, Quiet, Seeding
<1>3. Between'
  BY <1>1 DEF PipelineInv, Between
<1> QED
  BY <1>2, <1>3 DEF PipelineInv

LEMMA DequeueInv ==
    ASSUME PipelineInv, UNCHANGED pipelineVars, NEW w \in Workers, Dequeue(w), readyQueue # << >>
    PROVE  PipelineInv'
<1>1. /\ Busy /\ TypeOK /\ worker \in [Workers -> WorkerRecord] /\ running
      /\ readyQueue \in Seq(Tasks) /\ Len(readyQueue) \in Nat
      /\ Tasks \subseteq registry /\ CountedDown
      /\ \A t \in Tasks : PhaseOf[t] \in Nat /\ currentPhase \in Nat
  BY BusyFacts
<1>2. Balance /\ Room /\ Held /\ Apart /\ Queued /\ Unseeded /\ Ran
  BY DEF PipelineInv
<1>3. PICK h \in Tasks : h = Head(readyQueue)
  BY <1>1, TailFacts
<1>4. /\ Tail(readyQueue) \in Seq(Tasks)
      /\ Len(Tail(readyQueue)) = Len(readyQueue) - 1 /\ Len(readyQueue) > 0
      /\ Elements(readyQueue) = {h} \cup Elements(Tail(readyQueue))
      /\ Distinct(readyQueue) => /\ Distinct(Tail(readyQueue))
                                 /\ h \notin Elements(Tail(readyQueue))
  BY <1>1, <1>3, TailFacts
<1>5. /\ PhaseOf[h] = currentPhase /\ executed[h] = 0 /\ \A v \in Holders : worker[v].task # h
      /\ Distinct(Tail(readyQueue)) /\ h \notin Elements(Tail(readyQueue))
  <2>1. h \in Elements(readyQueue)
    BY <1>4
  <2> QED
    BY <1>2, <1>4, <2>1, Zenon DEF Queued
<1>6. PICK r \in WorkerRecord :
          /\ worker' = [worker EXCEPT ![w] = r] /\ r.pc = "execute" /\ r.task = h
  <2> DEFINE r == [worker[w] EXCEPT !.pc = "execute", !.task = h]
  <2>1. worker[w] \in WorkerRecord
    BY <1>1
  <2>2. r \in WorkerRecord /\ r.pc = "execute" /\ r.task = h
    BY <2>1 DEF WorkerRecord
  <2>3. worker' = [worker EXCEPT ![w].pc = "execute", ![w].task = h]
    BY <1>3 DEF Dequeue
  <2>4. worker' = [worker EXCEPT ![w] = r]
    BY <1>1, <2>1, <2>3
  <2> QED
    BY <2>2, <2>4
<1>7. /\ worker' \in [Workers -> WorkerRecord] /\ worker'[w] = r
      /\ \A v \in Workers : v # w => worker'[v] = worker[v]
      /\ Holders' = Holders \cup {w}
  BY <1>1, <1>6, WorkerStepFacts DEF HolderPcs
<1>8. w \notin Holders /\ Holders \subseteq Workers
  BY DEF Dequeue, WorkerAt, Holders
<1>9. /\ readyQueue' = Tail(readyQueue)
      /\ UNCHANGED <<main, running, registry, currentPhase, state, nextPhase, remaining, active,
                     epoch, executed>>
  BY DEF Dequeue, pipelineVars
<1>10. ToSeed' = ToSeed /\ Lag' = Lag
  BY <1>9 DEF ToSeed, Lag
<1>11. \A v \in Holders' : (v = w /\ worker'[v] = r) \/ (v \in Holders /\ worker'[v] = worker[v])
  BY <1>7, <1>8
<1>12. \A v \in Holders : v \in Holders' /\ worker'[v] = worker[v]
  BY <1>7, <1>8
<1>13. TypeOK'
  BY <1>1, <1>4, <1>7, <1>9 DEF TypeOK
<1>14. Cardinality(Holders') = Cardinality(Holders) + 1
  BY <1>7, <1>8, HoldersFinite, FS_AddElement
<1>15. Len(readyQueue') + Cardinality(Holders') = Len(readyQueue) + Cardinality(Holders)
  BY <1>1, <1>4, <1>9, <1>14, HoldersFinite
<1>16. Balance'
  BY <1>2, <1>9, <1>10, <1>15 DEF Balance
<1>17. Room'
  BY <1>1, <1>2, <1>10, <1>15 DEF Room
<1>18. Held'
  <2>1. HeldBy(r, currentPhase, executed)
    BY <1>5, <1>6 DEF HeldBy
  <2> QED
    BY <1>2, <1>9, <1>11, <2>1 DEF Held
<1>19. Apart'
  BY <1>2, <1>5, <1>6, <1>11 DEF Apart
<1>20. Queued'
  BY <1>2, <1>4, <1>5, <1>6, <1>9, <1>11 DEF Queued
<1>21. Unseeded'
  BY <1>1, <1>2, <1>4, <1>6, <1>9, <1>10, <1>11 DEF Unseeded
<1>22. Ran'
  <2> SUFFICES ASSUME NEW t \in Tasks
               PROVE  /\ PhaseOf[t] < currentPhase => executed[t] = 1
                      /\ PhaseOf[t] > currentPhase => executed[t] = 0
                      /\ PhaseOf[t] = currentPhase =>
                            \/ t \in Elements(ToSeed) \cup Elements(readyQueue')
                            \/ \E v \in Holders' : worker'[v].pc = "execute" /\ worker'[v].task = t
                            \/ executed[t] = 1
    BY <1>9, <1>10 DEF Ran
  <2>1. w \in Holders' /\ worker'[w].pc = "execute" /\ worker'[w].task = h
    BY <1>6, <1>7
  <2>2. CASE t = h
    BY <1>1, <1>5, <2>1, <2>2
  <2>3. CASE t # h
    BY <1>1, <1>2, <1>4, <1>9, <1>12, <2>3 DEF Ran
  <2> QED
    BY <2>2, <2>3
<1>23. CountedDown'
  <2>1. \A t \in Tasks : Pending(t)' = Pending(t)
    <3>1. r.pc # "release" /\ r.pc # "child"
      BY <1>6
    <3> QED
      BY <1>9, <1>11, <1>12, <3>1 DEF Pending, Owes
  <2> QED
    BY <1>1, <1>9, <2>1 DEF CountedDown
<1> QED
  BY <1>1, <1>9, <1>13, <1>16, <1>17, <1>18, <1>19, <1>20, <1>21, <1>22, <1>23, BusyFrame

\* A worker goes on with the task that it holds.
LEMMA HolderStays ==
    ASSUME PipelineInv, NEW w \in Workers, worker[w].pc \in HolderPcs, NEW r \in WorkerRecord,
           worker' = [worker EXCEPT ![w] = r], r.pc \in HolderPcs, r.task = worker[w].task,
           UNCHANGED <<main, readyQueue, active>>
    PROVE  /\ w \in Holders /\ Busy /\ Holders' = Holders /\ Holders \subseteq Workers
           /\ worker' \in [Workers -> WorkerRecord] /\ worker'[w] = r
           /\ \A v \in Holders : v # w => worker'[v] = worker[v]
           /\ \A v \in Holders : worker'[v].task = worker[v].task
           /\ \A v \in Holders : v # w => worker[v].task # r.task
           /\ ToSeed' = ToSeed /\ Balance' /\ Room' /\ Apart'
           /\ HeldBy(worker[w], currentPhase, executed) /\ r.task \in Tasks
<1>1. w \in Holders /\ Holders \subseteq Workers
  BY DEF Holders, HolderPcs
<1>2. Busy /\ worker \in [Workers -> WorkerRecord]
  BY <1>1, BusyFacts
<1>3. /\ worker' \in [Workers -> WorkerRecord] /\ worker'[w] = r
      /\ \A v \in Workers : v # w => worker'[v] = worker[v]
      /\ Holders' = Holders \cup {w}
  BY <1>2, WorkerStepFacts
<1>4. Holders' = Holders
  BY <1>1, <1>3
<1>5. \A v \in Holders : worker'[v].task = worker[v].task
  BY <1>1, <1>3
<1>6. ToSeed' = ToSeed /\ Lag' = Lag
  BY DEF ToSeed, Lag
<1>7. Balance' /\ Room'
  BY <1>2, <1>4, <1>6 DEF PipelineInv, Balance, Room
<1>8. Apart'
  BY <1>4, <1>5 DEF PipelineInv, Apart
<1>9. HeldBy(worker[w], currentPhase, executed)
  BY <1>1 DEF PipelineInv, Held
<1>10. \A v \in Holders : v # w => worker[v].task # r.task
  BY <1>1 DEF PipelineInv, Apart
<1>11. r.task \in Tasks
  BY <1>9 DEF HeldBy
<1>12. \A v \in Holders : v # w => worker'[v] = worker[v]
  BY <1>1, <1>3
<1> QED
  BY <1>1, <1>2, <1>3, <1>4, <1>5, <1>6, <1>7, <1>8, <1>9, <1>10, <1>11, <1>12

LEMMA ExecuteTaskInv ==
    ASSUME PipelineInv, UNCHANGED pipelineVars, NEW w \in Workers, ExecuteTask(w)
    PROVE  PipelineInv'
<1>1. worker[w].pc = "execute"
  BY DEF ExecuteTask, WorkerAt
<1>2. worker \in [Workers -> WorkerRecord] /\ TypeOK
  BY DEF PipelineInv, TypeOK
<1>3. PICK r \in WorkerRecord :
          worker' = [worker EXCEPT ![w] = r] /\ r.pc = "release" /\ r.task = worker[w].task
  BY <1>2, WorkerGotoFacts DEF ExecuteTask, WorkerPcs
<1>4. UNCHANGED <<main, running, registry, currentPhase, state, nextPhase, remaining, active,
                  epoch, readyQueue>>
  BY DEF ExecuteTask, pipelineVars
<1>5. /\ w \in Holders /\ Busy /\ Holders' = Holders /\ Holders \subseteq Workers
      /\ worker' \in [Workers -> WorkerRecord] /\ worker'[w] = r
      /\ \A v \in Holders : v # w => worker'[v] = worker[v]
      /\ \A v \in Holders : worker'[v].task = worker[v].task
      /\ \A v \in Holders : v # w => worker[v].task # r.task
      /\ ToSeed' = ToSeed /\ Balance' /\ Room' /\ Apart'
      /\ HeldBy(worker[w], currentPhase, executed) /\ r.task \in Tasks
  BY <1>1, <1>3, <1>4, HolderStays DEF HolderPcs
<1>6. /\ Tasks \subseteq registry /\ CountedDown
  BY <1>5, BusyFacts
<1>7. PICK k \in Tasks : k = r.task /\ executed[k] = 0 /\ PhaseOf[k] = currentPhase
  BY <1>1, <1>3, <1>5 DEF HeldBy
<1>8. /\ executed' \in [Tasks -> Nat] /\ executed'[k] = 1
      /\ \A t \in Tasks : t # k => executed'[t] = executed[t]
  <2>1. executed' = [executed EXCEPT ![k] = executed[k] + 1]
    BY <1>3, <1>6, <1>7 DEF ExecuteTask, IsRegistered
  <2> QED
    BY <1>2, <1>7, <2>1 DEF TypeOK
<1>9. TypeOK'
  BY <1>2, <1>4, <1>5, <1>8 DEF TypeOK
<1>10. Held /\ Queued /\ Unseeded /\ Ran /\ readyQueue \in Seq(Tasks)
  BY DEF PipelineInv, TypeOK
<1>11. Held'
  <2>1. HeldBy(r, currentPhase, executed')
    BY <1>3, <1>7, <1>8 DEF HeldBy
  <2>2. ASSUME NEW v \in Holders, v # w PROVE HeldBy(worker[v], currentPhase, executed')
    <3>1. HeldBy(worker[v], currentPhase, executed) /\ worker[v].task # k
      BY <1>5, <1>7, <1>10, <2>2 DEF Held
    <3> QED
      BY <1>8, <3>1 DEF HeldBy
  <2> QED
    BY <1>4, <1>5, <2>1, <2>2 DEF Held
<1>12. Queued'
  <2>1. k \notin Elements(readyQueue)
    BY <1>3, <1>5, <1>7, <1>10 DEF Queued
  <2>2. Elements(readyQueue) \subseteq Tasks
    BY <1>10 DEF Elements
  <2> QED
    BY <1>4, <1>5, <1>8, <1>10, <2>1, <2>2 DEF Queued
<1>13. Unseeded'
  <2>1. k \notin Elements(ToSeed)
    BY <1>3, <1>5, <1>7, <1>10 DEF Unseeded
  <2>2. ToSeed \in Seq(Tasks)
    <3>1. main.todo \in Seq(Tasks)
      BY <1>2 DEF TypeOK
    <3>2. main.pc = "seedAdd" => main.todo # << >>
      BY DEF PipelineInv, Seeding
    <3> QED
      BY <3>1, <3>2, TailFacts DEF ToSeed
  <2>3. Elements(ToSeed) \subseteq Tasks
    BY <2>2 DEF Elements
  <2> QED
    BY <1>4, <1>5, <1>8, <1>10, <2>1, <2>3 DEF Unseeded
<1>14. Ran'
  <2> SUFFICES ASSUME NEW t \in Tasks
               PROVE  /\ PhaseOf[t] < currentPhase => executed'[t] = 1
                      /\ PhaseOf[t] > currentPhase => executed'[t] = 0
                      /\ PhaseOf[t] = currentPhase =>
                            \/ t \in Elements(ToSeed) \cup Elements(readyQueue)
                            \/ \E v \in Holders : worker'[v].pc = "execute" /\ worker'[v].task = t
                            \/ executed'[t] = 1
    BY <1>4, <1>5 DEF Ran
  <2>1. CASE t = k
    <3>1. currentPhase \in Int
      BY <1>2, SizeFacts DEF TypeOK, Phases
    <3>2. ~(currentPhase < currentPhase) /\ ~(currentPhase > currentPhase)
      BY <3>1
    <3> QED
      BY <1>7, <1>8, <2>1, <3>2
  <2>2. CASE t # k
    <3>1. \A v \in Holders : worker[v].task = t => worker'[v] = worker[v]
      BY <1>3, <1>5, <1>7, <2>2
    <3> QED
      BY <1>5, <1>8, <1>10, <2>2, <3>1, SMTT(30) DEF Ran
  <2> QED
    BY <2>1, <2>2
<1>15. CountedDown'
  <2>1. ASSUME NEW t \in Tasks PROVE Pending(t)' = Pending(t)
    <3>1. \A v \in Holders : worker[v].task # k => worker'[v] = worker[v]
      BY <1>3, <1>5, <1>7
    <3>2. worker'[w].task = k /\ Owes(worker'[w], t)
      BY <1>3, <1>5, <1>7 DEF Owes
    <3>3. Parents(t) \subseteq Tasks
      BY DEF Parents
    <3> QED
      BY <1>5, <1>7, <1>8, <3>1, <3>2, <3>3 DEF Pending
  <2> QED
    BY <1>4, <1>6, <2>1 DEF CountedDown
<1> QED
  BY <1>4, <1>5, <1>9, <1>11, <1>12, <1>13, <1>14, <1>15, BusyFrame

\* A worker behind its task's execution: what is left to show is its record
\* and the countdown.
LEMMA ReleasingFrame ==
    ASSUME PipelineInv, NEW w \in Workers, worker[w].pc \in {"release", "child"},
           NEW r \in WorkerRecord, worker' = [worker EXCEPT ![w] = r],
           r.pc = "child", r.task = worker[w].task,
           UNCHANGED <<main, running, registry, currentPhase, state, nextPhase, active, epoch,
                       readyQueue, executed>>,
           remaining' \in [Tasks -> Nat], HeldBy(r, currentPhase, executed), CountedDown'
    PROVE  PipelineInv'
<1>1. /\ w \in Holders /\ Busy /\ Holders' = Holders /\ Holders \subseteq Workers
      /\ worker' \in [Workers -> WorkerRecord] /\ worker'[w] = r
      /\ \A v \in Holders : v # w => worker'[v] = worker[v]
      /\ \A v \in Holders : worker'[v].task = worker[v].task
      /\ ToSeed' = ToSeed /\ Balance' /\ Room' /\ Apart'
  BY HolderStays DEF HolderPcs
<1>2. TypeOK'
  BY <1>1 DEF PipelineInv, TypeOK
<1>3. Held /\ Queued /\ Unseeded /\ Ran
  BY DEF PipelineInv
<1>4. Held'
  BY <1>1, <1>3 DEF Held
<1>5. Queued' /\ Unseeded'
  BY <1>1, <1>3 DEF Queued, Unseeded
<1>6. Ran'
  <2>1. \A v \in Holders : worker[v].pc = "execute" => worker'[v] = worker[v]
    BY <1>1
  <2> QED
    BY <1>1, <1>3, <2>1 DEF Ran
<1> QED
  BY <1>1, <1>2, <1>4, <1>5, <1>6, BusyFrame

LEMMA ReleaseBeginInv ==
    ASSUME PipelineInv, UNCHANGED pipelineVars, NEW w \in Workers, ReleaseBegin(w)
    PROVE  PipelineInv'
<1>1. worker[w].pc = "release" /\ w \in Holders
  BY DEF ReleaseBegin, WorkerAt, Holders
<1>2. worker \in [Workers -> WorkerRecord] /\ TypeOK /\ Busy /\ CountedDown
  BY <1>1, BusyFacts
<1>3. HeldBy(worker[w], currentPhase, executed)
  BY <1>1 DEF PipelineInv, Held
<1>4. PICK k \in Tasks : k = worker[w].task /\ executed[k] = 1 /\ PhaseOf[k] = currentPhase
  BY <1>1, <1>3 DEF HeldBy
<1>5. /\ Children[k] \in Seq(Tasks) /\ Elements(Children[k]) = ChildSet(k)
      /\ Distinct(Children[k])
  BY GraphAssumption DEF Elements, ChildSet, Distinct
<1>6. PICK r \in WorkerRecord :
          /\ worker' = [worker EXCEPT ![w] = r] /\ r.pc = "child" /\ r.task = k
          /\ r.phase = currentPhase /\ r.todo = Children[k]
  <2> DEFINE r == [worker[w] EXCEPT !.pc = "child", !.phase = currentPhase, !.todo = Children[k]]
  <2>1. worker[w] \in WorkerRecord /\ currentPhase \in Phases
    BY <1>2 DEF TypeOK
  <2>2. /\ r \in WorkerRecord /\ r.pc = "child" /\ r.task = k
        /\ r.phase = currentPhase /\ r.todo = Children[k]
    BY <1>4, <1>5, <2>1 DEF WorkerRecord
  <2>3. worker' = [worker EXCEPT ![w].pc = "child", ![w].phase = currentPhase,
                                 ![w].todo = Children[k]]
    BY <1>4 DEF ReleaseBegin
  <2>4. worker' = [worker EXCEPT ![w] = r]
    BY <1>2, <2>1, <2>3
  <2> QED
    BY <2>2, <2>4
<1>7. UNCHANGED <<main, running, registry, currentPhase, state, nextPhase, active, epoch,
                  readyQueue, executed, remaining>>
  BY DEF ReleaseBegin, pipelineVars
<1>8. HeldBy(r, currentPhase, executed)
  BY <1>4, <1>5, <1>6 DEF HeldBy
<1>9. /\ Holders' = Holders
      /\ worker'[w] = r
      /\ \A v \in Holders : v # w => worker'[v] = worker[v]
  BY <1>1, <1>4, <1>6, <1>7, HolderStays DEF HolderPcs
<1>10. CountedDown'
  <2>1. ASSUME NEW t \in Tasks PROVE Pending(t)' = Pending(t)
    <3>1. k \in Parents(t) => Owes(worker[w], t) /\ Owes(r, t)
      BY <1>1, <1>5, <1>6 DEF Owes, Parents
    <3> QED
      BY <1>4, <1>6, <1>7, <1>9, <3>1 DEF Pending
  <2> QED
    BY <1>2, <1>7, <2>1 DEF CountedDown
<1>11. remaining' \in [Tasks -> Nat]
  BY <1>2, <1>7 DEF TypeOK
<1> QED
  BY <1>1, <1>4, <1>6, <1>7, <1>8, <1>10, <1>11, ReleasingFrame

\* The parents of a task, and what is left of them, are finite sets.
LEMMA PendingFacts ==
    \A t \in Tasks : /\ IsFiniteSet(Pending(t)) /\ Cardinality(Pending(t)) \in Nat
                     /\ Cardinality(Pending(t)) <= Len(PhaseOf)
<1> SUFFICES ASSUME NEW t \in Tasks
             PROVE  /\ IsFiniteSet(Pending(t)) /\ Cardinality(Pending(t)) \in Nat
                    /\ Cardinality(Pending(t)) <= Len(PhaseOf)
  OBVIOUS
<1>1. Pending(t) \in SUBSET Tasks
  BY DEF Pending, Parents
<1>2. IsFiniteSet(Pending(t)) /\ Cardinality(Pending(t)) <= Cardinality(Tasks)
  BY <1>1, SizeFacts, FS_Subset
<1> QED
  BY <1>2, SizeFacts, FS_CardinalityType

LEMMA ReleaseChildInv ==
    ASSUME Crossing, PipelineInv, UNCHANGED pipelineVars, NEW w \in Workers, ReleaseChild(w)
    PROVE  PipelineInv'
<1>1. worker[w].pc = "child" /\ w \in Holders /\ worker[w].todo # << >>
  BY DEF ReleaseChild, WorkerAt, Holders
<1>2. worker \in [Workers -> WorkerRecord] /\ TypeOK /\ Busy /\ CountedDown
      /\ remaining \in [Tasks -> Nat]
  BY <1>1, BusyFacts DEF TypeOK
<1>3. PICK q \in WorkerRecord : q = worker[w]
  BY <1>2
<1>4. HeldBy(q, currentPhase, executed) /\ q.pc = "child" /\ q.todo # << >>
      /\ q.todo \in Seq(Tasks)
  BY <1>1, <1>3 DEF PipelineInv, Held, WorkerRecord
<1>5. PICK c \in Tasks : c = Head(q.todo)
  BY <1>4, TailFacts
<1>6. /\ Tail(q.todo) \in Seq(Tasks) /\ Elements(q.todo) = {c} \cup Elements(Tail(q.todo))
      /\ Distinct(Tail(q.todo)) /\ c \notin Elements(Tail(q.todo))
  <2>1. Distinct(q.todo)
    BY <1>4 DEF HeldBy
  <2> QED
    BY <1>4, <1>5, <2>1, TailFacts
<1>7. /\ q.task \in Tasks /\ executed[q.task] = 1 /\ PhaseOf[q.task] = currentPhase
      /\ q.phase = currentPhase /\ c \in ChildSet(q.task)
  BY <1>4, <1>6 DEF HeldBy
<1>8. PhaseOf[c] # q.phase
  <2>1. PhaseOf[q.task] < PhaseOf[c]
    BY <1>7 DEF Crossing
  <2>2. PhaseOf[c] \in Int
    BY SizeFacts DEF Phases
  <2> QED
    BY <1>7, <2>1, <2>2
<1>9. remaining' = [remaining EXCEPT ![c] = Dec(remaining[c])]
  BY <1>3, <1>5 DEF ReleaseChild
<1>10. PICK r \in WorkerRecord :
          /\ worker' = [worker EXCEPT ![w] = r] /\ r.pc = "child" /\ r.task = q.task
          /\ r.phase = q.phase /\ r.todo = Tail(q.todo)
  <2> DEFINE r == [q EXCEPT !.todo = Tail(q.todo)]
  <2>1. /\ r \in WorkerRecord /\ r.pc = "child" /\ r.task = q.task
        /\ r.phase = q.phase /\ r.todo = Tail(q.todo)
    BY <1>4, <1>6 DEF WorkerRecord
  <2>2. worker' = [worker EXCEPT ![w] = r]
    BY <1>3, <1>5, <1>8 DEF ReleaseChild
  <2> QED
    BY <2>1, <2>2
<1>11. UNCHANGED <<main, running, registry, currentPhase, state, nextPhase, active, epoch,
                   readyQueue, executed>>
  BY DEF ReleaseChild, pipelineVars
<1>12. HeldBy(r, currentPhase, executed)
  BY <1>4, <1>6, <1>7, <1>10 DEF HeldBy
<1>13. /\ Holders' = Holders
       /\ worker'[w] = r
       /\ \A v \in Holders : v # w => worker'[v] = worker[v]
       /\ \A v \in Holders : v # w => worker[v].task # q.task
  <2>1. r.task = worker[w].task /\ r.pc \in HolderPcs /\ worker[w].pc \in HolderPcs
    BY <1>1, <1>3, <1>10 DEF HolderPcs
  <2>2. /\ Holders' = Holders
        /\ worker'[w] = r
        /\ \A v \in Holders : v # w => worker'[v] = worker[v]
        /\ \A v \in Holders : v # w => worker[v].task # r.task
    BY <1>10, <1>11, <2>1, HolderStays
  <2> QED
    BY <1>10, <2>2
<1>14. q.task \in Pending(c)
  <2>1. q.task \in Parents(c)
    BY <1>7 DEF Parents
  <2>2. Owes(q, c)
    BY <1>4, <1>6 DEF Owes
  <2> QED
    BY <1>1, <1>3, <2>1, <2>2 DEF Pending
<1>15. Pending(c)' = Pending(c) \ {q.task}
  <2>1. ~Owes(r, c)
    BY <1>6, <1>10 DEF Owes
  <2> QED
    BY <1>3, <1>7, <1>10, <1>11, <1>13, <2>1 DEF Pending
<1>16. ASSUME NEW t \in Tasks, t # c PROVE Pending(t)' = Pending(t)
  <2>1. Owes(r, t) <=> Owes(q, t)
    BY <1>4, <1>6, <1>10, <1>16 DEF Owes
  <2> QED
    BY <1>3, <1>7, <1>10, <1>11, <1>13, <2>1 DEF Pending
<1>17. Cardinality(Pending(c)') = Cardinality(Pending(c)) - 1 /\ Cardinality(Pending(c)) > 0
  <2>1. IsFiniteSet(Pending(c)) /\ Cardinality(Pending(c)) \in Nat
    BY PendingFacts
  <2>2. Cardinality(Pending(c)) # 0
    BY <1>14, <2>1, FS_EmptySet
  <2> QED
    <3>1. Cardinality(Pending(c) \ {q.task}) = Cardinality(Pending(c)) - 1
      BY <1>14, <2>1, FS_RemoveElement
    <3>2. Cardinality(Pending(c)') = Cardinality(Pending(c) \ {q.task})
      BY <1>15
    <3> QED
      BY <2>1, <2>2, <3>1, <3>2
<1>18. remaining[c] = Cardinality(Pending(c)) /\ remaining[c] \in 0 .. Modulus - 1
  BY <1>2, PendingFacts, SizeFacts DEF CountedDown
<1>19. Dec(remaining[c]) = remaining[c] - 1 /\ Dec(remaining[c]) \in Nat
  BY <1>17, <1>18, DecFacts, SizeFacts
<1>20. /\ remaining' \in [Tasks -> Nat] /\ remaining'[c] = remaining[c] - 1
       /\ \A t \in Tasks : t # c => remaining'[t] = remaining[t]
  BY <1>2, <1>9, <1>19
<1>21. CountedDown'
  BY <1>2, <1>16, <1>17, <1>18, <1>20 DEF CountedDown
<1> QED
  BY <1>1, <1>3, <1>10, <1>11, <1>12, <1>20, <1>21, ReleasingFrame

\* A task is done: the count and the number of holders go down together.
LEMMA CompleteInv ==
    ASSUME PipelineInv, UNCHANGED pipelineVars, NEW w \in Workers, Complete(w)
    PROVE  PipelineInv'
<1>1. worker[w].pc = "child" /\ w \in Holders /\ worker[w].todo = << >>
  BY DEF Complete, WorkerAt, Holders
<1>2. worker \in [Workers -> WorkerRecord] /\ TypeOK /\ Busy /\ CountedDown
      /\ readyQueue \in Seq(Tasks) /\ Len(readyQueue) \in Nat
  BY <1>1, BusyFacts
<1>3. PICK label \in WorkerPcs : WorkerGoto(w, label) /\ label \in {"bump", "loop"}
  BY DEF Complete, WorkerPcs
<1>4. PICK r \in WorkerRecord : worker' = [worker EXCEPT ![w] = r] /\ r.pc = label
  BY <1>2, <1>3, WorkerGotoFacts
<1>5. /\ worker' \in [Workers -> WorkerRecord]
      /\ \A v \in Workers : v # w => worker'[v] = worker[v]
      /\ Holders' = Holders \ {w}
  BY <1>2, <1>3, <1>4, WorkerStepFacts DEF HolderPcs
<1>6. \A v \in Holders : v # w => v \in Holders' /\ worker'[v] = worker[v]
  BY <1>5 DEF Holders
<1>7. \A v \in Holders' : v \in Holders /\ worker'[v] = worker[v] /\ v # w
  BY <1>5, <1>6
<1>8. UNCHANGED <<main, running, registry, currentPhase, state, nextPhase, epoch,
                  readyQueue, executed, remaining>>
  BY DEF Complete, pipelineVars
<1>9. ToSeed' = ToSeed /\ Lag' = Lag /\ Lag \in {0, 1}
  BY <1>8 DEF ToSeed, Lag
<1>10. active \in 0 .. Modulus - 1 /\ Modulus \in Nat /\ active' = Dec(active)
  BY <1>2, SizeFacts DEF TypeOK, Complete
<1>11. PICK a \in 0 .. Modulus - 1 :
          a = active' /\ (active > 0 => a = active - 1) /\ (active = 0 => a = Modulus - 1)
  BY <1>10, DecFacts
<1>12. TypeOK'
  BY <1>2, <1>5, <1>8, <1>11 DEF TypeOK
<1>13. Balance /\ Room /\ Held /\ Apart /\ Queued /\ Unseeded /\ Ran
  BY DEF PipelineInv
<1>14. Cardinality(Holders') = Cardinality(Holders) - 1 /\ Cardinality(Holders) > 0
  <2>1. Cardinality(Holders) # 0
    BY <1>1, HoldersFinite, FS_EmptySet
  <2>2. Cardinality(Holders \ {w}) = Cardinality(Holders) - 1
    BY <1>1, HoldersFinite, FS_RemoveElement
  <2> QED
    BY <1>5, <2>1, <2>2, HoldersFinite
<1>15. PICK total \in Nat : total = Len(readyQueue) + Cardinality(Holders) /\ total > 0
  BY <1>2, <1>14, HoldersFinite
<1>16. Len(readyQueue') + Cardinality(Holders') = total - 1
  BY <1>2, <1>8, <1>14, <1>15, HoldersFinite
<1>17. Balance'
  <2>1. active + Lag = total \/ active + Lag = total + Modulus
    BY <1>13, <1>15 DEF Balance
  <2>2. a + Lag = total - 1 \/ a + Lag = (total - 1) + Modulus
    <3>1. CASE active > 0
      BY <1>9, <1>10, <1>11, <1>15, <2>1, <3>1
    <3>2. CASE active = 0
      <4>1. Lag = total \/ Lag = total + Modulus
        BY <1>9, <1>10, <2>1, <3>2
      <4>2. Modulus > 0
        BY <1>10
      <4>3. Lag = 1 /\ total = 1
        BY <1>9, <1>10, <1>15, <4>1, <4>2
      <4> QED
        BY <1>10, <1>11, <3>2, <4>3
    <3> QED
      BY <1>10, <3>1, <3>2
  <2> QED
    BY <1>9, <1>11, <1>16, <2>2 DEF Balance
<1>18. Room'
  <2>1. ToSeed \in Seq(Tasks)
    <3>1. main.todo \in Seq(Tasks)
      BY <1>2 DEF TypeOK
    <3>2. main.pc = "seedAdd" => main.todo # << >>
      BY DEF PipelineInv, Seeding
    <3> QED
      BY <3>1, <3>2, TailFacts DEF ToSeed
  <2>2. Len(ToSeed) \in Nat
    BY <2>1
  <2>3. total + Len(ToSeed) <= Len(PhaseOf)
    BY <1>2, <1>13, <1>15 DEF Room
  <2> QED
    BY <1>9, <1>16, <2>2, <2>3, SizeFacts DEF Room
<1>19. Held' /\ Apart'
  BY <1>7, <1>8, <1>13 DEF Held, Apart
<1>20. Queued' /\ Unseeded'
  BY <1>2, <1>7, <1>8, <1>9, <1>13 DEF Queued, Unseeded
<1>21. Ran'
  <2>1. \A v \in Holders : worker[v].pc = "execute" => v \in Holders' /\ worker'[v] = worker[v]
    BY <1>1, <1>6
  <2> QED
    BY <1>2, <1>8, <1>9, <1>13, <2>1 DEF Ran
<1>22. CountedDown'
  <2>1. ASSUME NEW t \in Tasks PROVE Pending(t)' = Pending(t)
    <3>1. ~Owes(worker[w], t)
      BY <1>1, EmptyFacts DEF Owes
    <3> QED
      BY <1>6, <1>7, <1>8, <3>1 DEF Pending
  <2> QED
    BY <1>2, <1>8, <2>1 DEF CountedDown
<1> QED
  BY <1>2, <1>8, <1>12, <1>17, <1>18, <1>19, <1>20, <1>21, <1>22, BusyFrame

----------------------------------------------------------------------------
(* The invariant.                                                          *)

LEMMA WorkerStepInv ==
    ASSUME Crossing, PipelineInv, NEW w \in Workers, WorkerStep(w), UNCHANGED pipelineVars
    PROVE  PipelineInv'
<1>1. CASE LoopCheck(w)
  BY <1>1, LoopCheckInv
<1>2. CASE Dequeue(w)
  BY <1>2, DequeueInv, IdleWorkerInv
<1>3. CASE ExecuteTask(w)
  BY <1>3, ExecuteTaskInv
<1>4. CASE ReleaseBegin(w)
  BY <1>4, ReleaseBeginInv
<1>5. CASE ReleaseChild(w)
  BY <1>5, ReleaseChildInv
<1>6. CASE ReleaseEnqueue(w) \/ ReleaseAdd(w)
  BY <1>6 DEF ReleaseEnqueue, ReleaseAdd, WorkerAt, PipelineInv, TypeOK, WorkerRecord
<1>7. CASE Complete(w)
  BY <1>7, CompleteInv
<1>8. CASE BumpEpoch(w) \/ NotifyAll(w)
  BY <1>8, IdleWorkerInv
<1> QED
  BY <1>1, <1>2, <1>3, <1>4, <1>5, <1>6, <1>7, <1>8, Zenon DEF WorkerStep

LEMMA MainStepInv ==
    ASSUME Crossing, PipelineInv, MainStep, UNCHANGED pipelineVars
    PROVE  PipelineInv'
<1>1. CASE BuildNode \/ BuildDone
  BY <1>1, BuildNodeInv, BuildDoneInv
<1>2. CASE SeedCheck \/ SeedEnqueue \/ SeedAdd
  BY <1>2, SeedCheckInv, SeedEnqueueInv, SeedAddInv
<1>3. CASE SeedDone \/ WaitEpoch \/ WaitBlock
  BY <1>3, BarrierMoveInv
<1>4. CASE WaitActive \/ WaitRecheck
  BY <1>4, BarrierMoveInv, BarrierInv
<1>5. CASE ShutdownReset
  BY <1>5, ShutdownResetInv
<1> QED
  BY <1>1, <1>2, <1>3, <1>4, <1>5, Zenon DEF MainStep

\* Nothing happens.
LEMMA StutterInv == PipelineInv /\ UNCHANGED allVars => PipelineInv'
<1> SUFFICES ASSUME PipelineInv, UNCHANGED allVars PROVE PipelineInv'
  OBVIOUS
<1>1. UNCHANGED <<running, poolRunning, registry, currentPhase, remaining, readyQueue, active,
                  epoch, main, worker, executed, state, nextPhase>>
  BY DEF allVars, vars, pipelineVars
<1>2. TypeOK' /\ Holders' = Holders
  BY <1>1 DEF PipelineInv, TypeOK, Holders
<1>3. main'.pc = "idle" /\ ~running => \A v \in Workers : worker'[v].pc = "exited"
  BY <1>1 DEF PipelineInv, Between
<1> QED
  BY <1>1, <1>2, <1>3, Frame

LEMMA PipelineNextInv ==
    ASSUME Crossing, PipelineInv, PipelineNext
    PROVE  PipelineInv'
<1>1. ASSUME NEW reg \in Registries, PipelineInitialize(reg) PROVE PipelineInv'
  <2>1. CASE Initialize(reg) /\ state' = "Initialized"
    BY <1>1, <2>1, InitializeInv DEF PipelineInitialize
  <2>2. CASE InitializeRefused(reg) /\ UNCHANGED state
    BY <1>1, <2>2, StutterInv
       DEF PipelineInitialize, InitializeRefused, allVars, pipelineVars
  <2> QED
    BY <1>1, <2>1, <2>2 DEF PipelineInitialize
<1>2. CASE ExecutePipeline
  BY <1>2, ExecutorInv DEF ExecutePipeline
<1>3. CASE PipelineShutdown
  <2>1. CASE ShutdownCall /\ state' = "Stopping"
    BY <1>3, <2>1, ShutdownCallInv DEF PipelineShutdown
  <2>2. CASE ShutdownRefused /\ state' = "Stopped"
    BY <1>3, <2>2, ExecutorInv DEF PipelineShutdown, ShutdownRefused
  <2> QED
    BY <1>3, <2>1, <2>2 DEF PipelineShutdown
<1>4. CASE Construct
  <2>1. MainAt("idle")
    BY <1>4 DEF Construct, MainAt, PipelineInv, TypeOK, Between, Busy
  <2> QED
    BY <1>4, <2>1, ExecutorInv DEF Construct
<1>5. CASE OwnerShutdown
  BY <1>5, ShutdownCallInv DEF OwnerShutdown, pipelineVars
<1>6. CASE PipelinePhase
  BY <1>6, ExecutePhaseInv
<1>7. CASE PipelinePhaseFails
  BY <1>7, ExecutorInv DEF PipelinePhaseFails, ExecutePhaseRefused
<1>8. CASE PipelineReturns
  BY <1>8, ExecutorInv DEF PipelineReturns
<1>9. CASE PipelineStopped
  BY <1>9, ExecutorInv DEF PipelineStopped
<1>10. CASE MainStep /\ UNCHANGED pipelineVars
  BY <1>10, MainStepInv
<1>11. ASSUME NEW w \in Workers, WorkerStep(w) /\ UNCHANGED pipelineVars PROVE PipelineInv'
  BY <1>11, WorkerStepInv
<1> QED
  BY <1>1, <1>2, <1>3, <1>4, <1>5, <1>6, <1>7, <1>8, <1>9, <1>10, <1>11
     DEF PipelineNext, PipelineStep

\* The dispatcher under the executor keeps the invariant, for every graph whose
\* edges leave their phase: queue, workers' hands, barrier counter, dependency
\* counters and the record of what has run agree at every step.
THEOREM PipelineInvariant ==
    ASSUME Crossing
    PROVE  PipelineSpec => []PipelineInv
<1>1. PipelineInit => PipelineInv
  BY PipelineInitInv
<1>2. PipelineInv /\ [PipelineNext]_allVars => PipelineInv'
  BY PipelineNextInv, StutterInv
<1> QED
  BY <1>1, <1>2, PTL DEF PipelineSpec

----------------------------------------------------------------------------
(* The properties of the dispatcher.                                       *)

LEMMA HoldsTaskFacts ==
    ASSUME PipelineInv
    PROVE  /\ {w \in Workers : HoldsTask(w)} = Holders
           /\ {w \in Workers : WorkerAt(w, "add")} = {}
           /\ \A w \in Workers : ~WorkerAt(w, "enqueue")
<1>1. \A w \in Workers : worker[w].pc \in WorkerPcs
  BY DEF PipelineInv, TypeOK, WorkerRecord, WorkerPcs
<1> QED
  BY <1>1 DEF HoldsTask, WorkerAt, WorkerPcs, Holders

LEMMA AccountingHolds == PipelineInv => Accounting
<1> SUFFICES ASSUME PipelineInv PROVE Accounting
  OBVIOUS
<1>1. PendingAdds = Lag /\ Lag \in {0, 1}
  BY HoldsTaskFacts, FS_EmptySet DEF PendingAdds, Lag, MainAt
<1>2. PICK total \in Nat : total = Len(readyQueue) + Cardinality(Holders)
  BY HoldersFinite DEF PipelineInv, TypeOK
<1>3. active + Lag = total \/ active + Lag = total + Modulus
  BY <1>2 DEF PipelineInv, Balance
<1>4. active \in 0 .. Modulus - 1 /\ Modulus \in Nat
  BY SizeFacts DEF PipelineInv, TypeOK
<1>5. (active + Lag) % Modulus = total % Modulus
  <2>1. CASE active + Lag = total
    BY <2>1
  <2>2. CASE active + Lag = total + Modulus
    <3>1. total = 0 /\ active + Lag = Modulus /\ Modulus > 0
      BY <1>1, <1>2, <1>4, <2>2
    <3>2. Modulus % Modulus = 0 /\ 0 % Modulus = 0
      BY <1>4, <3>1
    <3> QED
      BY <3>1, <3>2
  <2> QED
    BY <1>3, <2>1, <2>2
<1> QED
  BY <1>1, <1>2, <1>5, HoldsTaskFacts DEF Accounting

\* The barrier's counter is exact, up to the add that lags behind its Enqueue:
\* between SeedReadyQueue and OnTaskCompleted no task is counted twice or lost,
\* and the unsigned counter may pass below zero and come back.
THEOREM CounterIsExact ==
    ASSUME Crossing
    PROVE  PipelineSpec => []Accounting
<1>1. PipelineSpec => []PipelineInv
  BY PipelineInvariant
<1>2. PipelineInv => Accounting
  BY AccountingHolds
<1> QED
  BY <1>1, <1>2, PTL

LEMMA BarrierHolds == PipelineInv => BarrierComplete
<1> SUFFICES ASSUME PipelineInv, MainAt("idle")
             PROVE  readyQueue = << >> /\ \A w \in Workers : ~HoldsTask(w)
  BY DEF BarrierComplete
<1>1. readyQueue = << >> /\ Holders = {}
  BY IdleFacts
<1> QED
  BY <1>1, HoldsTaskFacts

\* ExecutePhase returns only when the ready queue is empty and no worker holds
\* a task.
THEOREM BarrierIsComplete ==
    ASSUME Crossing
    PROVE  PipelineSpec => []BarrierComplete
<1>1. PipelineSpec => []PipelineInv
  BY PipelineInvariant
<1>2. PipelineInv => BarrierComplete
  BY BarrierHolds
<1> QED
  BY <1>1, <1>2, PTL

LEMMA RoomHolds == PipelineInv => ReadyQueueHasRoom
BY SeedRoom, HoldsTaskFacts DEF ReadyQueueHasRoom

\* The asserts behind Enqueue in SeedReadyQueue and ReleaseSuccessors never
\* trip: the queue has a cell for every node of the graph and a task is in it
\* at most once.
THEOREM EnqueueNeverFails ==
    ASSUME Crossing
    PROVE  PipelineSpec => []ReadyQueueHasRoom
<1>1. PipelineSpec => []PipelineInv
  BY PipelineInvariant
<1>2. PipelineInv => ReadyQueueHasRoom
  BY RoomHolds
<1> QED
  BY <1>1, <1>2, PTL

LEMMA ShutdownHolds == PipelineInv => ShutdownLeavesNothing
<1> SUFFICES ASSUME PipelineInv, MainAt("idle"), ~running
             PROVE  readyQueue = << >> /\ active = 0 /\ \A w \in Workers : WorkerAt(w, "exited")
  BY DEF ShutdownLeavesNothing
<1>1. \A w \in Workers : worker[w].pc = "exited"
  BY DEF PipelineInv, Between, MainAt
<1> QED
  BY <1>1, IdleFacts DEF WorkerAt

\* When Shutdown has returned, the queue that it does not clear is empty, the
\* counter is zero and every worker has left: Initialize starts from nothing.
THEOREM ShutdownIsClean ==
    ASSUME Crossing
    PROVE  PipelineSpec => []ShutdownLeavesNothing
<1>1. PipelineSpec => []PipelineInv
  BY PipelineInvariant
<1>2. PipelineInv => ShutdownLeavesNothing
  BY ShutdownHolds
<1> QED
  BY <1>1, <1>2, PTL

----------------------------------------------------------------------------
(* The refinement of PhaseSchedule.                                        *)

\* The schedule is about the same graph.
LEMMA SameGraph ==
    /\ Schedule!Tasks = Tasks /\ Schedule!Phases = Phases /\ Schedule!InputPhase = InputPhase
    /\ \A t : Schedule!Parents(t) = Parents(t)
BY DEF Schedule!Tasks, Tasks, Schedule!Phases, Phases, Schedule!InputPhase, InputPhase,
       Schedule!Parents, Parents, Schedule!ChildSet, ChildSet

\* Rest, in the schedule's words
LEMMA RestFacts ==
    Rest => Schedule!NothingRan \/ Schedule!AllRan(PhaseCount - 1)
BY SameGraph DEF Rest, Schedule!NothingRan, Schedule!AllRan

LEMMA PhaseMaps ==
    ASSUME PipelineInv, PipelinePhase
    PROVE  Schedule!Next
<1>1. /\ main.pc = "idle" /\ running /\ state = "Running" /\ nextPhase \in Phases
      /\ currentPhase' = nextPhase
  BY DEF PipelinePhase, ExecutePhaseCall, MainAt
<1>2. \/ /\ nextPhase = currentPhase + 1
         /\ \A t \in Tasks : executed[t] = IF PhaseOf[t] <= currentPhase THEN 1 ELSE 0
      \/ nextPhase = 0 /\ Rest
  BY <1>1 DEF PipelineInv, Between
<1>3. currentPhase \in Nat
  BY SizeFacts DEF PipelineInv, TypeOK, Phases
<1>4. CASE nextPhase = InputPhase
  <2>1. Rest
    BY <1>2, <1>3, <1>4 DEF InputPhase
  <2>2. executed' = [t \in Tasks |-> 0]
    BY <1>4 DEF PipelinePhase, ExecutePhaseCall
  <2>3. Schedule!BeginTick
    BY <1>1, <1>4, <2>1, <2>2, RestFacts, SameGraph DEF Schedule!BeginTick
  <2> QED
    BY <2>3 DEF Schedule!Next
<1>5. CASE nextPhase # InputPhase
  <2>1. /\ nextPhase = currentPhase + 1
        /\ \A t \in Tasks : executed[t] = IF PhaseOf[t] <= currentPhase THEN 1 ELSE 0
    BY <1>2, <1>5 DEF InputPhase
  <2>2. executed' = executed
    BY <1>5 DEF PipelinePhase, ExecutePhaseCall
  <2>3. Schedule!AllRan(currentPhase)
    BY <2>1, SameGraph DEF Schedule!AllRan
  <2>4. Schedule!NextPhase
    BY <1>1, <2>1, <2>2, <2>3, SameGraph DEF Schedule!NextPhase
  <2> QED
    BY <2>4 DEF Schedule!Next
<1> QED
  BY <1>4, <1>5

LEMMA ExecuteMaps ==
    ASSUME Crossing, PipelineInv, NEW w \in Workers, ExecuteTask(w)
    PROVE  Schedule!Next
<1>1. worker[w].pc = "execute" /\ w \in Holders
  BY DEF ExecuteTask, WorkerAt, Holders
<1>2. Busy /\ Tasks \subseteq registry /\ executed \in [Tasks -> Nat]
  BY <1>1, BusyFacts DEF TypeOK
<1>3. HeldBy(worker[w], currentPhase, executed)
  BY <1>1 DEF PipelineInv, Held
<1>4. PICK k \in Tasks : k = worker[w].task /\ executed[k] = 0 /\ PhaseOf[k] = currentPhase
  BY <1>1, <1>3 DEF HeldBy
<1>5. \A p \in Parents(k) : executed[p] = 1
  BY <1>2, <1>4, ReadyAtOnce
<1>6. executed' = [executed EXCEPT ![k] = 1]
  <2>1. executed' = [executed EXCEPT ![k] = executed[k] + 1]
    BY <1>2, <1>4 DEF ExecuteTask, IsRegistered
  <2> QED
    BY <1>4, <2>1
<1>7. Schedule!Run(k)
  BY <1>4, <1>5, <1>6, SameGraph DEF Schedule!Run, ExecuteTask
<1> QED
  BY <1>7, SameGraph DEF Schedule!Next

LEMMA ResetMaps ==
    ASSUME PipelineInv, ShutdownReset
    PROVE  Schedule!Next
<1>1. Rest
  BY DEF ShutdownReset, MainAt, PipelineInv, Between
<1>2. Schedule!Rewind
  BY <1>1, RestFacts, SameGraph DEF ShutdownReset, Schedule!Rewind
<1> QED
  BY <1>2 DEF Schedule!Next

\* Every other step leaves the phase and the record of what has run alone.
LEMMA StepMaps ==
    ASSUME Crossing, PipelineInv, [PipelineNext]_allVars
    PROVE  [Schedule!Next]_<<currentPhase, executed>>
<1>1. CASE UNCHANGED allVars
  BY <1>1 DEF allVars, vars
<1>2. ASSUME NEW reg \in Registries, PipelineInitialize(reg)
      PROVE  UNCHANGED <<currentPhase, executed>>
  BY <1>2 DEF PipelineInitialize, Initialize, InitializeRefused, vars
<1>3. CASE ExecutePipeline \/ Construct \/ PipelineReturns \/ PipelineStopped
  BY <1>3 DEF ExecutePipeline, Construct, PipelineReturns, PipelineStopped, vars
<1>4. CASE PipelineShutdown \/ OwnerShutdown
  BY <1>4 DEF PipelineShutdown, OwnerShutdown, ShutdownCall, ShutdownRefused, vars
<1>5. CASE PipelinePhase
  BY <1>5, PhaseMaps
<1>6. CASE PipelinePhaseFails
  BY <1>6 DEF PipelinePhaseFails, ExecutePhaseRefused, vars
<1>7. CASE MainStep
  <2>1. CASE ShutdownReset
    BY <2>1, ResetMaps
  <2>2. CASE BuildNode \/ BuildDone \/ SeedCheck \/ SeedEnqueue \/ SeedAdd \/ SeedDone
    BY <2>2 DEF BuildNode, BuildDone, SeedCheck, SeedEnqueue, SeedAdd, SeedDone
  <2>3. CASE WaitActive \/ WaitEpoch \/ WaitRecheck \/ WaitBlock
    BY <2>3 DEF WaitActive, WaitEpoch, WaitRecheck, WaitBlock
  <2> QED
    BY <1>7, <2>1, <2>2, <2>3, Zenon DEF MainStep
<1>8. ASSUME NEW w \in Workers, WorkerStep(w)
      PROVE  [Schedule!Next]_<<currentPhase, executed>>
  <2>1. CASE ExecuteTask(w)
    BY <2>1, ExecuteMaps
  <2>2. CASE LoopCheck(w) \/ Dequeue(w) \/ ReleaseBegin(w) \/ ReleaseChild(w)
    BY <2>2 DEF LoopCheck, Dequeue, ReleaseBegin, ReleaseChild
  <2>3. CASE ReleaseEnqueue(w) \/ ReleaseAdd(w)
    BY <2>3 DEF ReleaseEnqueue, ReleaseAdd
  <2>4. CASE Complete(w) \/ BumpEpoch(w) \/ NotifyAll(w)
    BY <2>4 DEF Complete, BumpEpoch, NotifyAll
  <2> QED
    BY <1>8, <2>1, <2>2, <2>3, <2>4, Zenon DEF WorkerStep
<1> QED
  BY <1>1, <1>2, <1>3, <1>4, <1>5, <1>6, <1>7, <1>8 DEF PipelineNext, PipelineStep

\* A tick follows its schedule: phases in order, each behind all the tasks of
\* the earlier ones, every task run exactly once, in its phase and after its
\* parents, whatever the order in which the workers count, release and wake.
THEOREM PipelineImplementsSchedule ==
    ASSUME Crossing
    PROVE  PipelineSpec => FollowsSchedule
<1>1. PipelineInit => Schedule!Init
  BY SameGraph DEF PipelineInit, Init, Schedule!Init
<1>2. PipelineInv /\ [PipelineNext]_allVars => [Schedule!Next]_<<currentPhase, executed>>
  BY StepMaps
<1>3. PipelineSpec => []PipelineInv
  BY PipelineInvariant
<1> QED
  BY <1>1, <1>2, <1>3, PTL DEF PipelineSpec, FollowsSchedule, Schedule!Spec
============================================================================
