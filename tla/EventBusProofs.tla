--------------------------- MODULE EventBusProofs --------------------------
(***************************************************************************)
(* What EventBus promises its publishers, for every number of threads,     *)
(* event types and subscriptions: delivery, silence after Unsubscribe,     *)
(* registration order, and that the published snapshot is current.         *)
(***************************************************************************)
EXTENDS EventBus, WellFoundedInduction, TLAPS

Increasing(s) == \A j, k \in 1 .. Len(s) : j < k => s[j] < s[k]

----------------------------------------------------------------------------
(* Induction over data, in the form the provers can use: a set of naturals *)
(* (the counterexamples) that is not empty has a least member.             *)
LEMMA LeastNatural ==
    ASSUME NEW T \in SUBSET Nat, T # {}
    PROVE  \E x \in T : \A y \in T : x <= y
<1> DEFINE R == OpToRel(<, Nat)
<1>1. IsWellFoundedOn(R, Nat)
  BY NatLessThanWellFounded
<1>2. \A x, y \in Nat : x < y => <<x, y>> \in R
  BY DEF OpToRel
<1> HIDE DEF R
<1>3. \E x \in T : \A y \in T : ~(<<y, x>> \in R)
  BY <1>1, WFMin
<1>4. PICK x \in T : \A y \in T : ~(<<y, x>> \in R)
  BY <1>3
<1>5. ASSUME NEW y \in T PROVE x <= y
  <2>1. x \in Nat /\ y \in Nat
    OBVIOUS
  <2>2. ~(<<y, x>> \in R)
    BY <1>4
  <2>3. ~(y < x)
    BY <1>2, <2>1, <2>2, Zenon
  <2> QED
    BY <2>1, <2>3
<1> QED
  BY <1>5

\* One turn of the loop in RebuildSnapshot
Turn(r, e, live) == IF e \in live THEN Append(r, e) ELSE r

LEMMA TurnType ==
    ASSUME NEW r \in Seq(Nat), NEW e \in Nat, NEW live
    PROVE  Turn(r, e, live) \in Seq(Nat)
BY DEF Turn

LEMMA TurnElements ==
    ASSUME NEW r \in Seq(Nat), NEW e \in Nat, NEW live
    PROVE  Elements(Turn(r, e, live)) = Elements(r) \cup ({e} \cap live)
<1>1. CASE e \in live
  <2>1. /\ Append(r, e) \in Seq(Nat) /\ Len(Append(r, e)) = Len(r) + 1
        /\ \A k \in 1 .. Len(r) : Append(r, e)[k] = r[k]
        /\ Append(r, e)[Len(r) + 1] = e
    OBVIOUS
  <2>2. Elements(Append(r, e)) = Elements(r) \cup {e}
    BY <2>1 DEF Elements
  <2> QED
    BY <1>1, <2>2 DEF Turn
<1>2. CASE e \notin live
  BY <1>2 DEF Turn
<1> QED
  BY <1>1, <1>2

LEMMA TurnIncreasing ==
    ASSUME NEW r \in Seq(Nat), NEW e \in Nat, NEW live, Increasing(r),
           \A x \in Elements(r) : x < e
    PROVE  Increasing(Turn(r, e, live))
<1>1. CASE e \in live
  <2>1. /\ Append(r, e) \in Seq(Nat) /\ Len(Append(r, e)) = Len(r) + 1
        /\ \A k \in 1 .. Len(r) : Append(r, e)[k] = r[k]
        /\ Append(r, e)[Len(r) + 1] = e
    OBVIOUS
  <2>2. \A k \in 1 .. Len(r) : r[k] < e
    BY DEF Elements
  <2>3. Increasing(Append(r, e))
    BY <2>1, <2>2 DEF Increasing
  <2> QED
    BY <1>1, <2>3 DEF Turn
<1>2. CASE e \notin live
  BY <1>2 DEF Turn
<1> QED
  BY <1>1, <1>2

\* The loop has a result after every number of turns.
LEMMA LoopRuns ==
    ASSUME NEW s \in Seq(Nat), NEW live
    PROVE  \E f \in [0 .. Len(s) -> Seq(Nat)] :
              f[0] = << >> /\ \A k \in 1 .. Len(s) : f[k] = Turn(f[k - 1], s[k], live)
<1> DEFINE Runs(n) == \E f \in [0 .. n -> Seq(Nat)] :
                         f[0] = << >> /\ \A k \in 1 .. n : f[k] = Turn(f[k - 1], s[k], live)
           T == {n \in 0 .. Len(s) : ~Runs(n)}
<1>1. Len(s) \in Nat
  OBVIOUS
<1>2. Runs(0)
  <2> DEFINE f == [k \in 0 .. 0 |-> << >>]
  <2>1. f \in [0 .. 0 -> Seq(Nat)] /\ f[0] = << >>
    OBVIOUS
  <2>2. \A k \in 1 .. 0 : f[k] = Turn(f[k - 1], s[k], live)
    OBVIOUS
  <2> QED
    BY <2>1, <2>2, Zenon
<1>3. ASSUME NEW n \in 1 .. Len(s), Runs(n - 1) PROVE Runs(n)
  <2>1. PICK f \in [0 .. n - 1 -> Seq(Nat)] :
            f[0] = << >> /\ \A k \in 1 .. n - 1 : f[k] = Turn(f[k - 1], s[k], live)
    BY <1>3
  <2> DEFINE g == [k \in 0 .. n |-> IF k = n THEN Turn(f[n - 1], s[n], live) ELSE f[k]]
  <2>2. Turn(f[n - 1], s[n], live) \in Seq(Nat)
    BY <1>1, TurnType
  <2>3. g \in [0 .. n -> Seq(Nat)]
    BY <1>1, <2>2
  <2>4. g[0] = << >>
    BY <1>1, <2>1
  <2>5. ASSUME NEW k \in 1 .. n PROVE g[k] = Turn(g[k - 1], s[k], live)
    <3>1. k - 1 \in 0 .. n /\ k \in 0 .. n /\ n - 1 \in 0 .. n /\ k - 1 # n
      BY <1>1
    <3>2. g[k - 1] = f[k - 1]
      BY <3>1
    <3>3. CASE k = n
      BY <3>1, <3>2, <3>3
    <3>4. CASE k # n
      <4>1. k \in 1 .. n - 1
        BY <1>1, <3>4
      <4>2. g[k] = f[k]
        BY <3>1, <3>4
      <4> QED
        BY <2>1, <3>2, <4>1, <4>2
    <3> QED
      BY <3>3, <3>4
  <2> QED
    BY <2>3, <2>4, <2>5
<1> HIDE DEF Runs
<1>4. T = {}
  <2>1. SUFFICES ASSUME T # {} PROVE FALSE
    OBVIOUS
  <2>2. PICK m \in T : \A y \in T : m <= y
    <3>1. T \in SUBSET Nat
      BY <1>1
    <3> QED
      BY <2>1, <3>1, LeastNatural
  <2>3. m # 0 /\ m \in 0 .. Len(s)
    BY <1>2
  <2>4. m - 1 \in 0 .. Len(s) /\ ~(m <= m - 1) /\ m \in 1 .. Len(s)
    BY <1>1, <2>3
  <2>5. Runs(m - 1)
    BY <2>2, <2>4
  <2> QED
    BY <1>3, <2>4, <2>5
<1>5. Runs(Len(s))
  BY <1>1, <1>4
<1> QED
  BY <1>5 DEF Runs

\* What the loop leaves: the live entries, in the order of the list.
LEMMA KeptFacts ==
    ASSUME NEW s \in Seq(Nat), Increasing(s), NEW live
    PROVE  /\ Kept(s, live) \in Seq(Nat)
           /\ Elements(Kept(s, live)) = Elements(s) \cap live
           /\ Increasing(Kept(s, live))
<1> DEFINE Body(f) == [k \in 0 .. Len(s) |->
                          IF k = 0 THEN << >>
                          ELSE IF s[k] \in live THEN Append(f[k - 1], s[k]) ELSE f[k - 1]]
           loop == CHOOSE f : f = Body(f)
<1>1. Len(s) \in Nat
  OBVIOUS
<1>2. PICK f \in [0 .. Len(s) -> Seq(Nat)] :
          f[0] = << >> /\ \A k \in 1 .. Len(s) : f[k] = Turn(f[k - 1], s[k], live)
  BY LoopRuns
<1>3. f = Body(f)
  <2>1. ASSUME NEW k \in 0 .. Len(s)
        PROVE  f[k] = IF k = 0 THEN << >>
                      ELSE IF s[k] \in live THEN Append(f[k - 1], s[k]) ELSE f[k - 1]
    <3>1. k = 0 \/ k \in 1 .. Len(s)
      BY <1>1
    <3>2. CASE k = 0
      BY <1>2, <3>2
    <3>3. CASE k \in 1 .. Len(s)
      <4>1. f[k] = Turn(f[k - 1], s[k], live) /\ k # 0
        BY <1>2, <3>3
      <4> QED
        BY <4>1, Zenon DEF Turn
    <3> QED
      BY <3>1, <3>2, <3>3
  <2> QED
    BY <2>1
<1>4. loop = Body(loop)
  BY <1>3, Zenon
<1>5. Kept(s, live) = loop[Len(s)]
  BY Zenon DEF Kept
<1> HIDE DEF loop
<1>6. /\ loop[0] = << >>
      /\ \A k \in 1 .. Len(s) : loop[k] = Turn(loop[k - 1], s[k], live)
  <2>1. Body(loop)[0] = << >>
    BY <1>1
  <2>2. ASSUME NEW k \in 1 .. Len(s) PROVE Body(loop)[k] = Turn(loop[k - 1], s[k], live)
    <3>1. k \in 0 .. Len(s) /\ k # 0
      BY <1>1
    <3> QED
      BY <3>1, Zenon DEF Turn
  <2> HIDE DEF Body
  <2> QED
    BY <1>4, <2>1, <2>2
<1> HIDE DEF Body
<1> DEFINE Before(n) == {s[k] : k \in 1 .. n}
           Fine(n) == /\ loop[n] \in Seq(Nat)
                      /\ Elements(loop[n]) = Before(n) \cap live
                      /\ Increasing(loop[n])
           T == {n \in 0 .. Len(s) : ~Fine(n)}
<1>7. Fine(0)
  BY <1>6 DEF Elements, Increasing
<1>8. ASSUME NEW n \in 1 .. Len(s), Fine(n - 1) PROVE Fine(n)
  <2>1. loop[n] = Turn(loop[n - 1], s[n], live) /\ s[n] \in Nat
    <3>1. s[n] \in Nat
      BY <1>1
    <3> QED
      BY <1>6, <3>1
  <2>2. loop[n] \in Seq(Nat)
    BY <1>8, <2>1, TurnType
  <2>3. Elements(loop[n]) = Elements(loop[n - 1]) \cup ({s[n]} \cap live)
    BY <1>8, <2>1, TurnElements
  <2>4. Before(n) = Before(n - 1) \cup {s[n]}
    BY <1>1
  <2>5. \A x \in Before(n - 1) : x < s[n]
    <3>1. \A k \in 1 .. n - 1 : k \in 1 .. Len(s) /\ n \in 1 .. Len(s) /\ k < n
      BY <1>1
    <3>2. \A k \in 1 .. n - 1 : s[k] < s[n]
      BY <3>1 DEF Increasing
    <3> QED
      BY <3>2
  <2>6. Increasing(loop[n])
    BY <1>8, <2>1, <2>5, TurnIncreasing
  <2> QED
    BY <1>8, <2>2, <2>3, <2>4, <2>6
<1> HIDE DEF Fine
<1>9. T = {}
  <2>1. SUFFICES ASSUME T # {} PROVE FALSE
    OBVIOUS
  <2>2. PICK m \in T : \A y \in T : m <= y
    <3>1. T \in SUBSET Nat
      BY <1>1
    <3> QED
      BY <2>1, <3>1, LeastNatural
  <2>3. m # 0 /\ m \in 0 .. Len(s)
    BY <1>7
  <2>4. m - 1 \in 0 .. Len(s) /\ ~(m <= m - 1) /\ m \in 1 .. Len(s)
    BY <1>1, <2>3
  <2>5. Fine(m - 1)
    BY <2>2, <2>4
  <2> QED
    BY <1>8, <2>4, <2>5
<1>10. Fine(Len(s))
  BY <1>1, <1>9
<1> QED
  BY <1>5, <1>10 DEF Fine, Elements

----------------------------------------------------------------------------
(* A Publish under way, apart from the rest of the bus: snap is its        *)
(* snapshot, b the first index it has not been through, c the number of    *)
(* subscriptions and en the ones being ended.                              *)
Progress(snap, b, called, must, quiet, c, en) ==
    /\ Increasing(snap)
    /\ \A e \in Elements(snap) : e \in 1 .. c /\ e \notin quiet
    /\ b \in Nat \ {0}
    /\ Increasing(called)
    /\ \A e \in Elements(called) : \E k \in 1 .. Len(snap) : k < b /\ snap[k] = e
    /\ \A e \in must \ en :
          e \in Elements(called) \/ \E k \in 1 .. Len(snap) : k >= b /\ snap[k] = e

LEMMA ProgressStart ==
    ASSUME NEW snap \in Seq(Nat), NEW must, NEW quiet, NEW c \in Nat, NEW en,
           Increasing(snap), \A e \in Elements(snap) : e \in 1 .. c /\ e \notin quiet,
           must \ en \subseteq Elements(snap)
    PROVE  Progress(snap, 1, << >>, must, quiet, c, en)
<1>1. Increasing(<< >>) /\ Elements(<< >>) = {}
  BY DEF Increasing, Elements
<1>2. \A e \in must \ en : \E k \in 1 .. Len(snap) : k >= 1 /\ snap[k] = e
  BY DEF Elements
<1> QED
  BY <1>1, <1>2 DEF Progress

LEMMA ProgressMono ==
    ASSUME NEW snap \in Seq(Nat), NEW b, NEW called, NEW must, NEW quiet,
           NEW c \in Nat, NEW en, NEW c1 \in Nat, NEW en1, c <= c1, en \subseteq en1,
           Progress(snap, b, called, must, quiet, c, en)
    PROVE  Progress(snap, b, called, must, quiet, c1, en1)
<1>1. \A e \in 1 .. c : e \in 1 .. c1
  OBVIOUS
<1>2. \A e \in must \ en1 : e \in must \ en
  OBVIOUS
<1> QED
  BY <1>1, <1>2, Zenon DEF Progress

LEMMA ProgressSkip ==
    ASSUME NEW snap \in Seq(Nat), NEW b, NEW called, NEW must, NEW quiet, NEW c, NEW en,
           Progress(snap, b, called, must, quiet, c, en),
           b <= Len(snap), snap[b] \in en
    PROVE  Progress(snap, b + 1, called, must, quiet, c, en)
<1>1. b \in Nat \ {0} /\ b + 1 \in Nat \ {0} /\ Len(snap) \in Nat
  BY DEF Progress
<1>2. \A e \in Elements(called) : \E k \in 1 .. Len(snap) : k < b + 1 /\ snap[k] = e
  BY <1>1 DEF Progress
<1>3. ASSUME NEW e \in must \ en, e \notin Elements(called)
      PROVE  \E k \in 1 .. Len(snap) : k >= b + 1 /\ snap[k] = e
  <2>1. PICK k \in 1 .. Len(snap) : k >= b /\ snap[k] = e
    BY <1>3 DEF Progress
  <2>2. k # b
    BY <2>1
  <2> QED
    BY <1>1, <2>1, <2>2
<1> QED
  BY <1>1, <1>2, <1>3 DEF Progress

LEMMA ProgressCall ==
    ASSUME NEW snap \in Seq(Nat), NEW b, NEW called \in Seq(Nat), NEW must, NEW quiet,
           NEW c, NEW en, Progress(snap, b, called, must, quiet, c, en), b <= Len(snap)
    PROVE  Progress(snap, b + 1, Append(called, snap[b]), must, quiet, c, en)
<1> DEFINE new == Append(called, snap[b])
<1>1. b \in Nat \ {0} /\ b + 1 \in Nat \ {0} /\ Len(snap) \in Nat /\ b \in 1 .. Len(snap)
      /\ snap[b] \in Nat
  BY DEF Progress
<1>2. new = Turn(called, snap[b], {snap[b]})
  BY DEF Turn
<1>3. Elements(new) = Elements(called) \cup {snap[b]}
  BY <1>1, <1>2, TurnElements
<1>4. \A e \in Elements(called) : e < snap[b]
  <2>1. Increasing(snap) /\ \A e \in Elements(called) :
                                \E k \in 1 .. Len(snap) : k < b /\ snap[k] = e
    BY DEF Progress
  <2>2. \A k \in 1 .. Len(snap) : k < b => snap[k] < snap[b]
    BY <1>1, <2>1 DEF Increasing
  <2> QED
    BY <2>1, <2>2
<1>5. Increasing(called)
  BY DEF Progress
<1>6. Increasing(new)
  BY <1>1, <1>2, <1>4, <1>5, TurnIncreasing
<1> HIDE DEF new
<1>7. ASSUME NEW e \in Elements(new)
      PROVE  \E k \in 1 .. Len(snap) : k < b + 1 /\ snap[k] = e
  BY <1>1, <1>3 DEF Progress
<1>8. ASSUME NEW e \in must \ en, e \notin Elements(new)
      PROVE  \E k \in 1 .. Len(snap) : k >= b + 1 /\ snap[k] = e
  <2>1. PICK k \in 1 .. Len(snap) : k >= b /\ snap[k] = e
    BY <1>3, <1>8 DEF Progress
  <2>2. k # b
    BY <1>3, <1>8, <2>1
  <2> QED
    BY <1>1, <2>1, <2>2
<1>9. Progress(snap, b + 1, new, must, quiet, c, en)
  BY <1>1, <1>6, <1>7, <1>8 DEF Progress
<1> QED
  BY <1>9 DEF new

\* What the theorems take from it.
LEMMA ProgressMeaning ==
    ASSUME NEW snap \in Seq(Nat), NEW b, NEW called \in Seq(Nat), NEW must, NEW quiet,
           NEW c, NEW en, Progress(snap, b, called, must, quiet, c, en)
    PROVE  /\ Elements(called) \cap quiet = {}
           /\ Increasing(called)
           /\ b > Len(snap) => must \ en \subseteq Elements(called)
<1>1. Elements(called) \subseteq Elements(snap)
  BY DEF Progress, Elements
<1>2. Elements(called) \cap quiet = {}
  BY <1>1 DEF Progress
<1>3. b > Len(snap) => \A k \in 1 .. Len(snap) : ~(k >= b)
  BY DEF Progress
<1>4. b > Len(snap) => must \ en \subseteq Elements(called)
  BY <1>3 DEF Progress
<1> QED
  BY <1>2, <1>4 DEF Progress

----------------------------------------------------------------------------
(* The invariant.                                                          *)

PublishRecord ==
    [pc : {"idle", "take", "loop", "call", "handler"}, type : Types \cup {NoType},
     snapshot : Seq(Nat), next : Nat, called : Seq(Nat),
     must : SUBSET Nat, quiet : SUBSET Nat]

TypeOK ==
    /\ nextId \in Nat
    /\ created \in 0 .. MaxSubscriptions
    /\ entry \in [Subscriptions -> [id : Nat, type : Types \cup {NoType}, active : BOOLEAN]]
    /\ handlers \in [Types -> Seq(Nat)]
    /\ snapshots \in [Types -> Seq(Nat)]
    /\ writeMutex \in Threads \cup {NoThread}
    /\ publish \in [Threads -> PublishRecord]
    /\ ending \subseteq 1 .. created
    /\ gone \subseteq 1 .. created

\* handlers_[y] is h: in the order of registration, and what has been ended is
\* marked.
ListedAs(y, h, c, g, ent) ==
    /\ Increasing(h)
    /\ \A e \in Elements(h) :
          e \in 1 .. c /\ ent[e].type = y /\ (e \in g => ~ent[e].active)

\* snapshots_[y] is s: nothing that has been ended, and everything that is active.
ShownAs(y, s, h, c, g, ent) ==
    /\ Increasing(s)
    /\ \A e \in Elements(s) : e \in 1 .. c /\ ent[e].type = y /\ e \notin g
    /\ \A e \in Elements(h) : ent[e].active => e \in Elements(s)
    /\ h = << >> => s = << >>

Listed(y) == ListedAs(y, handlers[y], created, gone, entry)
Shown(y) == ShownAs(y, snapshots[y], handlers[y], created, gone, entry)

\* A subscription nobody has begun to end is registered and active.
Registered ==
    \A e \in 1 .. created :
        /\ entry[e].type \in Types
        /\ e \notin ending => entry[e].active /\ e \in Elements(handlers[entry[e].type])

\* Only the snapshot an Unsubscribe is about to rebuild may lag behind.
Locked ==
    IF writeMutex = NoThread THEN SnapshotCurrent
    ELSE /\ pending \in 1 .. created
         /\ \A h \in Found(pending) : ~entry[h].active
         /\ \A y \in Types \ {entry[pending].type} :
                snapshots[y] = ActiveOnly(handlers[y], entry)

\* The first index of its snapshot that a Publish has not been through
Place(p) == IF p.pc = "handler" THEN p.next + 1 ELSE p.next

\* A Publish between its call and its snapshot
Waiting(p, c, en, g, ent) ==
    /\ p.called = << >> /\ p.type \in Types /\ p.next = 1
    /\ \A e \in p.must \ en : e \in 1 .. c /\ ent[e].type = p.type
    /\ \A e \in p.quiet : e \in 1 .. c /\ (e \in g \/ ent[e].type # p.type)

PublishOK(p, c, en, g, ent) ==
    /\ p.pc = "idle" => p.called = << >>
    /\ p.pc = "take" => Waiting(p, c, en, g, ent)
    /\ p.pc \in {"loop", "call", "handler"} =>
          Progress(p.snapshot, Place(p), p.called, p.must, p.quiet, c, en)
    /\ p.pc \in {"call", "handler"} => p.next <= Len(p.snapshot)

Topology == (\A y \in Types : Listed(y) /\ Shown(y)) /\ Registered /\ Locked

Publishing == \A t \in Threads : PublishOK(publish[t], created, ending, gone, entry)

BusInv == TypeOK /\ Topology /\ Publishing

----------------------------------------------------------------------------
(* Frames.                                                                 *)

LEMMA ActiveOnlyFacts ==
    ASSUME NEW s \in Seq(Nat), Increasing(s), NEW ent
    PROVE  /\ ActiveOnly(s, ent) \in Seq(Nat)
           /\ Elements(ActiveOnly(s, ent)) = {e \in Elements(s) : ent[e].active}
           /\ Increasing(ActiveOnly(s, ent))
<1> DEFINE live == {e \in Elements(s) : ent[e].active}
<1>1. ActiveOnly(s, ent) = Kept(s, live)
  BY Zenon DEF ActiveOnly
<1>2. Elements(s) \cap live = live
  BY Zenon
<1> HIDE DEF live
<1>3. /\ ActiveOnly(s, ent) \in Seq(Nat)
      /\ Elements(ActiveOnly(s, ent)) = live
      /\ Increasing(ActiveOnly(s, ent))
  BY <1>1, <1>2, KeptFacts
<1> QED
  BY <1>3 DEF live

\* RebuildSnapshot looks at nothing but the flags of the entries in the list.
LEMMA ActiveOnlySame ==
    ASSUME NEW s, NEW ent, NEW ent1, \A e \in Elements(s) : ent1[e] = ent[e]
    PROVE  ActiveOnly(s, ent1) = ActiveOnly(s, ent)
<1>1. {e \in Elements(s) : ent1[e].active} = {e \in Elements(s) : ent[e].active}
  BY Zenon
<1> QED
  BY <1>1, Zenon DEF ActiveOnly

LEMMA ActiveOnlyEmpty == \A ent : ActiveOnly(<< >>, ent) = << >>
<1> SUFFICES ASSUME NEW ent PROVE ActiveOnly(<< >>, ent) = << >>
  OBVIOUS
<1>1. << >> \in Seq(Nat) /\ Increasing(<< >>) /\ Elements(<< >>) = {}
  BY DEF Increasing, Elements
<1> DEFINE r == ActiveOnly(<< >>, ent)
<1>2. r \in Seq(Nat) /\ Elements(r) = {}
  BY <1>1, ActiveOnlyFacts
<1> HIDE DEF r
<1>3. Len(r) = 0
  <2>1. Len(r) \in Nat /\ (Len(r) # 0 => 1 \in 1 .. Len(r))
    BY <1>2
  <2> QED
    BY <1>2, <2>1 DEF Elements
<1>4. r = << >>
  BY <1>2, <1>3
<1> QED
  BY <1>4 DEF r

\* What others do to the topology does not disturb a Publish.
LEMMA PublishFrame ==
    ASSUME TypeOK, Publishing, TypeOK', UNCHANGED publish,
           created <= created', ending \subseteq ending', gone \subseteq gone',
           \A e \in 1 .. created : entry'[e].type = entry[e].type
    PROVE  Publishing'
<1> SUFFICES ASSUME NEW t \in Threads
             PROVE  PublishOK(publish[t], created', ending', gone', entry')
  BY Zenon DEF Publishing
<1> DEFINE p == publish[t]
<1>1. p \in PublishRecord /\ created \in Nat /\ created' \in Nat
  BY EventBusAssumption DEF TypeOK
<1>2. PublishOK(p, created, ending, gone, entry)
  BY DEF Publishing
<1> HIDE DEF p
<1>3. ASSUME Waiting(p, created, ending, gone, entry)
      PROVE  Waiting(p, created', ending', gone', entry')
  <2>1. \A e \in 1 .. created : e \in 1 .. created'
    BY <1>1
  <2> QED
    BY <1>3, <2>1, Zenon DEF Waiting
<1>4. ASSUME Progress(p.snapshot, Place(p), p.called, p.must, p.quiet, created, ending)
      PROVE  Progress(p.snapshot, Place(p), p.called, p.must, p.quiet, created', ending')
  <2>1. p.snapshot \in Seq(Nat)
    BY <1>1 DEF PublishRecord
  <2> QED
    BY <1>1, <1>4, <2>1, ProgressMono
<1>5. PublishOK(p, created', ending', gone', entry')
  BY <1>2, <1>3, <1>4, Zenon DEF PublishOK
<1> QED
  BY <1>5 DEF p

----------------------------------------------------------------------------
(* The mutators.                                                           *)

\* What RebuildSnapshot leaves of a list whose ended entries are marked
LEMMA RebuiltShown ==
    ASSUME NEW y, NEW h \in Seq(Nat), NEW c, NEW g, NEW ent, ListedAs(y, h, c, g, ent)
    PROVE  ShownAs(y, ActiveOnly(h, ent), h, c, g, ent)
<1> DEFINE s == ActiveOnly(h, ent)
<1>1. Increasing(h)
  BY DEF ListedAs
<1>2. Elements(s) = {e \in Elements(h) : ent[e].active} /\ Increasing(s)
  BY <1>1, ActiveOnlyFacts
<1>3. h = << >> => s = << >>
  BY ActiveOnlyEmpty, Zenon
<1> HIDE DEF s
<1>4. ShownAs(y, s, h, c, g, ent)
  BY <1>2, <1>3, Zenon DEF ShownAs, ListedAs
<1> QED
  BY <1>4 DEF s

\* A subscription more changes nothing for the others.
LEMMA MoreSubscriptions ==
    ASSUME NEW y, NEW h, NEW s, NEW c \in Nat, NEW g, NEW ent, NEW ent1,
           \A e \in 1 .. c : ent1[e] = ent[e],
           ListedAs(y, h, c, g, ent), ShownAs(y, s, h, c, g, ent)
    PROVE  ListedAs(y, h, c + 1, g, ent1) /\ ShownAs(y, s, h, c + 1, g, ent1)
<1>1. \A e \in 1 .. c : e \in 1 .. c + 1
  OBVIOUS
<1>2. ListedAs(y, h, c + 1, g, ent1)
  BY <1>1, Zenon DEF ListedAs
<1>3. \A e \in Elements(h) : e \in 1 .. c
  BY Zenon DEF ListedAs
<1>4. ShownAs(y, s, h, c + 1, g, ent1)
  BY <1>1, <1>3, Zenon DEF ShownAs
<1> QED
  BY <1>2, <1>4

\* ... and comes last in its own list.
LEMMA AppendListed ==
    ASSUME NEW y, NEW h \in Seq(Nat), NEW c \in Nat, NEW g, g \subseteq 1 .. c, NEW ent,
           ListedAs(y, h, c + 1, g, ent), \A e \in Elements(h) : e \in 1 .. c,
           ent[c + 1].type = y
    PROVE  /\ ListedAs(y, Append(h, c + 1), c + 1, g, ent)
           /\ Elements(Append(h, c + 1)) = Elements(h) \cup {c + 1}
<1> DEFINE h1 == Append(h, c + 1)
<1>1. c + 1 \in Nat /\ c + 1 \notin g /\ c + 1 \in 1 .. c + 1
  OBVIOUS
<1>2. h1 = Turn(h, c + 1, {c + 1})
  BY DEF Turn
<1>3. Elements(h1) = Elements(h) \cup {c + 1}
  <2>1. Elements(Turn(h, c + 1, {c + 1})) = Elements(h) \cup ({c + 1} \cap {c + 1})
    BY <1>1, TurnElements
  <2>2. {c + 1} \cap {c + 1} = {c + 1}
    OBVIOUS
  <2> QED
    BY <1>2, <2>1, <2>2, Zenon
<1>4. Increasing(h) /\ \A e \in Elements(h) : e < c + 1
  BY DEF ListedAs
<1>5. Increasing(h1)
  BY <1>1, <1>2, <1>4, TurnIncreasing
<1> HIDE DEF h1
<1>6. ListedAs(y, h1, c + 1, g, ent)
  BY <1>1, <1>3, <1>5, Zenon DEF ListedAs
<1> QED
  BY <1>3, <1>6 DEF h1

LEMMA SubscribeKeeps ==
    ASSUME BusInv, NEW t \in Threads, NEW y \in Types, Subscribe(t, y)
    PROVE  BusInv'
<1> DEFINE n == created + 1
           made == [id |-> nextId, type |-> y, active |-> TRUE]
<1>1. created \in Nat /\ n \in Subscriptions /\ n \in Nat /\ n \notin 1 .. created
  BY EventBusAssumption DEF BusInv, TypeOK, Subscribe, Subscriptions
<1>2. /\ created' = n /\ nextId' = nextId + 1 /\ writeMutex = NoThread
      /\ entry' = [entry EXCEPT ![n] = made]
      /\ handlers' = [handlers EXCEPT ![y] = Append(@, n)]
      /\ snapshots' = [snapshots EXCEPT ![y] = ActiveOnly(handlers'[y], entry')]
      /\ UNCHANGED <<writeMutex, pending, publish, ending, gone>>
  BY Zenon DEF Subscribe
<1>3. \A e \in 1 .. created : e \in Subscriptions /\ entry'[e] = entry[e]
  BY <1>1, <1>2, EventBusAssumption DEF BusInv, TypeOK, Subscriptions
<1>4. entry'[n] = made
  BY <1>1, <1>2 DEF BusInv, TypeOK
<1>5. /\ handlers'[y] = Append(handlers[y], n)
      /\ snapshots'[y] = ActiveOnly(handlers'[y], entry')
      /\ \A z \in Types \ {y} : handlers'[z] = handlers[z] /\ snapshots'[z] = snapshots[z]
  BY <1>2 DEF BusInv, TypeOK
<1>6. \A z \in Types : ListedAs(z, handlers[z], created, gone, entry)
                       /\ ShownAs(z, snapshots[z], handlers[z], created, gone, entry)
  BY Zenon DEF BusInv, Topology, Listed, Shown
<1>7. \A z \in Types : ListedAs(z, handlers[z], n, gone, entry')
                       /\ ShownAs(z, snapshots[z], handlers[z], n, gone, entry')
  BY <1>1, <1>3, <1>6, MoreSubscriptions
<1>8. \A z \in Types : \A e \in Elements(handlers[z]) : e \in 1 .. created
  BY <1>6 DEF ListedAs
<1>9. /\ ListedAs(y, handlers'[y], n, gone, entry')
      /\ Elements(handlers'[y]) = Elements(handlers[y]) \cup {n}
      /\ handlers'[y] \in Seq(Nat)
  <2>1. entry'[n].type = y
    BY <1>4
  <2>2. handlers[y] \in Seq(Nat) /\ gone \subseteq 1 .. created
    BY DEF BusInv, TypeOK
  <2>3. /\ ListedAs(y, Append(handlers[y], n), n, gone, entry')
        /\ Elements(Append(handlers[y], n)) = Elements(handlers[y]) \cup {n}
    <3>1. ListedAs(y, handlers[y], n, gone, entry')
          /\ \A e \in Elements(handlers[y]) : e \in 1 .. created
      BY <1>7, <1>8
    <3> QED
      BY <1>1, <2>1, <2>2, <3>1, AppendListed, ZenonT(30)
  <2>4. Append(handlers[y], n) \in Seq(Nat)
    BY <1>1, <2>2
  <2> QED
    BY <1>5, <2>3, <2>4
<1>10. ShownAs(y, snapshots'[y], handlers'[y], n, gone, entry')
  BY <1>5, <1>9, RebuiltShown
<1>11. \A z \in Types : Listed(z)' /\ Shown(z)'
  <2> SUFFICES ASSUME NEW z \in Types
               PROVE  /\ ListedAs(z, handlers'[z], created', gone', entry')
                      /\ ShownAs(z, snapshots'[z], handlers'[z], created', gone', entry')
    BY Zenon DEF Listed, Shown
  <2>1. CASE z = y
    BY <1>2, <1>9, <1>10, <2>1
  <2>2. CASE z # y
    BY <1>2, <1>5, <1>7, <2>2
  <2> QED
    BY <2>1, <2>2
<1>12. TypeOK'
  <2>1. made \in [id : Nat, type : Types \cup {NoType}, active : BOOLEAN]
    BY DEF BusInv, TypeOK
  <2>2. entry' \in [Subscriptions -> [id : Nat, type : Types \cup {NoType}, active : BOOLEAN]]
    BY <1>2, <2>1 DEF BusInv, TypeOK
  <2>3. ActiveOnly(handlers'[y], entry') \in Seq(Nat)
    BY <1>9, ActiveOnlyFacts DEF ListedAs
  <2>4. handlers' \in [Types -> Seq(Nat)] /\ snapshots' \in [Types -> Seq(Nat)]
    BY <1>1, <1>2, <2>3 DEF BusInv, TypeOK
  <2>5. created' \in 0 .. MaxSubscriptions /\ nextId' \in Nat
        /\ ending' \subseteq 1 .. created' /\ gone' \subseteq 1 .. created'
    BY <1>1, <1>2, EventBusAssumption DEF BusInv, TypeOK, Subscriptions
  <2> QED
    BY <1>2, <2>2, <2>4, <2>5 DEF BusInv, TypeOK
<1>13. Registered'
  <2>1. ASSUME NEW e \in 1 .. created
        PROVE  /\ entry'[e].type \in Types
               /\ e \notin ending' => /\ entry'[e].active
                                      /\ e \in Elements(handlers'[entry'[e].type])
    <3>1. /\ entry[e].type \in Types
          /\ e \notin ending => entry[e].active /\ e \in Elements(handlers[entry[e].type])
      BY DEF BusInv, Topology, Registered
    <3>2. \A z \in Types : Elements(handlers[z]) \subseteq Elements(handlers'[z])
      BY <1>5, <1>9
    <3> QED
      BY <1>2, <1>3, <3>1, <3>2, Zenon
  <2>2. /\ entry'[n].type \in Types /\ entry'[n].active
        /\ n \in Elements(handlers'[entry'[n].type])
    BY <1>4, <1>9
  <2>3. \A e \in 1 .. created' : e \in 1 .. created \/ e = n
    BY <1>1, <1>2
  <2> QED
    BY <2>1, <2>2, <2>3, Zenon DEF Registered
<1>14. Locked'
  <2>1. \A z \in Types : snapshots[z] = ActiveOnly(handlers[z], entry)
    BY <1>2, Zenon DEF BusInv, Topology, Locked, SnapshotCurrent
  <2>2. ASSUME NEW z \in Types \ {y}
        PROVE  snapshots'[z] = ActiveOnly(handlers'[z], entry')
    <3>1. \A e \in Elements(handlers[z]) : entry'[e] = entry[e]
      BY <1>3, <1>8
    <3>2. ActiveOnly(handlers[z], entry') = ActiveOnly(handlers[z], entry)
      BY <3>1, ActiveOnlySame
    <3> QED
      BY <1>5, <2>1, <3>2, Zenon
  <2>3. SnapshotCurrent'
    BY <1>5, <2>2, Zenon DEF SnapshotCurrent
  <2> QED
    BY <1>2, <2>3, Zenon DEF Locked
<1>15. Publishing'
  <2>1. \A e \in 1 .. created : entry'[e].type = entry[e].type
    BY <1>3, Zenon
  <2> QED
    BY <1>1, <1>2, <1>12, <2>1, PublishFrame DEF BusInv
<1> QED
  BY <1>11, <1>12, <1>13, <1>14, <1>15 DEF BusInv, Topology

LEMMA MarkKeeps ==
    ASSUME BusInv, NEW t \in Threads, NEW e \in Subscriptions, UnsubscribeMark(t, e)
    PROVE  BusInv'
<1> DEFINE F == Found(e)
<1>1. /\ writeMutex = NoThread /\ writeMutex' = t /\ pending' = e /\ e \in 1 .. created
      /\ entry' = [h \in Subscriptions |->
                      IF h \in F THEN [entry[h] EXCEPT !.active = FALSE] ELSE entry[h]]
      /\ ending' = ending \cup F
      /\ UNCHANGED <<nextId, created, handlers, snapshots, publish, gone>>
  BY Zenon DEF UnsubscribeMark
<1>2. t # NoThread
  BY EventBusAssumption
<1>3. entry[e].type \in Types
  BY <1>1 DEF BusInv, Topology, Registered
<1>4. \A z \in Types : ListedAs(z, handlers[z], created, gone, entry)
                       /\ ShownAs(z, snapshots[z], handlers[z], created, gone, entry)
  BY Zenon DEF BusInv, Topology, Listed, Shown
<1>5. F \subseteq Elements(handlers[entry[e].type])
  BY Zenon DEF Found
<1>6. \A h \in F : h \in 1 .. created /\ entry[h].type = entry[e].type
  BY <1>3, <1>4, <1>5, Zenon DEF ListedAs
<1>7. \A h \in 1 .. created : h \in Subscriptions
  BY EventBusAssumption DEF BusInv, TypeOK, Subscriptions
<1> HIDE DEF F
<1>8. /\ \A h \in Subscriptions : entry'[h].type = entry[h].type /\ entry'[h].id = entry[h].id
      /\ \A h \in Subscriptions : h \notin F => entry'[h] = entry[h]
  BY <1>1 DEF BusInv, TypeOK
<1>9. \A h \in F : ~entry'[h].active
  <2>1. ASSUME NEW h \in F PROVE ~entry'[h].active
    <3>1. h \in Subscriptions
      BY <1>6, <1>7
    <3>2. entry'[h] = [entry[h] EXCEPT !.active = FALSE]
      BY <1>1, <3>1
    <3>3. entry[h] \in [id : Nat, type : Types \cup {NoType}, active : BOOLEAN]
      BY <3>1 DEF BusInv, TypeOK
    <3> QED
      BY <3>2, <3>3
  <2> QED
    BY <2>1
<1>10. \A h \in Subscriptions : entry'[h].active => entry[h].active
  BY <1>8, <1>9, Zenon
<1>11. \A z \in Types : Listed(z)' /\ Shown(z)'
  <2> SUFFICES ASSUME NEW z \in Types
               PROVE  /\ ListedAs(z, handlers[z], created, gone, entry')
                      /\ ShownAs(z, snapshots[z], handlers[z], created, gone, entry')
    BY <1>1, Zenon DEF Listed, Shown
  <2>1. ListedAs(z, handlers[z], created, gone, entry')
    BY <1>4, <1>7, <1>8, <1>10, Zenon DEF ListedAs
  <2>2. ShownAs(z, snapshots[z], handlers[z], created, gone, entry')
    <3>1. \A h \in Elements(handlers[z]) : h \in Subscriptions
      BY <1>4, <1>7, Zenon DEF ListedAs
    <3> QED
      BY <1>4, <1>7, <1>8, <1>10, <3>1, Zenon DEF ShownAs
  <2> QED
    BY <2>1, <2>2
<1>12. TypeOK'
  <2>1. entry' \in [Subscriptions -> [id : Nat, type : Types \cup {NoType}, active : BOOLEAN]]
    BY <1>1 DEF BusInv, TypeOK
  <2>2. ending' \subseteq 1 .. created
    BY <1>1, <1>6 DEF BusInv, TypeOK
  <2> QED
    BY <1>1, <2>1, <2>2 DEF BusInv, TypeOK
<1>13. Registered'
  <2>1. \A h \in 1 .. created : h \notin ending' => entry'[h] = entry[h] /\ h \notin ending
    BY <1>1, <1>7, <1>8, Zenon
  <2> QED
    BY <1>1, <1>7, <1>8, <2>1, Zenon DEF BusInv, Topology, Registered
<1>14. Locked'
  <2>1. Found(e)' = F
    <3>1. \A h \in Elements(handlers[entry[e].type]) : h \in Subscriptions
      BY <1>3, <1>4, <1>7, Zenon DEF ListedAs
    <3> QED
      BY <1>1, <1>7, <1>8, <3>1, Zenon DEF Found, F
  <2>2. ASSUME NEW z \in Types \ {entry[e].type}
        PROVE  snapshots[z] = ActiveOnly(handlers[z], entry')
    <3>1. \A h \in Elements(handlers[z]) : h \in 1 .. created /\ entry[h].type = z
      BY <1>4 DEF ListedAs
    <3>2. \A h \in Elements(handlers[z]) : entry'[h] = entry[h]
      BY <1>6, <1>7, <1>8, <3>1
    <3>3. ActiveOnly(handlers[z], entry') = ActiveOnly(handlers[z], entry)
      BY <3>2, ActiveOnlySame
    <3>4. snapshots[z] = ActiveOnly(handlers[z], entry)
      BY <1>1, Zenon DEF BusInv, Topology, Locked, SnapshotCurrent
    <3> QED
      BY <3>3, <3>4, Zenon
  <2>3. entry'[e].type = entry[e].type
    BY <1>8
  <2>4. Found(pending)' = F
    BY <1>1, <2>1, Zenon DEF Found
  <2> QED
    BY <1>1, <1>2, <1>9, <2>2, <2>3, <2>4, Zenon DEF Locked
<1>15. Publishing'
  <2>1. /\ \A h \in 1 .. created : entry'[h].type = entry[h].type
        /\ ending \subseteq ending' /\ gone \subseteq gone'
    BY <1>1, <1>7, <1>8, Zenon
  <2>2. created <= created'
    BY <1>1 DEF BusInv, TypeOK
  <2> QED
    BY <1>1, <1>12, <2>1, <2>2, PublishFrame DEF BusInv
<1> QED
  BY <1>11, <1>12, <1>13, <1>14, <1>15 DEF BusInv, Topology

LEMMA RebuildKeeps ==
    ASSUME BusInv, NEW t \in Threads, UnsubscribeRebuild(t)
    PROVE  BusInv'
<1> DEFINE F == Found(pending)
<1>1. PICK y : y = entry[pending].type
  OBVIOUS
<1>2. /\ writeMutex = t /\ t # NoThread /\ writeMutex' = NoThread
      /\ snapshots' = [snapshots EXCEPT ![y] = IF handlers[y] = << >> THEN @
                                               ELSE ActiveOnly(handlers[y], entry)]
      /\ gone' = gone \cup F
      /\ UNCHANGED <<nextId, entry, created, handlers, publish, ending>>
  BY <1>1, EventBusAssumption, Zenon DEF UnsubscribeRebuild
<1>3. /\ pending \in 1 .. created
      /\ \A h \in F : ~entry[h].active
      /\ \A z \in Types \ {y} : snapshots[z] = ActiveOnly(handlers[z], entry)
  BY <1>1, <1>2, Zenon DEF BusInv, Topology, Locked
<1>4. y \in Types
  BY <1>1, <1>3 DEF BusInv, Topology, Registered
<1>5. \A z \in Types : ListedAs(z, handlers[z], created, gone, entry)
                       /\ ShownAs(z, snapshots[z], handlers[z], created, gone, entry)
  BY Zenon DEF BusInv, Topology, Listed, Shown
<1>6. \A h \in F : h \in Elements(handlers[y])
  BY <1>1, Zenon DEF Found
<1> HIDE DEF F
<1>7. \A h \in F : h \in 1 .. created /\ entry[h].type = y
  BY <1>4, <1>5, <1>6, Zenon DEF ListedAs
<1>8. snapshots'[y] = ActiveOnly(handlers[y], entry)
  <2>1. CASE handlers[y] = << >>
    <3>1. snapshots[y] = << >>
      BY <1>4, <1>5, <2>1 DEF ShownAs
    <3>2. snapshots'[y] = snapshots[y]
      BY <1>2, <1>4, <2>1 DEF BusInv, TypeOK
    <3> QED
      BY <2>1, <3>1, <3>2, ActiveOnlyEmpty
  <2>2. CASE handlers[y] # << >>
    BY <1>2, <1>4, <2>2 DEF BusInv, TypeOK
  <2> QED
    BY <2>1, <2>2
<1>9. \A z \in Types \ {y} : snapshots'[z] = snapshots[z]
  BY <1>2 DEF BusInv, TypeOK
<1>10. \A z \in Types : ListedAs(z, handlers[z], created, gone', entry)
  BY <1>2, <1>3, <1>5, Zenon DEF ListedAs
<1>11. handlers[y] \in Seq(Nat)
  BY <1>4 DEF BusInv, TypeOK
<1>12. \A z \in Types : Listed(z)' /\ Shown(z)'
  <2> SUFFICES ASSUME NEW z \in Types
               PROVE  ShownAs(z, snapshots'[z], handlers[z], created, gone', entry)
    BY <1>2, <1>10, Zenon DEF Listed, Shown
  <2>1. CASE z = y
    BY <1>8, <1>10, <1>11, <2>1, RebuiltShown
  <2>2. CASE z # y
    <3>0. ShownAs(z, snapshots[z], handlers[z], created, gone, entry)
      BY <1>5
    <3>2. \A e \in Elements(snapshots[z]) : e \notin gone /\ e \notin F
      BY <1>7, <2>2, <3>0 DEF ShownAs
    <3>3. \A e \in Elements(snapshots[z]) : e \notin gone'
      BY <1>2, <3>2
    <3>1. ShownAs(z, snapshots[z], handlers[z], created, gone', entry)
      BY <3>0, <3>3, Zenon DEF ShownAs
    <3> QED
      BY <1>9, <2>2, <3>1
  <2> QED
    BY <2>1, <2>2
<1>13. TypeOK'
  <2>1. ActiveOnly(handlers[y], entry) \in Seq(Nat)
    BY <1>4, <1>5, <1>11, ActiveOnlyFacts DEF ListedAs
  <2>2. snapshots' \in [Types -> Seq(Nat)]
    BY <1>2, <2>1 DEF BusInv, TypeOK
  <2>3. gone' \subseteq 1 .. created
    BY <1>2, <1>7 DEF BusInv, TypeOK
  <2> QED
    BY <1>2, <2>2, <2>3 DEF BusInv, TypeOK
<1>14. Registered'
  BY <1>2, Zenon DEF BusInv, Topology, Registered
<1>15. Locked'
  BY <1>2, <1>3, <1>8, <1>9, Zenon DEF Locked, SnapshotCurrent
<1>16. Publishing'
  <2>1. /\ \A h \in 1 .. created : entry'[h].type = entry[h].type
        /\ ending \subseteq ending' /\ gone \subseteq gone'
    BY <1>2, Zenon
  <2>2. created <= created'
    BY <1>2 DEF BusInv, TypeOK
  <2> QED
    BY <1>2, <1>13, <2>1, <2>2, PublishFrame DEF BusInv
<1> QED
  BY <1>12, <1>13, <1>14, <1>15, <1>16 DEF BusInv, Topology

LEMMA ClearKeeps ==
    ASSUME BusInv, NEW t \in Threads, Clear(t)
    PROVE  BusInv'
<1>1. /\ writeMutex = NoThread /\ nextId' = 1
      /\ handlers' = [y \in Types |-> << >>] /\ snapshots' = [y \in Types |-> << >>]
      /\ ending' = ending \cup 1 .. created /\ gone' = gone \cup 1 .. created
      /\ UNCHANGED <<entry, created, writeMutex, pending, publish>>
  BY Zenon DEF Clear
<1>2. \A y \in Types : handlers'[y] = << >> /\ snapshots'[y] = << >>
  BY <1>1
<1>3. Increasing(<< >>) /\ Elements(<< >>) = {}
  BY DEF Increasing, Elements
<1>4. \A y \in Types : Listed(y)' /\ Shown(y)'
  BY <1>2, <1>3, Zenon DEF Listed, Shown, ListedAs, ShownAs
<1>5. TypeOK'
  BY <1>1 DEF BusInv, TypeOK
<1>6. Registered'
  BY <1>1, Zenon DEF BusInv, Topology, Registered
<1>7. Locked'
  BY <1>1, <1>2, ActiveOnlyEmpty, Zenon DEF Locked, SnapshotCurrent
<1>8. Publishing'
  <2>1. /\ \A h \in 1 .. created : entry'[h].type = entry[h].type
        /\ ending \subseteq ending' /\ gone \subseteq gone'
    BY <1>1, Zenon
  <2>2. created <= created'
    BY <1>1 DEF BusInv, TypeOK
  <2> QED
    BY <1>1, <1>5, <2>1, <2>2, PublishFrame DEF BusInv
<1> QED
  BY <1>4, <1>5, <1>6, <1>7, <1>8 DEF BusInv, Topology

----------------------------------------------------------------------------
(* The publishers.                                                         *)

\* A step of a Publish leaves everyone else where they are.
LEMMA PublishStep ==
    ASSUME BusInv, NEW t \in Threads, NEW q \in PublishRecord,
           publish' = [publish EXCEPT ![t] = q],
           UNCHANGED <<nextId, entry, created, handlers, snapshots, writeMutex, pending,
                       ending, gone>>,
           PublishOK(q, created, ending, gone, entry)
    PROVE  BusInv'
<1>1. TypeOK'
  BY DEF BusInv, TypeOK
<1>2. Topology'
  BY Zenon DEF BusInv, Topology, Listed, Shown, Registered, Locked, SnapshotCurrent, Found
<1>3. \A u \in Threads : publish'[u] = IF u = t THEN q ELSE publish[u]
  BY DEF BusInv, TypeOK
<1>4. Publishing'
  BY <1>3, Zenon DEF BusInv, Publishing
<1> QED
  BY <1>1, <1>2, <1>4 DEF BusInv

LEMMA CallKeeps ==
    ASSUME BusInv, NEW t \in Threads, NEW y \in Types, PublishCall(t, y)
    PROVE  BusInv'
<1>1. PICK must, quiet :
          /\ must = {e \in 1 .. created : entry[e].type = y} \ ending
          /\ quiet = gone \cup {e \in 1 .. created : entry[e].type # y}
  OBVIOUS
<1> DEFINE q == [NoPublish EXCEPT !.pc = "take", !.type = y, !.must = must, !.quiet = quiet]
<1>2. publish' = [publish EXCEPT ![t] = q]
  BY <1>1, Zenon DEF PublishCall
<1>3. must \in SUBSET Nat /\ quiet \in SUBSET Nat
  <2>1. \A e \in 1 .. created : e \in Nat
    BY DEF BusInv, TypeOK
  <2>2. gone \subseteq 1 .. created
    BY DEF BusInv, TypeOK
  <2> QED
    BY <1>1, <2>1, <2>2
<1>4. NoPublish \in PublishRecord
  BY DEF NoPublish, PublishRecord
<1>5. q \in PublishRecord
  BY <1>3, <1>4 DEF PublishRecord
<1>6. /\ q.pc = "take" /\ q.type = y /\ q.must = must /\ q.quiet = quiet
      /\ q.next = 1 /\ q.called = << >>
  BY DEF NoPublish
<1> HIDE DEF q
<1>7. Waiting(q, created, ending, gone, entry)
  BY <1>1, <1>6 DEF BusInv, TypeOK, Waiting
<1>8. PublishOK(q, created, ending, gone, entry)
  BY <1>6, <1>7 DEF PublishOK
<1> QED
  BY <1>2, <1>5, <1>8, PublishStep DEF PublishCall

LEMMA TakeKeeps ==
    ASSUME BusInv, NEW t \in Threads, PublishTake(t)
    PROVE  BusInv'
<1>1. PICK p \in PublishRecord : p = publish[t]
  BY DEF BusInv, TypeOK
<1>2. p.pc = "take" /\ Waiting(p, created, ending, gone, entry)
  BY <1>1 DEF BusInv, Publishing, PublishOK, PublishTake
<1> DEFINE s == snapshots[p.type]
           q == [p EXCEPT !.pc = "loop", !.snapshot = s]
<1>3. p.type \in Types /\ s \in Seq(Nat) /\ created \in Nat
  BY <1>2 DEF Waiting, BusInv, TypeOK
<1>4. publish' = [publish EXCEPT ![t] = q]
  BY <1>1, Zenon DEF PublishTake
<1>5. q \in PublishRecord
  BY <1>3 DEF PublishRecord
<1>6. ShownAs(p.type, s, handlers[p.type], created, gone, entry)
  BY <1>3, Zenon DEF BusInv, Topology, Shown
<1>7. Increasing(s) /\ \A e \in Elements(s) : e \in 1 .. created /\ e \notin p.quiet
  BY <1>2, <1>6, Zenon DEF ShownAs, Waiting
<1>8. p.must \ ending \subseteq Elements(s)
  <2>1. ASSUME NEW e \in p.must \ ending PROVE e \in Elements(s)
    <3>1. e \in 1 .. created /\ entry[e].type = p.type /\ e \notin ending
      BY <1>2 DEF Waiting
    <3>2. entry[e].active /\ e \in Elements(handlers[p.type])
      BY <3>1, Zenon DEF BusInv, Topology, Registered
    <3> QED
      BY <1>6, <3>2, Zenon DEF ShownAs
  <2> QED
    BY <2>1
<1> HIDE DEF s
<1>9. Progress(s, 1, << >>, p.must, p.quiet, created, ending)
  BY <1>3, <1>7, <1>8, ProgressStart
<1>10. /\ q.pc = "loop" /\ q.snapshot = s /\ q.next = 1 /\ q.called = << >>
       /\ q.must = p.must /\ q.quiet = p.quiet
  BY <1>2 DEF PublishRecord, Waiting
<1> HIDE DEF q
<1>11. Place(q) = 1
  BY <1>10 DEF Place
<1>12. PublishOK(q, created, ending, gone, entry)
  BY <1>9, <1>10, <1>11 DEF PublishOK
<1> QED
  BY <1>4, <1>5, <1>12, PublishStep DEF PublishTake

\* The record of a Publish in its loop
LEMMA LoopFacts ==
    ASSUME BusInv, NEW t \in Threads, NEW p, p = publish[t],
           p.pc \in {"loop", "call", "handler"}
    PROVE  /\ p \in PublishRecord
           /\ p.snapshot \in Seq(Nat) /\ p.called \in Seq(Nat) /\ p.next \in Nat
           /\ Progress(p.snapshot, Place(p), p.called, p.must, p.quiet, created, ending)
           /\ p.pc \in {"call", "handler"} => p.next <= Len(p.snapshot)
<1>1. p \in PublishRecord
  BY DEF BusInv, TypeOK
<1>2. p.snapshot \in Seq(Nat) /\ p.called \in Seq(Nat) /\ p.next \in Nat
  BY <1>1 DEF PublishRecord
<1>3. PublishOK(p, created, ending, gone, entry)
  BY DEF BusInv, Publishing
<1> QED
  BY <1>1, <1>2, <1>3, Zenon DEF PublishOK

LEMMA CheckKeeps ==
    ASSUME BusInv, NEW t \in Threads, PublishCheck(t)
    PROVE  BusInv'
<1>1. PICK p : p = publish[t]
  OBVIOUS
<1>2. p.pc = "loop" /\ p.next <= Len(p.snapshot)
  BY <1>1 DEF PublishCheck, InLoop
<1>3. /\ p \in PublishRecord
      /\ p.snapshot \in Seq(Nat) /\ p.called \in Seq(Nat) /\ p.next \in Nat
      /\ Progress(p.snapshot, p.next, p.called, p.must, p.quiet, created, ending)
  BY <1>1, <1>2, LoopFacts DEF Place
<1>4. Current(t) = p.snapshot[p.next]
  BY <1>1 DEF Current
<1>5. CASE entry[Current(t)].active
  <2> DEFINE q == [p EXCEPT !.pc = "call"]
  <2>1. publish' = [publish EXCEPT ![t] = q]
    BY <1>1, <1>5, Zenon DEF PublishCheck
  <2>2. q \in PublishRecord
    BY <1>3 DEF PublishRecord
  <2>3. /\ q.pc = "call" /\ q.snapshot = p.snapshot /\ q.next = p.next
        /\ q.called = p.called /\ q.must = p.must /\ q.quiet = p.quiet
    BY <1>3 DEF PublishRecord
  <2> HIDE DEF q
  <2>4. Place(q) = p.next
    BY <2>3 DEF Place
  <2>5. PublishOK(q, created, ending, gone, entry)
    BY <1>2, <1>3, <2>3, <2>4 DEF PublishOK
  <2> QED
    BY <2>1, <2>2, <2>5, PublishStep DEF PublishCheck
<1>6. CASE ~entry[Current(t)].active
  <2>0. PICK n \in Nat : n = p.next + 1
    BY <1>3
  <2> DEFINE q == [p EXCEPT !.next = n]
  <2>1. publish' = [publish EXCEPT ![t] = q]
    BY <1>1, <1>6, <2>0, Zenon DEF PublishCheck
  <2>2. q \in PublishRecord
    BY <1>3 DEF PublishRecord
  <2>3. /\ q.pc = "loop" /\ q.snapshot = p.snapshot /\ q.next = p.next + 1
        /\ q.called = p.called /\ q.must = p.must /\ q.quiet = p.quiet
    BY <1>2, <1>3, <2>0 DEF PublishRecord
  <2> HIDE DEF q
  <2>4. Place(q) = p.next + 1
    BY <2>3 DEF Place
  <2>5. p.snapshot[p.next] \in 1 .. created
    <3>1. p.next \in 1 .. Len(p.snapshot)
      BY <1>2, <1>3 DEF Progress
    <3> QED
      BY <1>3, <3>1 DEF Progress, Elements
  <2>6. p.snapshot[p.next] \in ending
    BY <1>4, <1>6, <2>5, Zenon DEF BusInv, Topology, Registered
  <2>7. Progress(p.snapshot, p.next + 1, p.called, p.must, p.quiet, created, ending)
    BY <1>2, <1>3, <2>6, ProgressSkip
  <2>8. PublishOK(q, created, ending, gone, entry)
    BY <2>3, <2>4, <2>7 DEF PublishOK
  <2> QED
    BY <2>1, <2>2, <2>8, PublishStep DEF PublishCheck
<1> QED
  BY <1>5, <1>6

LEMMA InvokeKeeps ==
    ASSUME BusInv, NEW t \in Threads, PublishInvoke(t)
    PROVE  BusInv'
<1>1. PICK p : p = publish[t]
  OBVIOUS
<1>2. p.pc = "call"
  BY <1>1 DEF PublishInvoke
<1>3. /\ p \in PublishRecord
      /\ p.snapshot \in Seq(Nat) /\ p.called \in Seq(Nat) /\ p.next \in Nat
      /\ Progress(p.snapshot, p.next, p.called, p.must, p.quiet, created, ending)
      /\ p.next <= Len(p.snapshot)
  BY <1>1, <1>2, LoopFacts DEF Place
<1> DEFINE called == Append(p.called, p.snapshot[p.next])
           q == [p EXCEPT !.pc = "handler", !.called = called]
<1>4. publish' = [publish EXCEPT ![t] = q]
  BY <1>1, Zenon DEF PublishInvoke, Current
<1>5. Progress(p.snapshot, p.next + 1, called, p.must, p.quiet, created, ending)
  BY <1>3, ProgressCall
<1>6. called \in Seq(Nat)
  <2>1. p.next \in 1 .. Len(p.snapshot)
    BY <1>3 DEF Progress
  <2> QED
    BY <1>3, <2>1
<1> HIDE DEF called
<1>7. q \in PublishRecord
  BY <1>3, <1>6 DEF PublishRecord
<1>8. /\ q.pc = "handler" /\ q.snapshot = p.snapshot /\ q.next = p.next
      /\ q.called = called /\ q.must = p.must /\ q.quiet = p.quiet
  BY <1>3 DEF PublishRecord
<1> HIDE DEF q
<1>9. Place(q) = p.next + 1
  BY <1>8 DEF Place
<1>10. PublishOK(q, created, ending, gone, entry)
  BY <1>3, <1>5, <1>8, <1>9 DEF PublishOK
<1> QED
  BY <1>4, <1>7, <1>10, PublishStep DEF PublishInvoke

LEMMA ReturnsKeeps ==
    ASSUME BusInv, NEW t \in Threads, HandlerReturns(t)
    PROVE  BusInv'
<1>1. PICK p : p = publish[t]
  OBVIOUS
<1>2. p.pc = "handler"
  BY <1>1 DEF HandlerReturns
<1>3. /\ p \in PublishRecord
      /\ p.snapshot \in Seq(Nat) /\ p.called \in Seq(Nat) /\ p.next \in Nat
      /\ Progress(p.snapshot, p.next + 1, p.called, p.must, p.quiet, created, ending)
  BY <1>1, <1>2, LoopFacts DEF Place
<1>0. PICK n \in Nat : n = p.next + 1
  BY <1>3
<1> DEFINE q == [p EXCEPT !.pc = "loop", !.next = n]
<1>4. publish' = [publish EXCEPT ![t] = q]
  BY <1>0, <1>1, Zenon DEF HandlerReturns
<1>5. q \in PublishRecord
  BY <1>3 DEF PublishRecord
<1>6. /\ q.pc = "loop" /\ q.snapshot = p.snapshot /\ q.next = p.next + 1
      /\ q.called = p.called /\ q.must = p.must /\ q.quiet = p.quiet
  BY <1>0, <1>3 DEF PublishRecord
<1> HIDE DEF q
<1>7. Place(q) = p.next + 1
  BY <1>6 DEF Place
<1>8. PublishOK(q, created, ending, gone, entry)
  BY <1>3, <1>6, <1>7 DEF PublishOK
<1> QED
  BY <1>4, <1>5, <1>8, PublishStep DEF HandlerReturns

LEMMA ReturnKeeps ==
    ASSUME BusInv, NEW t \in Threads, PublishReturn(t)
    PROVE  BusInv'
<1>1. NoPublish \in PublishRecord
  BY DEF NoPublish, PublishRecord
<1>2. PublishOK(NoPublish, created, ending, gone, entry)
  BY DEF NoPublish, PublishOK
<1> QED
  BY <1>1, <1>2, PublishStep DEF PublishReturn

----------------------------------------------------------------------------
LEMMA InitBusInv == Init => BusInv
<1> SUFFICES ASSUME Init PROVE BusInv
  OBVIOUS
<1>1. Increasing(<< >>) /\ Elements(<< >>) = {}
  BY DEF Increasing, Elements
<1>2. TypeOK
  BY EventBusAssumption DEF Init, TypeOK, NoPublish, PublishRecord
<1>3. \A y \in Types : handlers[y] = << >> /\ snapshots[y] = << >>
  BY DEF Init
<1>4. \A y \in Types : Listed(y) /\ Shown(y)
  BY <1>1, <1>3, Zenon DEF Listed, Shown, ListedAs, ShownAs
<1>5. Registered
  BY DEF Init, Registered
<1>6. Locked
  BY <1>3, ActiveOnlyEmpty, Zenon DEF Init, Locked, SnapshotCurrent
<1>7. Publishing
  BY DEF Init, Publishing, PublishOK, NoPublish
<1> QED
  BY <1>2, <1>4, <1>5, <1>6, <1>7 DEF BusInv, Topology

LEMMA NextBusInv == BusInv /\ [Next]_vars => BusInv'
<1> SUFFICES ASSUME BusInv, [Next]_vars PROVE BusInv'
  OBVIOUS
<1>1. CASE UNCHANGED vars
  BY <1>1, Zenon DEF vars, BusInv, TypeOK, Topology, Publishing, Listed, Shown, Registered,
                     Locked, SnapshotCurrent, Found
<1>2. CASE Next
  BY <1>2, SubscribeKeeps, CallKeeps, MarkKeeps, RebuildKeeps, ClearKeeps, TakeKeeps,
     CheckKeeps, InvokeKeeps, ReturnsKeeps, ReturnKeeps, Zenon DEF Next
<1> QED
  BY <1>1, <1>2

(* The invariant of the event bus.                                         *)
THEOREM EventBusInvariant == Spec => []BusInv
BY InitBusInv, NextBusInv, PTL DEF Spec

(* Whatever other threads and the handlers themselves do to the topology,  *)
(* a Publish that returns has called every handler that was subscribed     *)
(* throughout.                                                             *)
THEOREM PublishDelivers == Spec => []DeliversToPermanent
<1>1. BusInv => DeliversToPermanent
  <2> SUFFICES ASSUME BusInv, NEW t \in Threads, Finished(t)
               PROVE  publish[t].must \ ending \subseteq Elements(publish[t].called)
    BY DEF DeliversToPermanent
  <2>1. PICK p : p = publish[t]
    OBVIOUS
  <2>2. p.pc = "loop" /\ p.next > Len(p.snapshot)
    BY <2>1 DEF Finished
  <2>3. p.snapshot \in Seq(Nat) /\ p.called \in Seq(Nat)
        /\ Progress(p.snapshot, p.next, p.called, p.must, p.quiet, created, ending)
    BY <2>1, <2>2, LoopFacts DEF Place
  <2> QED
    BY <2>1, <2>2, <2>3, ProgressMeaning
<1> QED
  BY <1>1, EventBusInvariant, PTL

\* The calls of every Publish, begun or not
LEMMA CalledFacts ==
    ASSUME BusInv, NEW t \in Threads
    PROVE  /\ Elements(publish[t].called) \cap publish[t].quiet = {}
           /\ Increasing(publish[t].called)
<1>1. PICK p : p = publish[t]
  OBVIOUS
<1>2. p \in PublishRecord /\ PublishOK(p, created, ending, gone, entry)
  BY <1>1 DEF BusInv, TypeOK, Publishing
<1>3. CASE p.pc \in {"idle", "take"}
  <2>1. p.called = << >>
    BY <1>2, <1>3 DEF PublishOK, Waiting
  <2> QED
    BY <1>1, <2>1 DEF Elements, Increasing
<1>4. CASE p.pc \in {"loop", "call", "handler"}
  <2>1. p.snapshot \in Seq(Nat) /\ p.called \in Seq(Nat)
        /\ Progress(p.snapshot, Place(p), p.called, p.must, p.quiet, created, ending)
    BY <1>1, <1>4, LoopFacts
  <2>2. Elements(p.called) \cap p.quiet = {} /\ Increasing(p.called)
    BY <2>1, ProgressMeaning, ZenonT(30)
  <2> QED
    BY <1>1, <2>2
<1> QED
  BY <1>2, <1>3, <1>4 DEF PublishRecord

(* A Publish that began after Unsubscribe or Clear had returned does not   *)
(* invoke the handler, although entries are marked and snapshots rebuilt   *)
(* in two steps, and ids are used again after Clear.                       *)
THEOREM UnsubscribedStaysQuiet == Spec => []QuietAfterUnsubscribe
<1>1. BusInv => QuietAfterUnsubscribe
  BY CalledFacts, Zenon DEF QuietAfterUnsubscribe
<1> QED
  BY <1>1, EventBusInvariant, PTL

(* Handlers run in registration order, each at most once per Publish.      *)
THEOREM HandlersInOrder == Spec => []RegistrationOrder
<1>1. BusInv => RegistrationOrder
  BY CalledFacts, Zenon DEF RegistrationOrder, Increasing
<1> QED
  BY <1>1, EventBusInvariant, PTL

(* While writeMutex_ is free, the published snapshot is the live part of   *)
(* the handler list.                                                       *)
THEOREM SnapshotIsCurrent == Spec => []SnapshotCurrent
<1>1. BusInv => SnapshotCurrent
  BY Zenon DEF BusInv, Topology, Locked, SnapshotCurrent
<1> QED
  BY <1>1, EventBusInvariant, PTL
============================================================================
