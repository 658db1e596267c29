------------------------ MODULE FixedBlockPoolProofs ------------------------
(***************************************************************************)
(* The free list of FixedBlockPool for every number and size of blocks and *)
(* every set of clients.  TypeOK /\ FreeListExact /\ OneHolder is           *)
(* inductive: popping the back of a list without repetitions removes that  *)
(* index from it, and an index that Deallocate pushes is allocated, hence  *)
(* not in the list.                                                        *)
(***************************************************************************)
EXTENDS FixedBlockPool, SequenceTheorems, TLAPS

Inv == TypeOK /\ FreeListExact /\ OneHolder

\* The back of a non-empty list is an element of it, and popping it keeps the
\* elements before it.
LEMMA PopBackFacts ==
    ASSUME NEW S, NEW s \in Seq(S), s # << >>
    PROVE  /\ Len(s) \in Nat /\ Len(s) > 0
           /\ Back(s) \in S
           /\ PopBack(s) \in Seq(S)
           /\ Len(PopBack(s)) = Len(s) - 1
           /\ \A k \in 1 .. Len(s) - 1 : PopBack(s)[k] = s[k]
<1>1. Len(s) \in Nat /\ Len(s) > 0
  BY EmptySeq, LenProperties
<1>2. s[Len(s)] \in S
  BY <1>1, ElementOfSeq
<1>3. /\ PopBack(s) \in Seq(S)
      /\ Len(PopBack(s)) = Len(s) - 1
      /\ \A k \in 1 .. Len(s) - 1 : PopBack(s)[k] = s[k]
  <2>1. \A k \in 1 .. Len(s) - 1 : s[k] \in S
    BY <1>1, ElementOfSeq
  <2> DEFINE n == Len(s) - 1
  <2>2. n \in Int /\ n >= 0
    BY <1>1
  <2> HIDE DEF n
  <2>3. /\ SubSeq(s, 1, n) \in Seq(S)
        /\ Len(SubSeq(s, 1, n)) = IF 1 <= n THEN n - 1 + 1 ELSE 0
        /\ \A k \in 1 .. n - 1 + 1 : SubSeq(s, 1, n)[k] = s[1 + k - 1]
    BY <2>1, <2>2, SubSeqProperties DEF n
  <2>4. /\ SubSeq(s, 1, n) \in Seq(S)
        /\ Len(SubSeq(s, 1, n)) = n
        /\ \A k \in 1 .. n : SubSeq(s, 1, n)[k] = s[k]
    BY <2>2, <2>3
  <2> QED
    BY <2>4, Zenon DEF PopBack, n
<1> QED
  BY <1>1, <1>2, <1>3 DEF Back

\* An address inside the storage lies in one of the blocks.
LEMMA IndexInRange ==
    ASSUME PoolAssumption, NEW b \in Blocks, Owns(b)
    PROVE  Index(b) \in Indices
<1>1. b.data \in Nat /\ b.data < BlockCount * BlockSize
  BY PoolAssumption DEF PoolAssumption, Blocks, Owns, Address
<1> DEFINE q == b.data \div BlockSize
<1>2. q \in Nat /\ BlockSize * q <= b.data
  <2>1. \A x \in Nat, d \in Nat \ {0} : x \div d \in Nat /\ d * (x \div d) <= x
    BY Z3
  <2> QED
    BY <1>1, <2>1, PoolAssumption DEF PoolAssumption
<1> HIDE DEF q
<1>3. q < BlockCount
  <2>1. SUFFICES ASSUME q >= BlockCount PROVE FALSE
    BY <1>2, PoolAssumption DEF PoolAssumption
  <2>2. \A x, y, z \in Nat : x >= y => z * x >= z * y
    OBVIOUS
  <2>3. BlockSize * q >= BlockSize * BlockCount
    BY <2>1, <2>2, <1>2, PoolAssumption DEF PoolAssumption
  <2> QED
    BY <2>3, <1>1, <1>2, PoolAssumption DEF PoolAssumption
<1> QED
  BY <1>2, <1>3, PoolAssumption DEF PoolAssumption, Index, Indices, q

\* The constructor
LEMMA InitInv ==
    ASSUME PoolAssumption, Init
    PROVE  Inv
<1>1. freeList \in Seq(Indices) /\ Len(freeList) = BlockCount
  BY PoolAssumption DEF PoolAssumption, Init, Indices
<1>2. \A i \in Indices : BlockCount - i \in 1 .. BlockCount /\ freeList[BlockCount - i] = i
  BY PoolAssumption DEF PoolAssumption, Init, Indices
<1>3. FreeListExact
  BY <1>1, <1>2, PoolAssumption DEF PoolAssumption, FreeListExact, Init, Indices
<1> QED
  BY <1>1, <1>3, PoolAssumption DEF PoolAssumption, Inv, TypeOK, OneHolder, Init

\* Allocate keeps the free list exact
LEMMA AllocateInv ==
    ASSUME Inv, NEW c \in Clients, Allocate(c)
    PROVE  Inv'
<1>1. CASE freeList = << >>
  BY <1>1 DEF Allocate, vars, Inv, TypeOK, FreeListExact, OneHolder
<1>2. CASE freeList # << >>
  <2> DEFINE i == Back(freeList)
  <2>0. /\ freeList' = PopBack(freeList)
        /\ allocated' = [allocated EXCEPT ![i] = TRUE]
        /\ holders' = [holders EXCEPT ![i] = @ \cup {c}]
        /\ misused' = misused
    BY <1>2 DEF Allocate
  <2>1. /\ Len(freeList) \in Nat /\ Len(freeList) > 0
        /\ i \in Indices
        /\ freeList' \in Seq(Indices)
        /\ Len(freeList') = Len(freeList) - 1
        /\ \A k \in 1 .. Len(freeList) - 1 : freeList'[k] = freeList[k]
    BY <1>2, <2>0, PopBackFacts DEF Inv, TypeOK
  <2>2. i = freeList[Len(freeList)]
    BY DEF Back
  <2> HIDE DEF i
  <2>3. TypeOK'
    BY <2>0, <2>1 DEF Inv, TypeOK
  <2>4. FreeListExact'
    <3>1. \A k \in 1 .. Len(freeList') : freeList'[k] # i
      BY <2>1, <2>2 DEF Inv, FreeListExact
    <3>2. \A j \in Indices : j # i =>
            ((\E k \in 1 .. Len(freeList) : freeList[k] = j)
              <=> (\E k \in 1 .. Len(freeList') : freeList'[k] = j))
      BY <2>1, <2>2
    <3>3. \A j \in Indices : allocated'[j] = (IF j = i THEN TRUE ELSE allocated[j])
      BY <2>0, <2>1 DEF Inv, TypeOK
    <3>4. \A j, k \in 1 .. Len(freeList') : freeList'[j] = freeList'[k] => j = k
      BY <2>1 DEF Inv, FreeListExact
    <3>5. \A j \in Indices : ~allocated'[j] <=> \E k \in 1 .. Len(freeList') : freeList'[k] = j
      BY <3>1, <3>2, <3>3 DEF Inv, FreeListExact
    <3> QED
      BY <3>4, <3>5 DEF FreeListExact
  <2>5. OneHolder'
    <3>1. ~allocated[i]
      BY <2>1, <2>2 DEF Inv, FreeListExact
    <3> QED
      BY <2>0, <2>1, <3>1 DEF Inv, OneHolder, TypeOK
  <2> QED
    BY <2>3, <2>4, <2>5 DEF Inv
<1> QED
  BY <1>1, <1>2

\* Deallocate keeps the free list exact, whatever block it is given
LEMMA DeallocateInv ==
    ASSUME PoolAssumption, Inv, NEW c \in Clients, NEW b \in Blocks, Deallocate(c, b)
    PROVE  Inv'
<1>1. CASE ~Accepts(b)
  BY <1>1 DEF Deallocate, vars, Inv, TypeOK, FreeListExact, OneHolder
<1>2. CASE Accepts(b)
  <2> DEFINE i == Index(b)
  <2>0. /\ freeList' = Append(freeList, i)
        /\ allocated' = [allocated EXCEPT ![i] = FALSE]
        /\ holders' = [holders EXCEPT ![i] = @ \ {c}]
        /\ misused' = (misused \/ c \notin holders[i])
        /\ allocated[i]
    BY <1>2 DEF Deallocate, Accepts
  <2>1. i \in Indices
    BY <1>2, IndexInRange DEF Accepts
  <2> HIDE DEF i
  <2>2. /\ Len(freeList) \in Nat
        /\ Len(freeList') = Len(freeList) + 1
        /\ \A k \in 1 .. Len(freeList) : freeList'[k] = freeList[k]
        /\ freeList'[Len(freeList) + 1] = i
        /\ freeList' \in Seq(Indices)
    BY <2>0, <2>1 DEF Inv, TypeOK
  <2>3. TypeOK'
    BY <2>0, <2>1, <2>2 DEF Inv, TypeOK
  <2>4. FreeListExact'
    <3>1. \A k \in 1 .. Len(freeList) : freeList[k] # i
      BY <2>0, <2>1 DEF Inv, FreeListExact
    <3>2. \A j \in Indices :
            (\E k \in 1 .. Len(freeList') : freeList'[k] = j)
              <=> (j = i \/ \E k \in 1 .. Len(freeList) : freeList[k] = j)
      BY <2>2
    <3>3. \A j \in Indices : allocated'[j] = (IF j = i THEN FALSE ELSE allocated[j])
      BY <2>0, <2>1 DEF Inv, TypeOK
    <3>4. \A j, k \in 1 .. Len(freeList') : freeList'[j] = freeList'[k] => j = k
      BY <2>2, <3>1, SMTT(30) DEF Inv, FreeListExact
    <3>5. \A j \in Indices : ~allocated'[j] <=> \E k \in 1 .. Len(freeList') : freeList'[k] = j
      BY <3>2, <3>3 DEF Inv, FreeListExact
    <3> QED
      BY <3>4, <3>5 DEF FreeListExact
  <2>5. OneHolder'
    BY <2>0, <2>1 DEF Inv, OneHolder, TypeOK
  <2> QED
    BY <2>3, <2>4, <2>5 DEF Inv
<1> QED
  BY <1>1, <1>2

\* The invariant holds of every behaviour.
LEMMA PoolInvariant ==
    ASSUME PoolAssumption
    PROVE  Spec => []Inv
<1>1. Init => Inv
  BY InitInv
<1>2. Inv /\ [Next]_vars => Inv'
  <2>1. Inv /\ Next => Inv'
    BY AllocateInv, DeallocateInv DEF Next
  <2>2. Inv /\ UNCHANGED vars => Inv'
    BY DEF vars, Inv, TypeOK, FreeListExact, OneHolder
  <2> QED
    BY <2>1, <2>2
<1> QED
  BY <1>1, <1>2, PTL DEF Spec

\* FreeListExact is an invariant of FixedBlockPool: whatever clients return (a
\* block twice, another client's, a foreign or a misaligned address, a wrong
\* size), no index leaves the free list but by Allocate, and none is there twice.
THEOREM FreeListIsExact ==
    ASSUME PoolAssumption
    PROVE  Spec => []FreeListExact
<1>1. Inv => FreeListExact
  BY DEF Inv
<1> QED
  BY <1>1, PoolInvariant, PTL

\* OneHolder is an invariant of FixedBlockPool: Allocate gives no block to two
\* clients at a time while each returns only what it holds.  Behind a double
\* free of a block that was allocated again nothing is promised.
THEOREM OwnReturnsKeepOneHolder ==
    ASSUME PoolAssumption
    PROVE  Spec => []OneHolder
<1>1. Inv => OneHolder
  BY DEF Inv
<1> QED
  BY <1>1, PoolInvariant, PTL
============================================================================
