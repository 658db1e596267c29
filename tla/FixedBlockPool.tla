-------------------------- MODULE FixedBlockPool ---------------------------
(***************************************************************************)
(* infrastructure/memory_pool/FixedBlockPool.cpp: a single-threaded pool   *)
(* of equal blocks with a stack of free indices and a flag per block.      *)
(*                                                                         *)
(* An address is its distance from m_storage; Null is nullptr.  A client   *)
(* may hand any block to Deallocate: its own, one it returned before,      *)
(* another client's, the middle of a block or a foreign address.           *)
(***************************************************************************)
EXTENDS Integers, Sequences

CONSTANTS
    Clients,       \* the owners of blocks
    BlockSize,     \* blockSize
    BlockCount,    \* blockCount
    Null           \* nullptr

\* The constructor throws for zero; blockSize * blockCount fits size_t.  The
\* theorems about the pool have this as their hypothesis.
PoolAssumption ==
    /\ BlockSize \in Nat \ {0}
    /\ BlockCount \in Nat \ {0}
    /\ Null \notin Int

VARIABLES
    freeList,      \* m_freeList; back() is its last element
    allocated,     \* m_allocated
    holders,       \* history: the clients a block was handed to, until they return it
    misused        \* history: a client returned a block that was not its own

vars == <<freeList, allocated, holders, misused>>

Indices == 0 .. BlockCount - 1
Address(i) == i * BlockSize

\* The blocks a client can name: around and inside the storage, two sizes
Blocks == [data : {Null} \cup (-1 .. Address(BlockCount)), size : {BlockSize, BlockSize + 1}]

Init ==
    /\ freeList = [k \in 1 .. BlockCount |-> BlockCount - k]
    /\ allocated = [i \in Indices |-> FALSE]
    /\ holders = [i \in Indices |-> {}]
    /\ misused = FALSE

Back(s) == s[Len(s)]
PopBack(s) == SubSeq(s, 1, Len(s) - 1)

\* Allocate returns an invalid block when the free list is empty
Allocate(c) ==
    IF freeList = << >> THEN UNCHANGED vars
    ELSE LET i == Back(freeList)
         IN /\ freeList' = PopBack(freeList)
            /\ allocated' = [allocated EXCEPT ![i] = TRUE]
            /\ holders' = [holders EXCEPT ![i] = @ \cup {c}]
            /\ UNCHANGED misused

Owns(b) ==
    /\ b.data # Null
    /\ 0 <= b.data /\ b.data < Address(BlockCount)
    /\ b.size = BlockSize

Aligned(b) == b.data % BlockSize = 0
Index(b) == b.data \div BlockSize

\* The early returns of Deallocate
Accepts(b) == Owns(b) /\ Aligned(b) /\ allocated[Index(b)]

Deallocate(c, b) ==
    IF ~Accepts(b) THEN UNCHANGED vars
    ELSE LET i == Index(b)
         IN /\ allocated' = [allocated EXCEPT ![i] = FALSE]
            /\ freeList' = Append(freeList, i)
            /\ holders' = [holders EXCEPT ![i] = @ \ {c}]
            /\ misused' = (misused \/ c \notin holders[i])

Next == \E c \in Clients : Allocate(c) \/ \E b \in Blocks : Deallocate(c, b)

Spec == Init /\ [][Next]_vars
----------------------------------------------------------------------------
TypeOK ==
    /\ freeList \in Seq(Indices)
    /\ allocated \in [Indices -> BOOLEAN]
    /\ holders \in [Indices -> SUBSET Clients]
    /\ misused \in BOOLEAN

(* The free list is a permutation of the blocks that are not allocated:    *)
(* none is lost and none is there twice, whatever clients return.          *)
FreeListExact ==
    /\ \A j, k \in 1 .. Len(freeList) : freeList[j] = freeList[k] => j = k
    /\ \A i \in Indices : ~allocated[i] <=> \E k \in 1 .. Len(freeList) : freeList[k] = i

(* As long as clients return only blocks they hold, a block has one holder *)
(* when it is allocated and none when it is free.  No more can be said: a  *)
(* client that returns a block once more after it was handed to another    *)
(* one passes every test of Deallocate, and the next Allocate hands out a  *)
(* block that is in use ("double_free_is_rejected", MemoryPool/behavior.md,*)
(* holds only until the block is allocated again).                         *)
OneHolder ==
    ~misused => \A i \in Indices :
        IF allocated[i] THEN \E c \in Clients : holders[i] = {c} ELSE holders[i] = {}
============================================================================
