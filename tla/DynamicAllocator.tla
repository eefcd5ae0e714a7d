-------------------------- MODULE DynamicAllocator --------------------------
(***************************************************************************)
(* DynamicMemoryAllocator (game/common/system/memdynalloc.cpp): operator   *)
(* new and the strings take their bytes here.  A small block comes from    *)
(* the first pool whose blocks are large enough, a large one straight from *)
(* the system; the large ones are in a two-way list of their own, and the  *)
(* header of a block tells Free_Bytes which of the two it is.              *)
(*                                                                         *)
(* Allocation and freeing hold g_dmaCriticalSection (and within it the     *)
(* pools' section): one action per call.  Reset takes no lock and is       *)
(* modelled for a program that calls it while no thread allocates.         *)
(***************************************************************************)
EXTENDS MemoryPool

CONSTANTS
  Classes,         \* m_pools, smallest blocks first
  AllocationSize,  \* m_allocationSize of each pool
  Sizes,           \* numbers of bytes that are asked for
  RawBlocks,       \* MemoryPoolSingleBlock objects outside the pools
  Null

ASSUME AllocatorAssumption ==
  /\ Classes \in Seq(Pools) /\ AllocationSize \in [Pools -> Nat] /\ Sizes \subseteq Nat
  /\ Null \notin RawBlocks

VARIABLES
  rawHead,  \* m_rawBlocks
  rawNext,  \* m_nextBlock of the raw blocks
  rawPrev,  \* m_prevBlock
  raw,      \* the raw blocks callers have
  inUse     \* m_usedBlocksInDma

rawVars == <<rawHead, rawNext, rawPrev, raw>>
vars == <<poolVars, rawVars, inUse>>

ClassPools == {Classes[i] : i \in 1..Len(Classes)}

Init ==
  /\ PoolsInit
  /\ rawHead = Null /\ raw = {}
  /\ rawNext = [r \in RawBlocks |-> Null] /\ rawPrev = [r \in RawBlocks |-> Null]
  /\ inUse = 0

\* Find_Pool_For_Size: the pools that would do, the first of which is taken.
Fitting(bytes) == {i \in 1..Len(Classes) : bytes <= AllocationSize[Classes[i]]}
FindPoolForSize(bytes) == Classes[CHOOSE i \in Fitting(bytes) : \A j \in Fitting(bytes) : i <= j]

AllocateFromPool(bytes) ==
  /\ Fitting(bytes) # {}
  /\ Allocate(FindPoolForSize(bytes))
  /\ inUse' = inUse + 1
  /\ UNCHANGED rawVars

\* Raw_Allocate_Single_Block: a new block becomes the head of the list.
AllocateRaw(bytes, r) ==
  /\ Fitting(bytes) = {}
  /\ r \notin raw
  /\ rawNext' = [rawNext EXCEPT ![r] = rawHead]
  /\ rawPrev' = [x \in RawBlocks |-> IF x = rawHead THEN r ELSE IF x = r THEN Null ELSE rawPrev[x]]
  /\ rawHead' = r
  /\ raw' = raw \cup {r}
  /\ inUse' = inUse + 1
  /\ UNCHANGED poolVars

\* Free_Bytes of a block that lies in a blob.
FreeToPool(block) ==
  /\ \E p \in ClassPools : FreeBlock(p, block)
  /\ inUse' = inUse - 1
  /\ UNCHANGED rawVars

\* Remove_Block_From_List.
UnlinkedHeadKept(r) ==        \* mutant: the head is compared after it has moved on
  /\ UNCHANGED rawHead
  /\ rawNext' = [x \in RawBlocks |-> IF x = rawPrev[r] THEN rawNext[r] ELSE rawNext[x]]
  /\ rawPrev' = [x \in RawBlocks |-> IF x = rawNext[r] THEN rawPrev[r] ELSE rawPrev[x]]
Unlinked(r) ==
  /\ rawHead' = IF rawPrev[r] = Null THEN rawNext[r] ELSE rawHead
  /\ rawNext' = [x \in RawBlocks |-> IF x = rawPrev[r] THEN rawNext[r] ELSE rawNext[x]]
  /\ rawPrev' = [x \in RawBlocks |-> IF x = rawNext[r] THEN rawPrev[r] ELSE rawPrev[x]]

CountAfterFreeKept == inUse       \* mutant: a raw block is not counted out
CountAfterFree == inUse - 1

\* Free_Bytes of any other block.
FreeRaw(r) ==
  /\ r \in raw
  /\ Unlinked(r)
  /\ raw' = raw \ {r}
  /\ inUse' = CountAfterFree
  /\ UNCHANGED poolVars

\* Reset: the pools start anew, and the raw blocks are freed from the head of
\* their list until it is empty.
Reset ==
  /\ ResetPools(ClassPools)
  /\ rawHead' = Null /\ raw' = {}
  /\ rawNext' = [r \in RawBlocks |-> Null] /\ rawPrev' = [r \in RawBlocks |-> Null]
  /\ inUse' = 0

Next ==
  \/ \E bytes \in Sizes : AllocateFromPool(bytes) \/ \E r \in RawBlocks : AllocateRaw(bytes, r)
  \/ \E block \in held : FreeToPool(block)
  \/ \E r \in raw : FreeRaw(r)
  \/ \E p \in Pools : ReleaseEmpties(p) /\ UNCHANGED <<rawVars, inUse>>
  \/ Reset

Spec == Init /\ [][Next]_vars

-----------------------------------------------------------------------------

\* What Reset walks is a list of the raw blocks that callers have, all of them and
\* each once: it starts at m_rawBlocks, follows m_nextBlock to the end, and
\* m_prevBlock leads back.  A block that is freed from the middle leaves the rest
\* linked.
RawListIntact ==
  \E list \in [1..Cardinality(raw) -> raw] :
    LET n == Cardinality(raw) IN
    /\ \A i, j \in 1..n : list[i] = list[j] => i = j
    /\ rawHead = IF n = 0 THEN Null ELSE list[1]
    /\ \A i \in 1..n : /\ rawNext[list[i]] = IF i = n THEN Null ELSE list[i + 1]
                       /\ rawPrev[list[i]] = IF i = 1 THEN Null ELSE list[i - 1]

BlobSizes == {InitialCount[p] : p \in Pools} \cup {OverflowCount[p] : p \in Pools}
BlocksOfPools == Blobs \X UNION {1..n : n \in BlobSizes}

HeapOf == INSTANCE Heap WITH
  Blocks <- {<<"pool", b>> : b \in BlocksOfPools} \cup {<<"raw", r>> : r \in RawBlocks},
  allocated <- {<<"pool", b>> : b \in held} \cup {<<"raw", r>> : r \in raw},
  count <- inUse

\* To its callers the allocator is a heap: whatever pools overflow, shrink and
\* start anew beneath it, a block it hands out was nobody's, a block that is freed is
\* the one that was meant, and m_usedBlocksInDma counts them.
ImplementsHeap == HeapOf!Spec
=============================================================================
