----------------------------- MODULE MemoryPool -----------------------------
(***************************************************************************)
(* MemoryPool, MemoryPoolBlob and MemoryPoolSingleBlock                    *)
(* (game/common/system/mempool.cpp, memblob.h, memblock.h): a pool hands   *)
(* out blocks of one size.  It takes memory in blobs of many blocks; each  *)
(* blob chains its free blocks, and the pool remembers one blob that may   *)
(* have some.  The module has a family of pools, the list of               *)
(* MemoryPoolFactory; a blob is in one pool's list at most, and that pool  *)
(* is its m_owningPool.                                                    *)
(*                                                                         *)
(* Allocate_Block and Free_Block hold g_memoryPoolCriticalSection from     *)
(* start to end, so one action per call is what any number of threads      *)
(* can do.  Release_Empties and Reset take no lock; they are modelled for  *)
(* a program that calls them from one thread while no other allocates.     *)
(***************************************************************************)
EXTENDS Integers, Sequences, FiniteSets, Functions

CONSTANTS
  Pools,           \* MemoryPool objects
  Blobs,           \* MemoryPoolBlob objects
  InitialCount,    \* m_initialAllocationCount of each pool
  OverflowCount,   \* m_overflowAllocationCount of each pool
  MaxUsed,         \* bound of the model on m_usedBlocksInPool, which can drift
  NoBlob

ASSUME PoolAssumption ==
  /\ InitialCount \in [Pools -> Nat \ {0}] /\ OverflowCount \in [Pools -> Nat \ {0}]
  /\ NoBlob \notin Blobs

VARIABLES
  blobs,       \* m_firstBlob .. m_lastBlob of each pool
  size,        \* m_totalBlocksInBlob
  free,        \* the chain from m_firstFreeBlock, by the blocks' places in the blob
  usedInBlob,  \* m_usedBlocksInBlob
  firstFree,   \* m_firstBlobWithFreeBlocks
  used,        \* m_usedBlocksInPool
  total,       \* m_totalBlocksInPool
  peak,        \* m_peakUsedBlocksInPool
  held         \* the blocks callers have, as <<blob, place>>

poolVars == <<blobs, size, free, usedInBlob, firstFree, used, total, peak, held>>

Larger(a, b) == IF a > b THEN a ELSE b

Live(p) == {blobs[p][i] : i \in 1..Len(blobs[p])}

HeldFrom(p) == {block \in held : block[1] \in Live(p)}

HasFree(b) == free[b] # << >>

\* Init_Blob: every block of a new blob is on its chain, in order.
FullChain(count) == [i \in 1..count |-> i]

\* The pools of P with one new blob each, and nothing of what they had.
InitialBlob(P, first) ==
  /\ \A p, q \in P : first[p] = first[q] => p = q
  /\ blobs' = [p \in Pools |-> IF p \in P THEN <<first[p]>> ELSE blobs[p]]
  /\ LET fresh == {first[p] : p \in P}
         count(b) == InitialCount[CHOOSE p \in P : first[p] = b] IN
     /\ size' = [b \in Blobs |-> IF b \in fresh THEN count(b) ELSE size[b]]
     /\ free' = [b \in Blobs |-> IF b \in fresh THEN FullChain(count(b)) ELSE free[b]]
     /\ usedInBlob' = [b \in Blobs |-> IF b \in fresh THEN 0 ELSE usedInBlob[b]]
  /\ firstFree' = [p \in Pools |-> IF p \in P THEN first[p] ELSE firstFree[p]]
  /\ used' = [p \in Pools |-> IF p \in P THEN 0 ELSE used[p]]
  /\ total' = [p \in Pools |-> IF p \in P THEN InitialCount[p] ELSE total[p]]
  /\ peak' = [p \in Pools |-> IF p \in P THEN 0 ELSE peak[p]]

PoolsInit ==
  \E first \in [Pools -> Blobs] :
    /\ \A p, q \in Pools : first[p] = first[q] => p = q
    /\ LET count(b) == LET P == {p \in Pools : first[p] = b} IN
                       IF P = {} THEN 0 ELSE InitialCount[CHOOSE p \in P : TRUE] IN
       /\ size = [b \in Blobs |-> count(b)]
       /\ free = [b \in Blobs |-> FullChain(count(b))]
    /\ blobs = [p \in Pools |-> <<first[p]>>]
    /\ firstFree = first
    /\ usedInBlob = [b \in Blobs |-> 0]
    /\ used = [p \in Pools |-> 0] /\ peak = [p \in Pools |-> 0]
    /\ total = InitialCount
    /\ held = {}

\* The blob to allocate from: the remembered one, or when that is full the first
\* in the list that is not.
FirstWithFreeHasty(p) ==       \* mutant: the list is not searched
  IF firstFree[p] # NoBlob /\ ~HasFree(firstFree[p]) THEN NoBlob ELSE firstFree[p]
FirstWithFree(p) ==
  IF firstFree[p] = NoBlob \/ HasFree(firstFree[p]) THEN firstFree[p]
  ELSE IF \A b \in Live(p) : ~HasFree(b) THEN NoBlob
  ELSE blobs[p][CHOOSE i \in 1..Len(blobs[p]) :
                  HasFree(blobs[p][i]) /\ \A j \in 1..(i - 1) : ~HasFree(blobs[p][j])]

Taken(p) ==
  /\ used[p] < MaxUsed
  /\ used' = [used EXCEPT ![p] = @ + 1]
  /\ peak' = [peak EXCEPT ![p] = Larger(@, used[p] + 1)]

\* Allocate_Block from a blob that has a free block.
AllocateBlock(p) ==
  LET b == FirstWithFree(p) IN
  /\ b # NoBlob
  /\ held' = held \cup {<<b, Head(free[b])>>}
  /\ free' = [free EXCEPT ![b] = Tail(@)]
  /\ usedInBlob' = [usedInBlob EXCEPT ![b] = @ + 1]
  /\ firstFree' = [firstFree EXCEPT ![p] = b]
  /\ Taken(p)
  /\ UNCHANGED <<blobs, size, total>>

\* Allocate_Block when no blob has: Create_Blob, and the first block of the new
\* blob is taken.
AllocateOverflow(p, b) ==
  /\ FirstWithFree(p) = NoBlob
  /\ \A q \in Pools : b \notin Live(q)
  /\ blobs' = [blobs EXCEPT ![p] = Append(@, b)]
  /\ size' = [size EXCEPT ![b] = OverflowCount[p]]
  /\ free' = [free EXCEPT ![b] = Tail(FullChain(OverflowCount[p]))]
  /\ usedInBlob' = [usedInBlob EXCEPT ![b] = 1]
  /\ firstFree' = [firstFree EXCEPT ![p] = b]
  /\ total' = [total EXCEPT ![p] = @ + OverflowCount[p]]
  /\ held' = held \cup {<<b, 1>>}
  /\ Taken(p)

Allocate(p) == AllocateBlock(p) \/ \E b \in Blobs : AllocateOverflow(p, b)

\* Free_Single_Block: the block becomes the head of its blob's chain.
ChainedNowhere(b, i) == free      \* mutant: the block is not chained
Chained(b, i) == [free EXCEPT ![b] = <<i>> \o @]

\* Free_Block of the pool that owns the block's blob.  The pool's own count goes
\* down only when the pool had no blob with free blocks to remember.
FreeBlock(p, block) ==
  LET b == block[1] IN
  /\ block \in HeldFrom(p)
  /\ held' = held \ {block}
  /\ free' = Chained(b, block[2])
  /\ usedInBlob' = [usedInBlob EXCEPT ![b] = @ - 1]
  /\ IF firstFree[p] = NoBlob
       THEN firstFree' = [firstFree EXCEPT ![p] = b] /\ used' = [used EXCEPT ![p] = @ - 1]
       ELSE UNCHANGED <<firstFree, used>>
  /\ UNCHANGED <<blobs, size, total, peak>>

CountWithoutTotal(p, D) ==       \* mutant: m_totalBlocksInBlob is subtracted
  used[p] - SumFunctionOnSet(size, D)
CountWithout(p, D) == used[p] - SumFunctionOnSet(usedInBlob, D)

\* The list q when Remove_Blob_From_List has taken the blobs of D out of it.
Without(q, D) ==
  LET left[n \in 0..Len(q)] ==
        IF n = 0 THEN << >>
        ELSE IF q[n] \in D THEN left[n - 1] ELSE Append(left[n - 1], q[n]) IN
  left[Len(q)]

\* What Free_Blob leaves of the list, the counts and the remembered blob when the
\* blobs of D are freed, front to back.
Freed(p, D) ==
  LET rest == Without(blobs[p], D) IN
  /\ blobs' = [blobs EXCEPT ![p] = rest]
  /\ used' = [used EXCEPT ![p] = CountWithout(p, D)]
  /\ total' = [total EXCEPT ![p] = @ - SumFunctionOnSet(size, D)]
  /\ firstFree' = [firstFree EXCEPT ![p] = IF @ \notin D THEN @
                                           ELSE IF rest = << >> THEN NoBlob ELSE Head(rest)]

Empties(p) == {b \in Live(p) : usedInBlob[b] = 0}

\* Release_Empties frees every blob none of whose blocks is used.  It reads the
\* next pointer of a blob it has just freed.  What is modelled of that read is that
\* the pointer is still there, or that it reads as null and the loop stops early;
\* a loop that follows anything else is not.
ReleaseEmpties(p) ==
  /\ \E n \in 1..Len(blobs[p]) :
       /\ n = Len(blobs[p]) \/ blobs[p][n] \in Empties(p)
       /\ Freed(p, {blobs[p][i] : i \in 1..n} \cap Empties(p))
  /\ UNCHANGED <<size, free, usedInBlob, peak, held>>

\* Reset of each pool of P: every blob is freed, used or not, and the first one
\* is made anew.
ResetPools(P) ==
  /\ \E first \in [P -> Blobs \ UNION {Live(q) : q \in Pools \ P}] : InitialBlob(P, first)
  /\ held' = held \ UNION {HeldFrom(p) : p \in P}

-----------------------------------------------------------------------------

Entries(q) == {q[i] : i \in 1..Len(q)}

\* A block is on its blob's chain exactly once or in a caller's hands, never
\* both and never neither, and the blob's count is of the latter: no block is
\* handed out twice and none is lost, through overflow, frees in any order,
\* released blobs and resets.
EveryBlockOnce ==
  \A p \in Pools : \A b \in Live(p) :
    LET out == {i \in 1..size[b] : <<b, i>> \in held} IN
    /\ Cardinality(Entries(free[b])) = Len(free[b])
    /\ Entries(free[b]) = (1..size[b]) \ out
    /\ usedInBlob[b] = Cardinality(out)

\* A pool takes a new blob only when every block it has is in use, although it
\* remembers just one of the blobs that may have free ones.
GrowsOnlyWhenFull ==
  [][\A p \in Pools : Len(blobs'[p]) > Len(blobs[p]) => Cardinality(HeldFrom(p)) = total[p]]_poolVars

\* The counts a pool keeps of itself: it never believes that it has fewer
\* blocks in use than it has (it may believe it has more),
\* the peak covers both, and the total is that of its blobs.
CountsCoverUse ==
  \A p \in Pools :
    /\ Cardinality(HeldFrom(p)) <= used[p] /\ used[p] <= peak[p]
    /\ total[p] = SumFunctionOnSet(size, Live(p))
=============================================================================
