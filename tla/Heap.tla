-------------------------------- MODULE Heap --------------------------------
(***************************************************************************)
(* What DynamicMemoryAllocator promises its callers                        *)
(* (game/common/system/memdynalloc.h): a block that is handed out is       *)
(* nobody's yet and stays its owner's until it is freed, and the allocator *)
(* knows how many are out.                                                 *)
(***************************************************************************)
EXTENDS Integers

CONSTANT Blocks   \* the addresses a caller can be given

VARIABLES
  allocated,  \* the blocks callers have
  count       \* how many the allocator believes they have

Init == allocated = {} /\ count = 0

Allocate(b) ==
  /\ b \notin allocated
  /\ allocated' = allocated \cup {b}
  /\ count' = count + 1

Free(b) ==
  /\ b \in allocated
  /\ allocated' = allocated \ {b}
  /\ count' = count - 1

Reset == allocated' = {} /\ count' = 0

Next == Reset \/ \E b \in Blocks : Allocate(b) \/ Free(b)

Spec == Init /\ [][Next]_<<allocated, count>>
=============================================================================
