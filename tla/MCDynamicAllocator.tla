------------------------- MODULE MCDynamicAllocator -------------------------
(* Two size classes and three blobs: the small class starts with two blocks  *)
(* and overflows by one, the large one by one, so that a blob can empty in   *)
(* the middle of a list and either pool can take the other's old blob.       *)
EXTENDS DynamicAllocator, TLC

CONSTANTS small, large

MCPools == {small, large}
MCClasses == <<small, large>>
MCAllocationSize == (small :> 16) @@ (large :> 32)
MCInitialCount == (small :> 2) @@ (large :> 1)
MCOverflowCount == (small :> 1) @@ (large :> 1)

Symmetry == Permutations(Blobs) \cup Permutations(RawBlocks)
=============================================================================
