CONSTANTS
  small = small  large = large
  Pools <- MCPools
  Classes <- MCClasses
  AllocationSize <- MCAllocationSize
  InitialCount <- MCInitialCount
  OverflowCount <- MCOverflowCount
  Sizes = {16, 17, 33}
  Blobs = {b1, b2, b3}
  RawBlocks = {r1, r2, r3}
  MaxUsed = 3
  NoBlob = NoBlob
  Null = Null
SPECIFICATION Spec
INVARIANT EveryBlockOnce
INVARIANT CountsCoverUse
INVARIANT RawListIntact
PROPERTY GrowsOnlyWhenFull
PROPERTY ImplementsHeap
SYMMETRY Symmetry
