CONSTANTS
  e1 = e1  e2 = e2  e3 = e3
  f1 = f1  f2 = f2  f3 = f3
  Events <- MCEvents
  Info <- MCInfo
  Files <- MCFiles
  Size <- MCSize
  Samples <- MCSamples
  Buffers = {b1, b2, b3}
  MaxSize = 2
  MaxRequests = 2
  Null = Null
SPECIFICATION Spec
INVARIANT EventsOwned
INVARIANT SamplesConserved
INVARIANT CallbacksFindEntry
INVARIANT CountsMatch
INVARIANT CacheAccounted
SYMMETRY Symmetry
