CONSTANTS
  Byte = {0, 1}
  MaxText = 10
  Hashes = {0, 1, 2}
  HashOf <- MCHashOf
  ShortOffset = 2
  ShortLength = 3
  MediumOffset = 3
  MediumLength = 4
  Window = 5
  LongLength = 6
  Block = 8
SPECIFICATION FairSpec
CHECK_DEADLOCK FALSE
INVARIANT RoundTrip
INVARIANT SizeBounded
PROPERTY Terminates
