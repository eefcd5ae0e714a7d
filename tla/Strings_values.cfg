CONSTANTS
  Strings = {s1, s2, s3}
  Buffers = {b1, b2, b3, b4}
  Texts <- MCTexts
  Chars <- MCChars
  x = x
  Space = Space
  MaxLength = 3
  ActualSize <- MCActualSize
  CountLimit = 4
  NoData = NoData
SPECIFICATION Spec
INVARIANT CountsOwners
INVARIANT TextsFit
PROPERTY ImplementsValues
SYMMETRY Symmetry
