CONSTANTS
  Messages = {m1, m2, m3}
  Priorities = {10, 20}
  MaxTranslators = 3
  None = None
SPECIFICATION LinkedSpec
INVARIANTS
  OfferedInOrder
  LinksHoldLists
PROPERTY PassedOnWereOffered
SYMMETRY Symmetry
