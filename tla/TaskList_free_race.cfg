CONSTANTS
  Lists = {free}
  FreeList = free
  Tasks = {k1, k2, k3}
  Null = Null
SPECIFICATION RaceSpec
INVARIANT DeletesFreeTasksOnly
CHECK_DEADLOCK FALSE
