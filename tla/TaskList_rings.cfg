CONSTANTS
  Lists = {fg, bg}
  Tasks = {k1, k2, k3, k4}
  Null = Null
SPECIFICATION Spec
INVARIANT RingsIntact
PROPERTY ImplementsQueues
