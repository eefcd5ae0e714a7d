CONSTANTS
  Peers = {p1, p2}
  Bodies = {m1}
  BufferCount = 3
  StatsCount = 2
  MaxFaults = 1
  MaxPeriods = 3
  MaxQueued = 2
  MaxWire = 2
  Empty = Empty
  Noise = Noise
SPECIFICATION TransportSpec
INVARIANT SearchStaysInside
INVARIANT StatisticsWindow
PROPERTY KeptUntilSent
PROPERTY EventuallySent
