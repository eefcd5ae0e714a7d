SPECIFICATION FairSpec
CONSTANTS
  t1 = t1  t2 = t2
  k1 = k1  k2 = k2  k3 = k3  k4 = k4
  main = main  c1 = c1  l1 = l1  l2 = l2
  Main = main
  Textures = {t1}
  Tasks = {k1, k2}
  Clients = {c1}
  Loaders = {l1}
  Thumbnailed = {t1}
  Ops = {"init", "flush", "suspend", "invalidate"}
  NoTask = NoTask
  NoTexture = NoTexture
  NoThread = NoThread
PROPERTIES
  FlushReturns
  CompletesRequests
