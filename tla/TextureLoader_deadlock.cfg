SPECIFICATION FairSpec
CONSTANTS
  t1 = t1  t2 = t2
  k1 = k1  k2 = k2  k3 = k3  k4 = k4
  main = main  c1 = c1  l1 = l1  l2 = l2
  Main = main
  Textures = {t1, t2}
  Tasks = {k1, k2}
  Clients = {}
  Loaders = {l1}
  Thumbnailed = {t1, t2}
  Ops = {"init", "foreground"}
  NoTask = NoTask
  NoTexture = NoTexture
  NoThread = NoThread
CHECK_DEADLOCK FALSE
PROPERTIES
  ForegroundReturns
