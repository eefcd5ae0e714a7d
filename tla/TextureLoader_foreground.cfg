SPECIFICATION Spec
CONSTANTS
  t1 = t1  t2 = t2
  k1 = k1  k2 = k2  k3 = k3  k4 = k4
  main = main  c1 = c1  l1 = l1  l2 = l2
  Main = main
  Textures = {t1, t2}
  Tasks = {k1, k2, k3}
  Clients = {c1}
  Loaders = {l1}
  Thumbnailed = {t1}
  Ops = {"init", "foreground", "flush", "suspend", "invalidate", "deinit"}
  NoTask = NoTask
  NoTexture = NoTexture
  NoThread = NoThread
SYMMETRY Sym
CHECK_DEADLOCK FALSE
INVARIANTS
  NoTaskLost
  IndInv
  TaskPointers
  InitializedHasSurface
  SurfacesUnlocked
PROPERTIES
  LoaderUndisturbed
  ImplementsRequests
