SPECIFICATION Spec
CONSTANTS
  t1 = t1
  t2 = t2
  f1 = f1
  f2 = f2
  f3 = f3
  f4 = f4
  Threads = {t1, t2}
  Roots = {}
  Fibers = {f1, f2, f3, f4}
  Ops = {"sleep", "event", "ready", "switch", "spawn"}
  AnyThread = AnyThread
  User = User
  None = None
SYMMETRY Symmetry
INVARIANTS
  FiberExclusive
  FiberAsserts
  WakeOnce
  CountersExact
