SPECIFICATION Spec
CONSTANTS
  t1 = t1
  t2 = t2
  f1 = f1
  f2 = f2
  f3 = f3
  Threads = {t1, t2}
  Roots = {}
  Fibers = {f1, f2, f3}
  Ops = {"event"}
  AnyThread = AnyThread
  User = User
  None = None
SYMMETRY Symmetry
INVARIANT DrainedOnExit
