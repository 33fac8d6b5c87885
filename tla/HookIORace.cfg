SPECIFICATION HookSpec
CONSTANTS
  t1 = t1
  f1 = f1
  f2 = f2
  Threads = {t1}
  Waiters = {f1, f2}
  None = None
  MaxOpens = 2
  MaxLate = 1
  Links = {TRUE}
  Timeouts = {TRUE}
SYMMETRY Symmetry
INVARIANT Parked
CHECK_DEADLOCK FALSE
