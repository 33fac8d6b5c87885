SPECIFICATION HookSpec
CONSTANTS
  t1 = t1
  f1 = f1
  f2 = f2
  Threads = {t1}
  Waiters = {f1, f2}
  None = None
  MaxOpens = 2
  MaxLate = 1
  Links = {TRUE, FALSE}
  Timeouts = {TRUE, FALSE}
SYMMETRY Symmetry
INVARIANT
  AddAsserts
CHECK_DEADLOCK FALSE
