SPECIFICATION HookFairSpec
CONSTANTS
  t1 = t1
  t2 = t2
  f1 = f1
  Threads = {t1, t2}
  Waiters = {f1}
  None = None
  MaxOpens = 2
  MaxLate = 2
  Links = {TRUE, FALSE}
  Timeouts = {TRUE, FALSE}
PROPERTIES ReadyReturns TimeoutKept
CHECK_DEADLOCK FALSE
