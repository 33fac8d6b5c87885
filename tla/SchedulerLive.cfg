SPECIFICATION LiveSpec
CONSTANTS
  t1 = t1
  t2 = t2
  f1 = f1
  f2 = f2
  f3 = f3
  Threads = {t1, t2}
  Roots = {t1}
  Fibers = {f1, f2, f3}
  Ops = {"sleep", "event", "switch"}
  AnyThread = AnyThread
  User = User
  None = None
PROPERTIES
  
  StopCompletes
