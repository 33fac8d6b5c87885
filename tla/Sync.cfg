SPECIFICATION Spec
CONSTANTS
  Fibers = {f1, f2, f3}
  Permits = 2
  MaxPermits = 3
  Jobs = {j1, j2, j3}
  Waiter = f1
  FoxSize = 2
  FoxUsers = {u1}
  FoxJobs = {c1, c2}
  Boss = Boss
  SockCap = 1
INVARIANTS SemParked BatchBound JobOnce FreeIsFree
PROPERTIES SemIsSemaphore GroupServes JobRuns
CHECK_DEADLOCK FALSE
