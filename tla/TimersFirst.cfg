SPECIFICATION Spec
CONSTANTS
  t1 = t1
  t2 = t2
  x1 = x1
  x2 = x2
  Threads = {t1, t2}
  Timers = {x1, x2}
  Periods = {1, 2}
  Jumps = {1}
  Backs = {1}
  Hour = 4
  MaxTimeout = 3
  IntHalf = 4
  Start = 5
  MaxClock = 6
SYMMETRY Symmetry
INVARIANTS
  SetMatches
  OneEnd
  TimerCovered
