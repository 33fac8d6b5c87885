SPECIFICATION RecurringSpec
CONSTANTS
  t1 = t1
  x1 = x1
  Threads = {t1}
  Timers = {x1}
  Periods = {1, 2}
  Jumps = {1}
  Backs = {1, 3}
  Hour = 1
  MaxTimeout = 3
  IntHalf = 4
  Start = 5
  MaxClock = 6
  Servers = {s1}
  Nameless = {}
  MaxChanges = 2
  MaxFaults = 1
  Commands = {k1, k2}
  MaxConns = 2
INVARIANT CommandOnce
PROPERTIES Expires SdSettles CommandEnds
