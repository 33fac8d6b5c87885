SPECIFICATION Spec
CONSTANTS
  Threads = {t1, t2}
  Waiters = {w1, w2}
  None = None
  Reqs = {r1, m1}
  Plain = {m1}
  MaxStarts = 2
  Autos = {TRUE, FALSE}
INVARIANTS WokenOnce NoEdgeLost OneLoopEach CompletedOnce QueueServed
PROPERTIES ReadyWakes StaysClosed RequestEnds Reconnects
CHECK_DEADLOCK FALSE
