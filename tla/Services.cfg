SPECIFICATION Spec
CONSTANTS
  LbItems = {i1, i2}
  LbGetters = {g1, g2}
  RawWeights = {0, 3}
  LbGrace = 1
  LbMaxTime = 4
  StatSize = 2
  Callers = {a1, a2}
  MaxSec = 3
  MaxCalls = 2
  Servers = {s1, s2}
  Nameless = {s2}
  MaxChanges = 2
  MaxFaults = 1
  Clients = {c1, c2}
  Domains = {d1, d2}
  Weights = {1, 2}
  Handlers = {h1, h2}
  MaxSets = 3
  Bytes = {1, 2}
  BaseSize = 2
  MaxLen = 3
  MaxCap = 6
  Requests = {q1, q2, q3}
  HttpConns = {n1, n2}
  MaxRequest = 3
  SqlUsers = {u1, u2}
  MySQLs = {m1, m2}
  PoolSize = 1
  MaxGets = 2
SYMMETRY Symmetry
INVARIANTS WeightShare WindowExact SdServes DirectoryExact OwnResponse PoolSound
PROPERTIES FindsConnected IsFlatBuffer
CHECK_DEADLOCK FALSE
