CONSTANTS
  t1 = t1
  t2 = t2
  s1 = s1
  s2 = s2
  a = a
  b = b
  x = x
  y = y
  control = control
  Threads <- MCThreads
  Snapshots = {s1, s2}
  Contracts = {a, b}
  Control = control
  Surface <- MCSurface
  Rejected <- MCRejected
  Capacity = 2
  MaxCalls = 3
  MaxClears = 1
SYMMETRY Interchangeable
SPECIFICATION Spec
INVARIANTS
  CachesStayApart
  AnswersAsUncached
  RefusedForCause
PROPERTIES
  SurfaceSticks
CHECK_DEADLOCK FALSE
