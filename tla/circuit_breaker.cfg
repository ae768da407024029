SPECIFICATION FairSpec
CONSTANTS
  Procs = {"w1", "w2"}
  Callers = {1, 2, 3}
  Owner <- TwoWorkers
  Threshold = 2
  HalfOpenMax = 1
  UseRedis = TRUE
  Env = {"redis", "interrupt"}
INVARIANTS
  TypeOK
  ClosedBelowThreshold
  WindowBounded
PROPERTIES
  Recovers
