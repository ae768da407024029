SPECIFICATION FairSpec
CONSTANTS
  Callers = {c1, c2}
  Execs = {x1, x2}
  Approvals = {a1}
  None = None
  MaxCalls = 2
  FailOpen = TRUE
  Env = {"error", "uncaptured", "unreachable", "chain", "kill", "unscoped", "repeated"}
INVARIANT TypeOK
INVARIANT RunsOnlyApproved
PROPERTY CallEnds
CHECK_DEADLOCK FALSE
