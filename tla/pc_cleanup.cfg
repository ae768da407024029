SPECIFICATION Spec
CONSTANTS
  Callers = {c1, c2}
  Execs = {x1, x2, x3, x4}
  Approvals = {a1, a2}
  None = None
  MaxCalls = 3
  FailOpen = FALSE
  Env = {"bare", "raises", "cancelled", "aged", "lost", "sweep"}
SYMMETRY Symmetry
INVARIANT GrantClosed
INVARIANT RunsOnOpenReservation
INVARIANT CompletedNeverCancelled
CHECK_DEADLOCK FALSE
