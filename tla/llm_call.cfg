SPECIFICATION Spec
CONSTANTS
  Tasks = {t1, t2}
  Threads = {h1}
  OnThread <- MCOnThread
  Kinds <- MCKinds
  LruMax = 2
  RunsMax = 1
  Env = {"anonymous", "alias", "old", "kill", "lossy", "cancelled", "unparsed", "protect"}
  MaxCalls = 2
  MaxFaults = 2
  MaxReservations = 3
SYMMETRY Symmetry
INVARIANT TypeOK
INVARIANT UsageBookedOnce
INVARIANT UsageAccounted
INVARIANT ReservationClosed
CHECK_DEADLOCK FALSE
