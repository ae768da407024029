SPECIFICATION Spec
CONSTANTS
  Lasting = {}
  Events = {e1, e2, e3}
  Critical = {e3}
  Env = {"unreachable", "forbidden", "timeout", "overrun", "unconfirmed", "partial", "crash", "outage", "disk"}
  MaxFaults = 4
  BatchSize = 2
  MaxBuffer = 2
  MaxAttempts = 1
  MaxTracked = 2
  MaxDepth = 4
  BisectBudget = 4
  DlqCap = 2
  HoldCap = 1
  WalMax = 2
SYMMETRY Symmetry
INVARIANT NoSilentLoss
INVARIANT JournaledStaysDurable
INVARIANT HeldIsDurable
PROPERTY OnlyRefusedParked
PROPERTY KeepsPromise
