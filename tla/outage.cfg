SPECIFICATION Spec
CONSTANTS
  Lasting = {"unreachable", "stop"}
  Events = {e1, e2, e3, e4}
  Critical = {e4}
  Env = {"unreachable", "outage", "crash", "stop", "lock", "late", "disk"}
  MaxFaults = 2
  BatchSize = 2
  MaxBuffer = 2
  MaxAttempts = 1
  MaxTracked = 2
  MaxDepth = 4
  BisectBudget = 4
  DlqCap = 2
  HoldCap = 1
  WalMax = 2
SYMMETRY Symmetry
INVARIANT BufferBounded
