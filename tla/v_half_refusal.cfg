SPECIFICATION Spec
CONSTANTS
  Lasting = {}
  Events = {e1, e2, e3}
  Critical = {}
  Env = {"halves", "rejected", "partial"}
  MaxFaults = 2
  BatchSize = 2
  MaxBuffer = 3
  MaxAttempts = 1
  MaxTracked = 2
  MaxDepth = 4
  BisectBudget = 4
  DlqCap = 4
  HoldCap = 1
  WalMax = 2
SYMMETRY Symmetry
INVARIANT NoSilentLoss
