SPECIFICATION FairSpec
CONSTANTS
  Lasting = {"stop", "rejected", "unconfirmed"}
  Events = {e1, e2, e3}
  Critical = {}
  Env = {"rejected", "refused", "overrun", "unconfirmed", "unknown", "partial", "unreachable", "unauthorized", "forbidden", "timeout", "stop"}
  MaxFaults = 1
  BatchSize = 3
  MaxBuffer = 3
  MaxAttempts = 1
  MaxTracked = 8
  MaxDepth = 4
  BisectBudget = 4
  DlqCap = 2
  HoldCap = 1
  WalMax = 2
PROPERTY EventuallySettled
INVARIANT TypeOK
INVARIANT NoSilentLoss
INVARIANT ParkedNeverResent
