SPECIFICATION FairSpec
CONSTANTS
  Workflows = {"w1"}
  Callers = {"c1"}
  Poller = "poller"
  Modes = {"ws", "conn", "http"}
  Env = {"down", "refuse", "drop", "repeat", "resync", "rotate"}
  MaxVersion = 2
  MaxFaults = 3
  MaxReconnects = 1
INVARIANT TypeOK
INVARIANT QuietMeansCurrent
PROPERTY NeverStepsBack
PROPERTY CatchesUp
CHECK_DEADLOCK FALSE
