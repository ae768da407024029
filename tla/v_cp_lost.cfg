SPECIFICATION FairSpec
CONSTANTS
  Workflows = {"w1"}
  Callers = {"c1"}
  Poller = "poller"
  Modes = {"ws"}
  Env = {"drop"}
  MaxVersion = 1
  MaxFaults = 1
  MaxReconnects = 2
PROPERTY CommandsArrive
CHECK_DEADLOCK FALSE
