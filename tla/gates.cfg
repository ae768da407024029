SPECIFICATION FairSpec
CONSTANTS
  Confs <- FewSet
  Codes <- WireCodes
  GateSent <- GateAnswersSet
  ExecuteSent <- ExecuteAnswersSet
  GateRetries = 1
  ExecuteRetries = 1
  EdgeRetries = 1
  MaxCalls = 2
  Env = {"box", "direct"}
INVARIANTS TypeOK RefusalIsFinal FailClosed OnlyDenialsReachModel OneOperationPerCall
PROPERTY CallEnds
CHECK_DEADLOCK FALSE
