SPECIFICATION FairSpec
CONSTANTS
  w1 = w1
  w2 = w2
  w3 = w3
  p1 = p1
  p2 = p2
  Writers = {w1, w2, w3}
  Processes = {p1, p2}
  ProcessOf <- MCProcessOf
  Events = {e1, e2, e3}
  Terminal = {e2}
  Bare = Bare
  Torn = Torn
  Broken = Broken
  None = None
  BufferMax = 1
  Env = {"crash", "disk", "outage", "halves"}
  MaxReplays = 2
INVARIANT TypeOK
INVARIANT RowsSurvive
PROPERTY UnreadableKept
PROPERTY AppendEnds
CHECK_DEADLOCK FALSE
