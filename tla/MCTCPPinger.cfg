SPECIFICATION FairSpec
CONSTANTS
  p1 = p1
  p2 = p2
  None = None
  Ports = {p1, p2}
  Seqs = {0, 1, 2}
  TotalPkts = 2
  PipeDepth = 1
  MaxReplies = 2
  SendErrors = TRUE
CHECK_DEADLOCK FALSE
INVARIANTS
  OneVerdict
  EntriesExpireWhenDue
PROPERTIES
  PingEnds
