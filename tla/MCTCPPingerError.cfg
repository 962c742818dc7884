SPECIFICATION FairSpec
CONSTANTS
  p1 = p1
  p2 = p2
  None = None
  Ports = {p1, p2}
  Seqs = {0, 1}
  TotalPkts = 1
  PipeDepth = 0
  MaxReplies = 1
  SendErrors = TRUE
CHECK_DEADLOCK FALSE
PROPERTIES
  ErrorEndsPing
