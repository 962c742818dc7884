SPECIFICATION FairSpec
CONSTANTS
  NumAddresses = 2
  Seqs = {1, 2}
  MaxReplies = 1
  BufCap = 0
  SocketErrors = TRUE
CHECK_DEADLOCK FALSE
INVARIANTS
  ScannerTypeOK
  CloseIsLast
PROPERTIES
  ScanEnds
