SPECIFICATION PingerFairSpec
CONSTANTS
  TotalPkts = 2
  MaxSeq = 3
  Seqs = {1, 2, 3}
  MaxReplies = 1
  BufCap = 1
  SocketErrors = FALSE
CHECK_DEADLOCK FALSE
PROPERTIES
  CountIsSent
