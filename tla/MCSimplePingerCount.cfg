SPECIFICATION PingerSpec
CONSTANTS
  TotalPkts = 2
  MaxSeq = 3
  Seqs = {1, 2, 3}
  MaxReplies = 2
  BufCap = 1
  SocketErrors = FALSE
CHECK_DEADLOCK FALSE
INVARIANTS
  WithinCount
