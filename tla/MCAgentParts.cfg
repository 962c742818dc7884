SPECIFICATION PartsSpec
CONSTANTS
  TotalPkts = 2
  MaxSeq = 3
  Seqs = {1, 2, 3}
  MaxReplies = 2
  BufCap = 1
  SocketErrors = TRUE
  s1 = s1
  s2 = s2
  k1 = k1
  Streams = {s1, s2}
  Keys = {k1}
  KeyOf <- SharedKey
  NumTokensPerKey = 1
  NumItems = 2
  Requests = {r1, r2, r3, r4}
  ClientKeys = {k1}
  NumRequestsLimit = 2
  WindowLength = 1
  MaxTime = 2
CHECK_DEADLOCK FALSE
INVARIANTS
  WithinCount
  CompleteAtEnd
  EmissionBound
  NothingLost
  LimitHolds
PROPERTIES
  CancelEndsPing
  EveryStreamEnds
  RejectionJustified
