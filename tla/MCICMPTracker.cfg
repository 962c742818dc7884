SPECIFICATION FairTrackerSpec
CONSTANTS
  Seqs = {p1, p2}
  MaxReplies = 2
  BufCap = 1
CHECK_DEADLOCK FALSE
INVARIANTS
  VerdictIsFinal
  CountersExact
PROPERTIES
  EverySentIsSettled
