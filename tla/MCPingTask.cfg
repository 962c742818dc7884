SPECIFICATION FairSpec
CONSTANTS
  n1 = n1
  n2 = n2
  t1 = t1
  t2 = t2
  None = None
  Refusal = Refusal
  Failure = Failure
  Nodes = {n1, n2}
  Targets = {t1, t2}
  MaxFrom = 2
  Forms <- TheForms
  MaxEvents = 2
INVARIANTS DeliveredInOrder CompleteAtEnd EveryPairAnswered
PROPERTIES LeavingStopsAgents
CHECK_DEADLOCK FALSE
