CONSTANTS
  Nodes = {a, b}
  MaxCalls = 2
  Faults = {"crash", "loss", "restart"}
  MaxFaults = 1
SPECIFICATION FairSpec
INVARIANTS
  TypeOK
  CacheNotClosed
  OneLink
  AnswerMatches
PROPERTIES
  CallReturns
