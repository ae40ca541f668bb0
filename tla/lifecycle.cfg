CONSTANTS
  MaxSockets = 3
  MaxLines = 3
  MaxChanges = 1
SPECIFICATION FairSpec
INVARIANTS
  TypeOK
  WaitersHaveListener
  NoSocketLeaks
PROPERTIES
  RequestReturns
  StopEnds
