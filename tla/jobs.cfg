CONSTANTS
  Requesters = {q}
  MaxSessions = 2
  MaxJobs = 2
  MaxAsks = 1
SPECIFICATION FairSpec
INVARIANTS
  TypeOK
  SuccessMeansRun
  SuccessWasAcked
PROPERTIES
  RequestServed
