CONSTANTS
  Jobs = {i, j}
  Workers = 2
  MaxLines = 2
SPECIFICATION FairSpec
INVARIANTS
  TypeOK
  DirsMatchUse
PROPERTIES
  ImplementsOutcome
  JobsAnswered
  ReaderServed
