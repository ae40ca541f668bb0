CONSTANTS
  Targets = {a, b}
  MaxDispatches = 2
  MaxConns = 2
SPECIFICATION FairSpec
INVARIANTS
  TypeOK
  ReportIsTrue
  GivesUpHonestly
  NothingLeftOpen
PROPERTIES
  KeepsOthers
  DispatchEnds
