CONSTANTS
  Nodes = {a, b}
  MaxCalls = 1
  Faults = {"crash", "loss", "restart"}
  MaxFaults = 1
SPECIFICATION FairSpec
PROPERTIES
  CallAlwaysReturns
