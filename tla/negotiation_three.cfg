CONSTANTS
  Nodes = {a, b, c}
  MaxCalls = 2
  Faults = {"crash", "loss"}
  MaxFaults = 1
SPECIFICATION Spec
SYMMETRY NodeSymmetry
INVARIANTS
  OneLink
  AnswerMatches
