CONSTANTS
  MaxSockets = 1
  MaxLines = 0
  MaxChanges = 0
SPECIFICATION Spec
INVARIANTS
  ClosedMeansGone
