SPECIFICATION Spec
CONSTANTS
  N = 2
  Faults = {}
  None = None
INVARIANTS
  OwnSimulator
