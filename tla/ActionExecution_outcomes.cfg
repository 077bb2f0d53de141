CONSTANTS
  MaxChanges = 2
  Manuals = {m1}
  ActionEdits = {}
  MaxEdits = 1
  Preferences = {"off", "failures_only", "all"}
  Attempts = 2
  Workers = {w1, w2}
  MaxStalled = 1
  FaultKinds = {"provider"}
  MaxFaults = 1
  None = None
SPECIFICATION Spec
SYMMETRY Symmetry
INVARIANTS OneOutcome RecordIsRecent
CHECK_DEADLOCK FALSE
