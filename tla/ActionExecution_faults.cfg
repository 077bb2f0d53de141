CONSTANTS
  MaxChanges = 1
  Manuals = {}
  ActionEdits = {"enable", "disable", "detach", "reconfigure"}
  MaxEdits = 1
  Preferences = {"all"}
  Attempts = 2
  Workers = {w1, w2}
  MaxStalled = 1
  FaultKinds = {"provider", "store", "crash", "lock"}
  MaxFaults = 1
  None = None
SPECIFICATION FairSpec
INVARIANTS TypeOK AttemptsAreRecorded
PROPERTY EveryJobEnds
CHECK_DEADLOCK FALSE
