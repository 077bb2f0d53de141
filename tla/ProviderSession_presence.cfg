CONSTANTS
  Sessions = {s1, s2}
  Tokens = {k1}
  None = None
  MaxFailures = 1
  MaxReports = 0
  MaxFaults = 0
SPECIFICATION Spec
INVARIANT PresenceFollowsNewest
CHECK_DEADLOCK FALSE
