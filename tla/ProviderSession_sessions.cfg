CONSTANTS
  Sessions = {s1, s2}
  Tokens = {k1}
  None = None
  MaxFailures = 1
  MaxReports = 1
  MaxFaults = 1
SPECIFICATION FairSpec
INVARIANTS OnlyNewestLives PresencePaired RevocationEnds
CHECK_DEADLOCK FALSE
PROPERTIES SilenceIsRecorded BlocksEnd
