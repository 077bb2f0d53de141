CONSTANTS
  a = a
  b = b
  plain = plain
  renamed = renamed
  strict = strict
  Names = {a, b}
  Sets = {plain, renamed, strict}
  Outputs <- MCOutputs
  Bad <- MCBad
  None = None
  MaxVersion = 2
  MaxEdits = 1
  MaxSignals = 1
  MaxFaults = 1
  MaxEvents = 1
SPECIFICATION FairSpec
INVARIANTS TypeOK FilesMatchState AppliedIsInFiles
CHECK_DEADLOCK FALSE
PROPERTIES NeverBack Converges StatusSettles
