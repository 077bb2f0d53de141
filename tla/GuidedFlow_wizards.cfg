SPECIFICATION FlowSpec
CONSTANTS
  Values = {v1, v2}
  Empty = Empty
  NoWizard = NoWizard
  MaxOpens = 2
  MaxEdits = 2
  MaxConfirms = 2
  MaxFaults = 1
  MaxVisits = 2
SYMMETRY Symmetry
INVARIANTS
  AbandonedLeavesNothing
  ResultIsShown
PROPERTY
  WorkIsKept
CHECK_DEADLOCK FALSE
