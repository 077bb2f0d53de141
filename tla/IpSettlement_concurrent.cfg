CONSTANTS
  Family = {"ipv4"}
  Addr = {a1, a2}
  None = None
  Actions = {x}
  Requests = {r1, r2}
  Edits = {e1}
  EditKinds = {"enable", "disable", "decommission", "prefer", "rotate"}
  Workers = {w1, w2}
  MaxStalled = 1
  MaxFaults = 2
SPECIFICATION Spec
SYMMETRY Symmetry
PROPERTIES ImplementsChangeLog ChangeFollowsNewestReport
