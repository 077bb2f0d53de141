CONSTANTS
  Family = {"ipv4"}
  Addr = {a1, a2}
  None = None
  Actions = {x, y}
  Requests = {r1, r2, r3}
  Edits = {}
  EditKinds = {}
  Workers = {w1}
  MaxStalled = 1
  MaxFaults = 0
SPECIFICATION FairSpec
INVARIANTS NoChangeSkipped
PROPERTY ReportSettles
