CONSTANTS
  Family = {"ipv4", "ipv6"}
  Rules = {r1, r2}
  Cidr = {a1, a2, s}
  Static = {s}
  Actions = {x, y}
  AddrOf <- Overlapping
  Tasks = {t1, t2}
  Kinds = {"execute", "detach", "reconfigure"}
  Attempts = 2
  MaxExpiries = 0
  FaultKinds = {"call", "crash"}
  MaxFaults = 1
  None = None
  x = x
  y = y
  a1 = a1
  a2 = a2
  s = s
SPECIFICATION Spec
SYMMETRY Symmetry
INVARIANT EntriesMatchOwners
PROPERTIES NoLostUpdate ForeignEntriesKept
CHECK_DEADLOCK FALSE
