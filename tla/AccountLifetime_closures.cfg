CONSTANTS
  Actors = {a1, a2}
  Devices = {d1, d2}
  MaxVersion = 3
  MaxLives = 2
  MaxBegun = 5
  None = None
SPECIFICATION Spec
SYMMETRY Symmetry
INVARIANTS TypeOK NothingLeft NumberedWhole EndedDevicesAreRefused ListIsComplete
CHECK_DEADLOCK FALSE
