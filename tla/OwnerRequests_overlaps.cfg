CONSTANTS
  home = home
  key = key
  edge = edge
  delivery = delivery
  dns = dns
  r1 = r1
  r2 = r2
  r3 = r3
  Requests = {r1, r2, r3}
  MayAsk <- MCMayAsk
  Devices = {home}
  Credentials = {key}
  Providers = {edge}
  Actions = {delivery, dns}
  DeviceOf <- MCDeviceOf
  TargetOf <- MCTargetOf
  Names = {n1, n2}
  Limits = {2}
  MaxTokens = 2
  None = None
SPECIFICATION Spec
SYMMETRY Symmetry
INVARIANTS ChecksOverlap ChangesAreScheduled ShownIsCurrent
PROPERTIES LimitsOverlap EndsAreFinal
CHECK_DEADLOCK FALSE
