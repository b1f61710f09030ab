SPECIFICATION NicsSpec
CONSTANTS
  n1 = n1
  n2 = n2
  p1 = p1
  p2 = p2
  p3 = p3
  Nets = {n1, n2}
  Ports = {p1, p2, p3}
  NetOf <- NetOfPort
  AutoPorts = {a1, a2, a3}
  None = None
  MaxTargets = 3
  MaxNics = 2
  Crashes = 1
  Transients = 1
  MaxFaults <- FaultBudget
INVARIANTS NicsMatchTargets NoDoubleInterface InterfacesAccountedFor
CHECK_DEADLOCK FALSE
