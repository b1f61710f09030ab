SPECIFICATION Spec
CONSTANTS
  h1 = h1
  h2 = h2
  h3 = h3
  Hosts <- AllHosts
  NodeHosts <- HostsOfNode
  Crashes = 2
  Transients = 1
  LostAnswers = 1
  MaxFaults <- FaultBudget
INVARIANTS RecordedAreThere DeleteSucceeds
SYMMETRY Symmetric
CHECK_DEADLOCK FALSE
