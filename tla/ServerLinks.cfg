SPECIFICATION LinksSpec
CONSTANTS
  Related = {g1, g2}
  Others = {o1, o2}
  Ports = {p1, p2}
  Crashes = 1
  Transients = 1
  MaxFailures <- FailureBudget
INVARIANTS LinkedIsOn OthersAreKept SerialUnlinkedIsOff
CHECK_DEADLOCK FALSE
