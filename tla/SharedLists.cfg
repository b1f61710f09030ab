SPECIFICATION Spec
CONSTANTS
  n1 = n1
  n2 = n2
  k1 = k1
  k2 = k2
  k3 = k3
  own = own
  other = other
  Nodes = {n1, n2}
  Entries <- AllEntries
  PortDetail = own
  Wants <- SomeWants
  OthersEntries <- SomeOthers
  Misplaced = {n2}
  MaxInstalls = 2
  Crashes = 1
  Transients = 1
  Adds = 1
  Removes = 1
  MaxKinds = 2
  MaxEvents <- EventBudget
INVARIANTS UninstalledAreGone OthersAreKept
CHECK_DEADLOCK FALSE
