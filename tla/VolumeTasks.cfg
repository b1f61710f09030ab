SPECIFICATION Spec
CONSTANTS
  Copies = {c1, c2}
  Names = {n1, n2}
  None = None
  Crashes = 1
  Transients = 1
  Errors = 1
  GiveUps = 1
  MaxKinds = 2
  MaxFaults <- FaultBudget
INVARIANTS CopyIsReady UninstallLeavesNothing
PROPERTIES OthersAreKept
CHECK_DEADLOCK FALSE
