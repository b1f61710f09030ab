SPECIFICATION FairSpec
CONSTANTS
  ShareNodes = {s1}
  Network = Network
  MaxInstalls = 2
  Crashes = 1
  Transients = 1
  Errors = 2
  GiveUps = 1
  Removes = 1
  MaxKinds = 3
  MaxEvents <- EventBudget
INVARIANTS DeletedIsGone
PROPERTIES OperationsEnd
CHECK_DEADLOCK FALSE
