SPECIFICATION Spec
CONSTANTS
  Floats = {f1, f2}
  Existing = {f2}
  Private = Private
  None = None
  MaxRounds = 2
  Crashes = 1
  Transients = 1
  OtherStores = 1
  Moves = 1
  MaxKinds = 2
  MaxEvents <- EventBudget
INVARIANTS PublicIsConnected AddressFollows
PROPERTIES TakenOnlyIfAllowed
CHECK_DEADLOCK FALSE
