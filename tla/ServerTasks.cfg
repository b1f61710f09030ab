SPECIFICATION FairSpec
CONSTANTS
  Names = {s1}
  Crashes = 1
  Transients = 1
  Errors = 1
  Users = 1
  GiveUps = 1
  MaxKinds = 2
  MaxFaults <- FaultBudget
INVARIANTS RequestedOnce StopMeansOff UninstallLeavesNothing SnapshotIsComplete FreshApplyRestores GroupsAreThoseOfNode
PROPERTIES OperationsEnd
CHECK_DEADLOCK FALSE
