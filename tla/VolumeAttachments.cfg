SPECIFICATION FairSpec
CONSTANTS
  Volumes = {v1, v2}
  MaxAttachments = 2
  Crashes = 1
  Transients = 1
  Errors = 1
  GiveUps = 1
  OtherStores = 1
  MaxKinds = 1
  MaxFaults <- FaultBudget
INVARIANTS AttachmentsAreKnown LinksAreReal FailuresHaveCauses
PROPERTIES OperationsEnd
CHECK_DEADLOCK FALSE
