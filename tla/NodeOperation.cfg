SPECIFICATION Spec
CONSTANTS
  Ids = {i1, i2, i3}
  None = None
  MaxCycles = 2
  Crashes = 1
  Transients = 1
  LostAnswers = 1
  Removals = 1
  MaxFaults <- FaultBudget
INVARIANTS ForeignSurvives NoOrphan WorkflowsComplete CreatedStaysDeletable
PROPERTIES ImplementsOwnedResource
CHECK_DEADLOCK FALSE
