SPECIFICATION TranslationSpec
CONSTANTS
  n1 = n1
  n2 = n2
  Names = {n1, n2}
  Empty = Empty
  No = No
  Generated = Generated
  Cases <- MCCases
  SomeRules <- MCRules
INVARIANTS CreatedAsAsked InputsAsAsked RuleIsRestricted RefusalsHaveCauses
CHECK_DEADLOCK FALSE
