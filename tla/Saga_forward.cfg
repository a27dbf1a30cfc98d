SPECIFICATION Spec
CONSTANTS
  NSteps = 4
  Pivot = 2
  WaitStep = 3
  MaxRetries = 1
  Objs = {o1, o2, o3, o4, o5, o6, o7}
  NoObj = NoObj
  Overtakes = TRUE
  Allowed <- OneEvent
CHECK_DEADLOCK FALSE
INVARIANTS TypeOK FailureHasACause PivotIsFinal UndoNeverOverForwardRow
PROPERTIES ImplementsSagaStatus
