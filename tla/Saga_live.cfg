SPECIFICATION FairSpec
CONSTANTS
  NSteps = 3
  Pivot = 1
  WaitStep = 2
  MaxRetries = 0
  Objs = {o1, o2, o3, o4, o5, o6, o7}
  NoObj = NoObj
  Overtakes = FALSE
  Allowed <- OneRestart
CHECK_DEADLOCK FALSE
PROPERTIES EventuallyEnds
