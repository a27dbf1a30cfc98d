SPECIFICATION Spec
CONSTANTS
  NSteps = 4
  Pivot = 2
  WaitStep = 3
  MaxRetries = 0
  Objs = {o1, o2, o3, o4, o5, o6, o7}
  NoObj = NoObj
  Overtakes = FALSE
  Allowed <- OneAndEvent
CHECK_DEADLOCK FALSE
INVARIANTS CompletedIsHonest CompensatedIsHonest ResumeRepeatsNoUndo NoStepOverUndoneState ParkedIsLeftAlone
PROPERTIES EndingsAreFinal
VIEW UpToNames
