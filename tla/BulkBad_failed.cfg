SPECIFICATION Spec
CONSTANTS
  Items = {i1}
  Workers = {1}
  None = None
  Attempts = 2
  PerTick = 1
  Copies = 2
  MaxFaults = 1
CHECK_DEADLOCK FALSE
INVARIANT FailedRowIsNotScheduled
