SPECIFICATION FairSpec
CONSTANTS
  Items = {i1,i2}
  Workers = {1,2}
  None = None
  Attempts = 2
  PerTick = 1
  Copies = 2
  MaxFaults = 2
CHECK_DEADLOCK FALSE
ACTION_CONSTRAINT FirstHit
INVARIANTS TypeOK OnePostPerRow NoRowIsScheduledTwice ScheduledIsScheduled FailureIsHonest CompletionIsHonest
PROPERTIES EndingsAreFinal EveryRowEnds
