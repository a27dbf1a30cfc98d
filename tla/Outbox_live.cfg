SPECIFICATION FairSpec
CONSTANTS
  Ids = {e1,e2}
  Relays = {r1,r2}
  None = None
  MaxRetries = 2
  RowRetries = 2
  BatchSize = 1
  MaxDbFailures = 1
  MaxCrashes = 1
  MaxLapses = 1
  MaxRedrives = 0
CHECK_DEADLOCK FALSE
PROPERTY EventuallySettled
