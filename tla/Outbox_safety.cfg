SPECIFICATION Spec
CONSTANTS
  Ids = {e1,e2}
  Relays = {r1,r2}
  None = None
  MaxRetries = 3
  RowRetries = 3
  BatchSize = 2
  MaxDbFailures = 1
  MaxCrashes = 1
  MaxLapses = 1
  MaxRedrives = 1
SYMMETRY Symmetry
CHECK_DEADLOCK FALSE
INVARIANTS DuplicatesHaveACause DeadLettersWereNotDelivered NeverStranded SwallowedIsTerminal ClaimsExclude
PROPERTIES KeepsItsPromise RetriesOnlyGrow
