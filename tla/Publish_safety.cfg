SPECIFICATION SafetySpec
CONSTANTS
  Channels = {c1,c2}
  Workers = {w1,w2}
  Sagas = {s1,s2}
  None = None
  Tweets = {t1}
  Kinds = {"single","thread"}
  Modes = {"publish-now","schedule"}
  Attempts = 2
  Retries = 1
  MaxFaults = 1
  MaxEdits = 2
SYMMETRY Symmetry
CONSTRAINT Edits
CHECK_DEADLOCK FALSE
INVARIANTS TypeOK PromotedHasACause DuplicatesHaveACause FailureIsHonest SagaFailureIsHonest
PROPERTIES DeletionIsFinal SuccessStaysRecorded
