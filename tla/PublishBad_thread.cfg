SPECIFICATION Spec
CONSTANTS
  Channels = {c1,c2}
  Workers = {w1,w2}
  Sagas = {s1}
  None = None
  Tweets = {t1}
  Kinds = {"thread"}
  Modes = {"publish-now"}
  Attempts = 2
  Retries = 0
  MaxFaults = 0
  MaxEdits = 0
CHECK_DEADLOCK FALSE
INVARIANTS PromotedIsOnEveryChannel
