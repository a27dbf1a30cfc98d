SPECIFICATION FairSpec
CONSTANTS
  Channels = {c1,c2}
  Workers = {w1,w2}
  Sagas = {s1}
  None = None
  Tweets = {t1}
  Kinds = {"thread"}
  Modes = {"publish-now"}
  Attempts = 2
  Retries = 1
  MaxFaults = 1
  MaxEdits = 0
CHECK_DEADLOCK FALSE
PROPERTIES EventuallyEnds EventuallyFinished
