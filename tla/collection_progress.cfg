SPECIFICATION FairSpec
CONSTANTS
  Sources = {s1, s2}
  Schedulers = {a1}
  Users = {u1}
  None = None
  Backends = {"dynamodb"}
  MaxFaults = 1
PROPERTY DueSourcesCollected
CHECK_DEADLOCK FALSE
