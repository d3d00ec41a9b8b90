SPECIFICATION Spec
CONSTANTS
  Keys = {"k"}
  Fields = {"f", "g"}
  Values = {1, 2}
  TTLs = {1, 2}
  Text = Text
  MaxNumber = 2
  MaxList = 2
  MaxNow = 3
  Tools = {"tool"}
  Callers = {"c1", "c2", "c3"}
  Rates = {0, 1, 2}
  Minute = 2
  MaxIdle = 4
  Threads = {"t1", "t2"}
  Samples = {1, 2, 3}
  MaxObservations = 3
  MaxResets = 2
INVARIANTS
  RateHonoured
  SnapshotAccounts
  ExpiredStaysGone
PROPERTY TokensFlow
CHECK_DEADLOCK FALSE
