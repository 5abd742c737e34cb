SPECIFICATION FairSpec
CONSTANTS
  Parts = {"worker", "pending", "answering", "steered", "claiming"}
  a1 = a1
  q1 = q1
  Items = {"i1", "i2"}
  Lone = {"i1"}
  MaxAttempts = 3
  MaxFaults = 4
  MaxCardFaults = 2
  MaxCrashes = 2
  Messages = {"m1", "m2", "m3"}
  Pair = {"m1", "m2"}
  MaxTurns = 5
  MaxCalls = 2
  MaxSends = 2
  MaxThrows = 1
  Tasks = {"t1"}
  MaxRetries = 2
  MaxRuns = 2
  MaxOps = 2
  MaxRestarts = 1
  N = 3
  Missed = {3}
  ScanLimit = 2
  PendingLimit = 2
  MaxTries = 2
  AllEvents = TRUE
  MaxManual = 1
  MaxSwitches = 1
  MaxKills = 1
  Users = {"u1", "u2"}
  PerUser = 2
  Limit = 4
  MaxArrivals = 4
  MaxUpgrades = 2
PROPERTIES
  EveryTaskEnds
  PendingSettles
  EventuallyAnswered
  EventuallySeen
  EventuallyClaimed
CHECK_DEADLOCK FALSE
