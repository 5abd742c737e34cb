SPECIFICATION FairSpec
CONSTANTS
  Parts = {"draining", "planning", "arriving", "reconnecting", "returning"}
  None = None
  Procs = {"p1", "p2", "p3"}
  Pair = {"p1", "p2"}
  MaxOpens = 5
  MaxDeaths = 1
  Sessions = {"s1", "s2"}
  Alone = {"s1"}
  Ops = {"m1", "m2"}
  Op = {"m1"}
  Kinds = {"check", "import"}
  MaxAgents = 1
  MaxConcurrent = 1
  MaxTurns = 2
  MaxEntries = 3
  MaxSweeps = 1
  MaxFaults = 1
  MaxPlans = 1
  Followups = {"f", "g"}
  Cancels = {"c"}
  Reqs = {"r1", "r2"}
  MaxReqs = 4
  MaxCrashes = 1
  MaxSpawns = 5
  MaxStarts = 2
  MaxBreaks = 4
  MaxRetries = 2
  AutoReconnect = TRUE
  PromptExit = TRUE
  Obedient = TRUE
  Conns = {"c1", "c2", "c3"}
  Two = {"c1", "c2"}
  MaxStreams = 2
  MaxShared = 1
  MaxErrors = 1
  MaxQuiet = 1
  PromptReader = FALSE
PROPERTIES
  QueueDrains
  TurnEndArrives
  ReconnectEnds
  NumbersReturn
CHECK_DEADLOCK FALSE
