SPECIFICATION Spec
CONSTANTS
  Parts = {"bundles", "ledger", "repeating", "attaching", "crashing", "faulting", "generations", "recovering", "forking", "copying", "origins"}
  None = None
  Turns = {"t1", "t2"}
  Turn = {"t1"}
  Keys = {"k1", "k2"}
  Key = {"k1"}
  Calls = {"c1", "c2"}
  Callers = {"c1", "c2", "c3"}
  Contents = {"a", "b"}
  MaxGen = 2
  MaxCorrupt = 1
  MaxRestores = 1
  Forks = {"f1", "f2"}
  Lone = {"f1"}
  MaxResets = 1
  MaxCancels = 1
  MaxFaults = 1
  MaxCrashes = 2
  MaxChanges = 1
  MaxRows = 3
  MaxStops = 1
  Uploads = {"u1", "u2"}
  MaxOpen = 2
  Platform = 3
  Children = {"a", "b", "j"}
  Jobs = {"j"}
  Restarts = 1
  MaxTurn = 6
INVARIANTS
  UploadsAtomic
  GenerationsHold
  
  OriginsTrue
PROPERTIES
  LedgerSettles
  AttachedOnce
CHECK_DEADLOCK FALSE
