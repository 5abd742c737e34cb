SPECIFICATION LiveSpec
CONSTANTS
  N = 2
  Missed = {}
  InApp = {}
  NoSession = {}
  ScanLimit = 1
  PendingLimit = 1
  MaxAttempts = 2
  AllEvents = TRUE
  MaxManual = 0
  MaxSwitches = 0
  MaxCrashes = 1
PROPERTIES
  EveryFailureSettled
CHECK_DEADLOCK FALSE
