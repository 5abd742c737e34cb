SPECIFICATION Spec
CONSTANTS
  s1 = s1
  s2 = s2
  s3 = s3
  u1 = u1
  u2 = u2
  NumTurns = 3
  Sessions = {s1}
  Users = {u1}
  SessionOf <- ThreeTurns
  UserOf <- TwoUsers
  ContextOf <- OneContext
  Commands = {3}
  MaxGlobalConcurrency = 10
  MaxUserConcurrency = 10
  CandidateLimit = 10
  MergeLimit = 10
  StartupTicks = FALSE
  MaxCrashes = 0
  MaxExpiries = 0
  MaxResets = 0
INVARIANTS
  SettledHoldsNoQuota
  MergedContentDelivered
CHECK_DEADLOCK FALSE
