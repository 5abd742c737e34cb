SPECIFICATION Spec
CONSTANTS
  s1 = s1
  s2 = s2
  s3 = s3
  u1 = u1
  u2 = u2
  NumTurns = 2
  Sessions = {s1, s2}
  Users = {u1, u2}
  SessionOf <- TurnEach
  UserOf <- TwoUsers
  ContextOf <- OneContext
  Commands = {}
  MaxGlobalConcurrency = 10
  MaxUserConcurrency = 10
  CandidateLimit = 10
  MergeLimit = 10
  StartupTicks = TRUE
  MaxCrashes = 1
  MaxExpiries = 0
  MaxResets = 0
INVARIANTS
  RowsAgree
CHECK_DEADLOCK FALSE
