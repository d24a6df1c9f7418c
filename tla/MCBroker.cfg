SPECIFICATION KiteSpec
CONSTANTS
  t1 = t1
  t2 = t2
  w = w
  Tasks <- MCTasks
  Callers <- MCCallers
  Worker = w
  Burst = 1
  MaxTime = 2
  MaxHalf = 3
  MaxLogins = 2
  MaxDrops = 1
  ManualOtp = TRUE
  LoginAttempts = 2
  MaxLoginFailures = 1
  MaxCalls = 2
  Attempts = 2
  MaxFaults = 2
CHECK_DEADLOCK FALSE
INVARIANTS
  ClientTypeOK
  WindowBound
  SessionsAreShared
  ActiveTokenIsLive
  DuplicatesOnlyByLostAnswers
PROPERTIES
  CallsReturn
