SPECIFICATION Spec
CONSTANTS
  MaxAttempt = 2
  MaxMsg = 2
  MaxLog = 2
  PageLimit = 3
  MaxSend = 0
  MaxFault = 1
  MaxRetry = 0
  MaxReopen = 0
CHECK_DEADLOCK FALSE
INVARIANTS
  MissedIsBackfilled
