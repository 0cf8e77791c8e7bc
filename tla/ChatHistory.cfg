SPECIFICATION Spec
CONSTANTS
  MaxAttempt = 3
  MaxMsg = 2
  MaxLog = 2
  PageLimit = 2
  MaxSend = 0
  MaxFault = 1
  MaxRetry = 0
  MaxReopen = 1
CHECK_DEADLOCK FALSE
INVARIANTS
  NoDuplicateRow
  BackfilledIsShown
PROPERTY
  ShownStays
