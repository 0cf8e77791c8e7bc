SPECIFICATION FairSpec
CONSTANTS
  MaxAttempt = 4
  MaxMsg = 0
  MaxLog = 0
  PageLimit = 1
  MaxSend = 2
  MaxFault = 2
  MaxRetry = 1
  MaxReopen = 0
CHECK_DEADLOCK FALSE
INVARIANTS
  TypeOK
  BannerIsHonest
  QueuedOnce
  OnlineHasLink
PROPERTIES
  SentInOrder
  Reconnects
  OutboxIsSent
