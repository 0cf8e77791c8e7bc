SPECIFICATION FairSpec
CONSTANTS
  p1 = p1
  p2 = p2
  c1 = c1
  c2 = c2
  c3 = c3
  ann = ann
  bob = bob
  None = None
  Proc <- TwoProcs
  Conn <- TwoConns
  User = {ann, bob}
  ProcOf <- OneEach
  UserOf <- TwoUsers
  MaxMsg = 1
  MaxTyping = 0
  MaxDrop = 1
  MaxRepeat = 0
  MaxCrash = 1
CHECK_DEADLOCK FALSE
PROPERTIES
  HandlersFinish
  ListenerRecovers
  SoleSocketIsServed
