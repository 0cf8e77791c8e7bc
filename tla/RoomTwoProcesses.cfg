SPECIFICATION Spec
CONSTANTS
  p1 = p1
  p2 = p2
  c1 = c1
  c2 = c2
  c3 = c3
  ann = ann
  bob = bob
  None = None
  Proc <- TwoProcs
  Conn <- TwoConns
  User = {ann, bob}
  ProcOf <- OneEach
  UserOf <- AnnTwice
  MaxMsg = 2
  MaxTyping = 1
  MaxDrop = 0
  MaxRepeat = 1
  MaxCrash = 1
CHECK_DEADLOCK FALSE
INVARIANT
  NoOwnTyping
  InOrder
PROPERTY
  RefinesBestEffort
