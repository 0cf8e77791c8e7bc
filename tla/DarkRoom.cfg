SPECIFICATION Spec
CONSTANTS
  p1 = p1
  p2 = p2
  c1 = c1
  c2 = c2
  c3 = c3
  ann = ann
  bob = bob
  None = None
  Proc <- OneProc
  Conn <- TwoConns
  User = {ann, bob}
  ProcOf <- BothOnOne
  UserOf <- TwoUsers
  MaxMsg = 0
  MaxTyping = 0
  MaxDrop = 0
  MaxRepeat = 0
  MaxCrash = 0
CHECK_DEADLOCK FALSE
INVARIANT NoDarkRoom
