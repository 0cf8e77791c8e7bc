SPECIFICATION Spec
CONSTANTS
  p1 = p1
  p2 = p2
  c1 = c1
  c2 = c2
  c3 = c3
  ann = ann
  bob = bob
  None = None
  Proc <- OneProc
  Conn <- ThreeConns
  User = {ann, bob}
  ProcOf <- AllOnOne
  UserOf <- OneUser
  MaxMsg = 1
  MaxTyping = 0
  MaxDrop = 1
  MaxRepeat = 0
  MaxCrash = 1
CHECK_DEADLOCK FALSE
SYMMETRY AnyOrder
INVARIANTS
  TypeOK
  SingleListener
  ListenerWhileOccupied
  ReleasedWhenUnused
