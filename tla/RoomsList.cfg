SPECIFICATION Spec
CONSTANTS
  MaxNumeral = 9
  MaxLength = 5
  Texts <- OldTexts
  Account = {1, 2, 3}
  Low = 1
  High = 2
  Legacy <- OldRooms
  NoOne = NoOne
  User = {1, 3}
  Peer = {2}
  Typed <- NewTexts
  TypedId = {2}
  MaxJob = 3
  MaxFault = 1
  MaxLogin = 2
  MaxOther = 2
CHECK_DEADLOCK FALSE
INVARIANTS
  TypeOK
  NamesAreSound
  DmRoomIsClosed
  Settled
  OwnRooms
PROPERTIES
  AcceptedIsShown
  NothingVanishes
