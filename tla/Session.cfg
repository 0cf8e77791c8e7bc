SPECIFICATION TracedSpec
CONSTANTS
  Account = {ann, bob}
  Caller = {t1, t2}
  None = None
  MaxLogin = 2
  MaxExpire = 1
  MaxFault = 2
CHECK_DEADLOCK FALSE
SYMMETRY AnyOrder
INVARIANTS
  TypeOK
  OneLivePerSession
  LogoutEndsSession
  OnlyUnheardFork
  SignedInIsUsable
PROPERTY
  SignedOutStays
