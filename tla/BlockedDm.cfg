SPECIFICATION Spec
CONSTANTS
  User = {ann, bob}
  Handler = {h1, h2}
  None = None
  MaxId = 1
CHECK_DEADLOCK FALSE
INVARIANT BlockedIsFrozen
