SPECIFICATION FairSpec
CONSTANTS
  User = {ann, bob}
  Handler = {h1, h2}
  None = None
  MaxId = 3
CHECK_DEADLOCK FALSE
INVARIANTS
  TypeOK
  OpenToFriends
  FriendsHaveRoom
  NoCircularWait
PROPERTIES
  AtomicUnlessRaced
  FriendsByConsent
  RequestsFinish
