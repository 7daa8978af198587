CONSTANTS
  Account = {"A", "B"}
  Doc = {1, 2, 3, 4}
  Client = {"cmd", "host", "p", "q"}
  Password = {1, 2}
  Conn = {"host", "web"}
  Sub = {1, 2}
  Mixes <- MCMixes

SPECIFICATION Spec
CHECK_DEADLOCK FALSE
INVARIANT TypeOK
INVARIANT HomeUnlockable
INVARIANT RevokedUnbound
INVARIANT PresenceAgrees
INVARIANT OpIdsUnique
INVARIANT ServesProfile
INVARIANT MirrorsCurrent
INVARIANT ProfileComplete
PROPERTY SharingRefined
