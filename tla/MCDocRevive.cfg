CONSTANTS
  Item = {1, 2, 3, 4, 5}
  UserList = {"L", "M"}
  Replica = {1, 2}
  Base <- MCBase
  MaxDirty = 64
  BulkThreshold = 2
  Mixes <- MCRevive
  Attached = {1}
  Targets = {0, 99}
  Touched = {1, 3}
  ReviveLists = TRUE

SPECIFICATION Spec
CHECK_DEADLOCK FALSE
INVARIANT FingerprintAgrees
