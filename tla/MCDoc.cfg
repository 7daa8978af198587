CONSTANTS
  Item = {1, 2, 3, 4, 5}
  UserList = {"L", "M"}
  Replica = {1, 2}
  Base <- MCBase
  MaxDirty = 6
  BulkThreshold = 2
  Mixes <- MCMixes
  Attached = {1}
  Targets = {0, 99}
  Touched = {1, 3}
  ReviveLists = FALSE

SPECIFICATION Spec
CHECK_DEADLOCK FALSE
INVARIANT TypeOK
INVARIANT IndexMatchesDoc
INVARIANT OpenItemsShownOnce
INVARIANT UiMatchesDoc
INVARIANT SearchFresh
INVARIANT HardDeletePermanent
