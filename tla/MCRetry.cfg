CONSTANTS
  p = p
  q = q
  Device = {p, q}
  InitialDevices = {p, q}
  pConn = 2
  qConn = 1
  pOps = 1
  qOps = 0
  MaxConn <- MCMaxConn
  MaxOps <- MCMaxOps
  Capacity = 2
  BatchMax = 2
  Dropping = {p}
  Folding = {p}
  Crashing = {p}
  Restarts = TRUE
  Threshold = 9

SPECIFICATION Spec
CHECK_DEADLOCK FALSE
INVARIANT TypeOK
INVARIANT KnownInStream
INVARIANT OwnOpsStored
INVARIANT OneRowPerPush
INVARIANT FrontierBelowCursor
PROPERTY CapturedEditsKept
