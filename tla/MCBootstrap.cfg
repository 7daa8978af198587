CONSTANTS
  p = p
  q = q
  Device = {p, q}
  InitialDevices = {p}
  pConn = 1
  qConn = 2
  pOps = 1
  qOps = 0
  MaxConn <- MCMaxConn
  MaxOps <- MCMaxOps
  Capacity = 2
  BatchMax = 2
  Dropping = {}
  Folding = {q}
  Crashing = {q}
  Restarts = FALSE
  Threshold = 1

SPECIFICATION Spec
CHECK_DEADLOCK FALSE
INVARIANT CursorCovered
