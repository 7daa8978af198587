CONSTANTS
  p = p
  q = q
  Device = {p, q}
  InitialDevices = {p, q}
  pConn = 1
  qConn = 2
  pOps = 2
  qOps = 0
  MaxConn <- MCMaxConn
  MaxOps <- MCMaxOps
  Capacity = 2
  BatchMax = 2
  Dropping = {q}
  Folding = {q}
  Crashing = {q}
  Restarts = FALSE
  Threshold = 9

SPECIFICATION Spec
CHECK_DEADLOCK FALSE
INVARIANT CursorCovered
