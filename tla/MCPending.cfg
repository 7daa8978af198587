CONSTANTS
  p = p
  q = q
  Device = {p, q}
  InitialDevices = {p}
  pConn = 1
  qConn = 1
  pOps = 2
  qOps = 1
  MaxConn <- MCMaxConn
  MaxOps <- MCMaxOps
  Capacity = 2
  BatchMax = 2
  Dropping = {}
  Folding = {q}
  Crashing = {q}
  Restarts = FALSE
  Threshold = 1

SPECIFICATION Spec
CHECK_DEADLOCK FALSE
PROPERTY CapturedEditsKept
