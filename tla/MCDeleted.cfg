CONSTANTS
  p = p
  q = q
  Device = {p, q}
  InitialDevices = {p, q}
  pConn = 1
  qConn = 1
  pOps = 1
  qOps = 1
  MaxConn <- MCMaxConn
  MaxOps <- MCMaxOps
  Capacity = 2
  BatchMax = 2
  Dropping = {}
  Folding = {}
  Crashing = {}
  Restarts = FALSE
  Threshold = 1

SPECIFICATION Spec
CHECK_DEADLOCK FALSE
INVARIANT DeletedRowsInChain
