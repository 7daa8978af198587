CONSTANTS
  p = p
  q = q
  Device = {p, q}
  InitialDevices = {p, q}
  pConn = 1
  qConn = 2
  pOps = 2
  qOps = 0
  MaxConn <- MCMaxConn
  MaxOps <- MCMaxOps
  Capacity = 1
  BatchMax = 2
  Dropping = {}
  Folding = {}
  Crashing = {q}
  Restarts = FALSE
  Threshold = 9

SPECIFICATION FairSpec
CHECK_DEADLOCK FALSE
PROPERTY Convergence
