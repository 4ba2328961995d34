\* A second crash after recovery from a torn log.
CONSTANTS
  a = a
  b = b
  c = c
  th1 = th1
  th2 = th2
  Threads = {th1}
  Objs = {a}
  Unlogged = {}
  Owns <- OwnsAll
  Vals = {v1, v2}
  NoVal = NoVal
  NoThread = NoThread
  ReplaySlots = 1
  MaxOps = 2
  MaxCrashes = 1
  Checkpoints = FALSE
SPECIFICATION Spec
SYMMETRY ValSymmetry
CHECK_DEADLOCK FALSE
INVARIANTS Durable
