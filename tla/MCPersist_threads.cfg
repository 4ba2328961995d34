\* Two threads on different objects.
CONSTANTS
  a = a
  b = b
  c = c
  th1 = th1
  th2 = th2
  Threads = {th1, th2}
  Objs = {a, b, c}
  Unlogged = {c}
  Owns <- OwnsDisjoint
  Vals = {v1, v2}
  NoVal = NoVal
  NoThread = NoThread
  ReplaySlots = 3
  MaxOps = 4
  MaxCrashes = 1
  Checkpoints = FALSE
SPECIFICATION Spec
SYMMETRY ValSymmetry
CHECK_DEADLOCK FALSE
INVARIANTS DurableIfIntact
