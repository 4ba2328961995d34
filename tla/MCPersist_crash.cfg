\* One thread that mutates and checkpoints, on one object more than the replay
\* table has slots; the process may crash at any step.
CONSTANTS
  a = a
  b = b
  c = c
  th1 = th1
  th2 = th2
  Threads = {th1}
  Objs = {a, b, c}
  Unlogged = {}
  Owns <- OwnsAll
  Vals = {v1, v2}
  NoVal = NoVal
  NoThread = NoThread
  ReplaySlots = 2
  MaxOps = 4
  MaxCrashes = 2
  Checkpoints = TRUE
SPECIFICATION Spec
SYMMETRY ValSymmetry
CHECK_DEADLOCK FALSE
INVARIANTS TypeOK CrashAtomic NoStaleValue
