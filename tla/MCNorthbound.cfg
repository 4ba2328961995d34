CONSTANTS
  s1 = s1
  s2 = s2
  p1 = p1
  g1 = g1
  g2 = g2
  Sessions = {s1, s2}
  Requests <- MCRequests
  MaxCalls = 2
  CascadeMax = 2
  SerialDeletes = TRUE
  NoItem = NoItem
SPECIFICATION Spec
INVARIANTS
  
  NoSilentLeak
PROPERTIES
  LeafFrame
  ImplementsRouteTable
SYMMETRY MCSymmetry
CHECK_DEADLOCK FALSE
