CONSTANTS
  VppCalls <- MCCalls
  MaxPaths = 64
  InitDelay = 1
  MaxDelay = 2
  RecvMax = 2
  QueueMax = 2
  MaxRequests = 2
  MaxVppDeaths = 1
  StatNames = {a, b}
  Places = {x, y}
  SpinMax = 2
  MaxCount = 1
  MaxEpoch = 1
  NoName = NoName
  p1 = p1
  p2 = p2
  g1 = g1
  g2 = g2
  ZPrefixes = {p1, p2}
  PathLists <- MCPathLists
  Reconnecting = TRUE
  ZInitDelay = 1
  ZMaxDelay = 2
  Legacy <- MCLegacy
  MaxUnread = 2
  MaxChanges = 3
  MaxZebraDeaths = 2
  MaxLegacy = 3
  NoRoute = NoRoute
SPECIFICATION MCSpec
INVARIANTS
  AnswerTrue
  
  FollowsZebra
PROPERTIES
  
  RoutesLearnt
\* Outside the loops every party may stop: nothing is asked of the counters, the
\* program ends, and the bounds of the model are reached.
CHECK_DEADLOCK FALSE
