\* The epoch that the gRPC STREAM loops wait for.
CONSTANTS
  MaxStream = 3
  Slots = 2
  InitWin = 2
  ConnWin = 3
  MaxFrame = 2
  ReplyLen = 2
  Parts = 2
  MaxVer = 1
  Pipelining = TRUE
  Interleave = FALSE
  Plans <- MCPlans
  None = None
  iface = iface
  route = route
  EventWriters = {w1, w2}
  QueueSize = 2
  SubWishes <- MCWishes
  AnyType = AnyType
  ObjTypes = {route}
  QueueExclusive = TRUE
  MaxEvents = 3
  MaxSubs = 1
  NoEvent = NoEvent
  Keys = {k1, k2}
  MaxEntries = 1
  Window = 2
  MaxRepairs = 2
  MaxTime = 6
  MaxAllowed = 6
  Procs = {q1, q2}
  MaxProcs = 2
  MinDelay = 1
  MaxDelayMs = 6
  MaxRestarts = 3
  MaxExits = 5
  Critical = {q1}
  BfdIds = {b1, b2, b3}
  BfdStates = {Down, Up}
  Down = Down
  BfdMax = 2
  VrrpKeys = {v1, v2, v3}
  VrrpMax = 2
  Backends = {vpp, sai, mock}
  BackendMax = 4
  AuditMax = 3
  MaxAudits = 5
  Nothing = Nothing
  DiffObjs = {o1}
  Contents <- MCContents
  Setters = {t1, t2}
  MaxSets = 4
  Absent = Absent
  Period = 3
  MaxRecords = 1
  MaxStore = 3
  MaxSignals = 2
  DClients = {c1, c2}
  TableMax = 110
  EntryMax = 4
  NewNames = {x}
  Values = {1, 2, 43, 90}
  TableSizes = {0, 40, 110}
  Numbers <- MCNumbers
  HufLens <- MCHufLens
  HufCodes <- MCHufCodes
  HufMaxSyms = 4
  MaxText = 3
  Decoders = {d1, d2}
  SerialFirstUse = TRUE
SPECIFICATION MCSpec
INVARIANT EveryChangeBumpsEpoch
CHECK_DEADLOCK FALSE
