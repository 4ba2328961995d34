CONSTANTS
  r1 = r1  r2 = r2  p1 = p1  p2 = p2
  Routes = {r1, r2}
  Prefix <- PrefixOwn
  Groups = {}
  NHs = {}
  MemberSeqs <- NoMembers
  Gateways = {}
  Ifaces = {}
  Addrs = {}
  Blackhole = Blackhole
  NoGroup = NoGroup
  None = None
  SweepMax = 2
  Sweeps = TRUE
  AbsentIsError = FALSE
  LostReplies = FALSE
  MaxMut = 0
  MaxFail = 2
  MaxRestart = 0
  MaxTries = 2
  MaxReplays = 2
  Probes = TRUE
  MaxVppRestart = 2
SPECIFICATION FairBridgeSpec
INVARIANTS RecoveredExact
PROPERTY Recovers
