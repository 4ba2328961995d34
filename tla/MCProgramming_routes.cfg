CONSTANTS
  r1 = r1  r2 = r2  n1 = n1  n2 = n2  p1 = p1  p2 = p2
  Routes = {r1, r2}
  Prefix <- PrefixOwn
  Groups = {g1}
  NHs = {n1, n2}
  MemberSeqs <- Members
  Gateways = {w1, w2}
  Ifaces = {}
  Addrs = {}
  Blackhole = Blackhole
  NoGroup = NoGroup
  None = None
  SweepMax = 1
  Sweeps = TRUE
  AbsentIsError = TRUE
  LostReplies = FALSE
  MaxMut = 6
  MaxFail = 2
  MaxRestart = 1
SPECIFICATION FairSpec
INVARIANTS TypeOK RouteTruth PassComplete NoOrphan
PROPERTY RoutesConverge
