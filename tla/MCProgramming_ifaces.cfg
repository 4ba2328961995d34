CONSTANTS
  r1 = r1  r2 = r2  n1 = n1  n2 = n2  p1 = p1  p2 = p2
  Routes = {}
  Prefix <- NoPrefix
  Groups = {}
  NHs = {}
  MemberSeqs <- NoMembers
  Gateways = {}
  Ifaces = {i1, i2}
  Addrs = {a1, a2}
  Blackhole = Blackhole
  NoGroup = NoGroup
  None = None
  SweepMax = 1
  Sweeps = TRUE
  AbsentIsError = TRUE
  LostReplies = FALSE
  MaxMut = 4
  MaxFail = 0
  MaxRestart = 0
SPECIFICATION FairSpec
PROPERTIES OldAddressGone IfacesConverge
