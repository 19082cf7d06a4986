SPECIFICATION Spec
CONSTANTS
  IPs <- MCIPs
  Gateway <- gw
  Names = {"good", "bad"}
  Unparseable = Unparseable
  NoDNS = NoDNS
  NoFrame = NoFrame
  Configs <- MCConfigs
  TcpFlowTTL = 1
  DefaultFlowTTL = 0
  MinTTL = 0
  MaxTTL = 1
  MaxRules = 1
  MaxClock = 2
INVARIANTS
  TypeOK
  OnlyResolvedReachable
  BlockedNamesStayInside
  LearnedBeforeDelivered
  TrackedFlowsWereOpened
  EstablishedNotDropped
