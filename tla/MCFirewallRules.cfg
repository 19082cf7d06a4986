SPECIFICATION FairSpec
CONSTANTS
  IPs <- MCIPs
  Gateway <- gw
  Names = {"good", "bad"}
  Unparseable = Unparseable
  NoDNS = NoDNS
  NoFrame = NoFrame
  Configs <- LearningConfigs
  TcpFlowTTL = 0
  DefaultFlowTTL = 0
  MinTTL = 0
  MaxTTL = 1
  MaxRules = 2
  MaxClock = 2
INVARIANTS
  NoDuplicateRules
  RuleLifetimeBounded
PROPERTIES
  NothingLiveRemoved
  ExpiredReclaimed
