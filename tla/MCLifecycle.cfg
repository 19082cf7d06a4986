SPECIFICATION Spec
CONSTANTS
  c1 = c1
  c2 = c2
  p1 = p1
  p2 = p2
  Callers <- MCCallers
  Pids <- MCPids
  NoPid = NoPid
  NoCaller = NoCaller
  Modes <- SafetyModes
SYMMETRY Symmetry
INVARIANTS
  StoppedMeansReleased
  NetworkOutlivesRunner
  FailedRunReleases
  NoRunnerLost
