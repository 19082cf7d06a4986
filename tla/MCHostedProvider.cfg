SPECIFICATION Spec
CONSTANTS
  c1 = c1  c2 = c2  a4 = a4  a6 = a6  s1 = s1  s2 = s2
  Stoppers = {c1, c2}
  Forwards <- MCForwards
  Hosted <- MCHosted
  Callers <- MCCallers
  MaxStarts = 2
  MaxFrames = 1
INVARIANTS
  FramesNotTorn
  FailedStartReleases
  StopReleases
PROPERTIES
  StopReturns
  RelayEnds
CHECK_DEADLOCK FALSE
