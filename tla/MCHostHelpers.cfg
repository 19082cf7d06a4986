SPECIFICATION MCSpec
CONSTANTS
  t1 = t1
  t2 = t2
  t3 = t3
  Thread = {t1, t2, t3}
  Process = {"p1", "p2"}
  ProcessOf <- MCProcessOf
  Files = {"runner"}
  Manifest = "manifest"
  Links = "links"
  None = None
  MaxDamage = 1
  MaxMisreads = 1
  Fetcher = {"f1", "f2"}
  MaxTries = 2
  Second = 2
  Threshold = 2
  MaxFlight = 3
  Naps = {1, 5}
  MaxNaps = 2
  Skews <- MCSkews
INVARIANTS
  ReturnedWhole
  FetchedVerified
  ClockBounded
PROPERTIES
  ClockSettles
CHECK_DEADLOCK FALSE
