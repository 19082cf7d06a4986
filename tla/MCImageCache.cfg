SPECIFICATION Spec
CONSTANTS
  p1 = p1  p2 = p2  r1 = r1  r2 = r2  d1 = d1  d2 = d2  l1 = l1  l2 = l2
  Pullers = {p1, p2}
  Collections = {"gc", "evict"}
  Refs = {r1, r2}
  Digests = {d1, d2}
  Layers = {l1, l2}
  Tags <- MCTags
  LayersOf <- MCLayersOf
  NoDigest = NoDigest
  RefsDir = RefsDir
  LayersDir = LayersDir
  MaxFaults = 1
  MaxPulls = 2
  MaxCollects = 1
SYMMETRY Sym
CONSTRAINT AgedForEvict
INVARIANTS
  PullsInstallWhole
  PullsDoNotCollide
  FastPathAfterPulls
  GCExact
CHECK_DEADLOCK FALSE
