SPECIFICATION Spec
CONSTANTS
  Layer = {1, 2}
  Sorted <- MCSorted
  Inputs <- MCInputs
  MaxSize = 9
  MaxEntries = 3
  MaxLinks = 2
  HostFiles <- MCHostFiles
INVARIANTS
  TopLayerKept
CHECK_DEADLOCK FALSE
