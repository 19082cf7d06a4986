SPECIFICATION Spec
CONSTANTS
  Conn = {c1, c2}
  Channel = {k1, k2}
  Setups <- MCSetups
  k1 = k1
  k2 = k2
  MaxConns = 1
  MaxChannels = 1
  MaxAgent = 1
  None = None
INVARIANTS
  CloseWaits
  StatusTrue
  OutputBeforeStatus
PROPERTIES
  ExitReported
  CloseReturns
CHECK_DEADLOCK FALSE
