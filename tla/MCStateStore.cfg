SPECIFICATION Spec
CONSTANTS
  a = a
  b = b
  c = c
  Procs <- ThreeProcs
  NoProc = NoProc
  Partial = Partial
  Gone = Gone
  MaxUpdates = 2
  MaxWipes = 2
INVARIANTS
  TypeOK
  OneModifierPerLockFile
  NoLostUpdate
  NeverPartial
PROPERTIES
  ImplementsRegister
