SPECIFICATION Spec
CONSTANTS
  Apps = {a1, a2}
  Self = a1
  Backends <- AllBackends
  SharedContainer = FALSE
  Nested <- OthersInside
  Keys = {k1, k2}
  Asked <- OneForOthers
  Contents = {c1}
  Faults <- AllFaults
  Torn = Torn
  None = None
INVARIANTS
  TypeOK
  PurgeIsComplete
PROPERTIES
  PurgeStaysHome
  ImplementsBackend
