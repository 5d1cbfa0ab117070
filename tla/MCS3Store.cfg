SPECIFICATION Spec
CONSTANTS
  Keys = {k1, k2}
  Readers = {r1}
  Purgers = {p1}
  Faults <- AllFaults
  MaxResponses = 2
  None = None
INVARIANTS
  TypeOK
  HeadersBelongToBody
  PurgeIsComplete
  UndisturbedLoadIsWhole
PROPERTIES
  ImplementsBackend
