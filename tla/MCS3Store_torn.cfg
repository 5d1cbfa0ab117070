SPECIFICATION Spec
CONSTANTS
  Keys = {k1}
  Readers = {r1}
  Purgers = {p1}
  Faults <- NoFaults
  MaxResponses = 2
  None = None
INVARIANT LoadedPairIsOneResponse
