SPECIFICATION Spec
CONSTANTS
  Keys = {k1}
  Readers = {r1}
  Purgers = {p1}
  Faults <- BadCalls
  MaxResponses = 1
  None = None
INVARIANT OkMeansDeleted
