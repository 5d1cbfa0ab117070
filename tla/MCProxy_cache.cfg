SPECIFICATION Spec
CONSTANTS
  Requests = {r1, r2}
  Keys = {k1, k2}
  Uris = {u1}
  UriOf <- OneUri
  Admins = {}
  MaxConcurrentRequests = 2
  ChannelCapacity = 1
  StorageBackend = "local"
  Faults <- Restarts
  MaxVersion = 1
  None = None
SYMMETRY Alike
INVARIANTS
  MemoryIsBacked
  OnlyGrantedIsCached
PROPERTIES
  UsesBackend
  ImplementsGateway
