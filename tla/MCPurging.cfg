SPECIFICATION PurgingSpec
CONSTANTS
  Requests = {r1}
  Keys = {k1}
  Uris = {u1}
  UriOf <- OneUri
  Admins = {a1, a2}
  MaxConcurrentRequests = 1
  ChannelCapacity = 1
  StorageBackend = "local"
  Faults <- AllFaults
  MaxVersion = 2
  None = None
INVARIANTS
  TypeOK
  PurgeKeepsMemoryEmpty
  OnlyGrantedIsCached
  PermitsConserved
  PurgedContentIsGone
SYMMETRY Callers
