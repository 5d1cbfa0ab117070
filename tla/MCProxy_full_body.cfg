SPECIFICATION Spec
CONSTANTS
  Requests = {r1}
  Keys = {k1}
  Uris = {u1}
  UriOf <- OneUri
  Admins = {}
  MaxConcurrentRequests = 1
  ChannelCapacity = 1
  StorageBackend = "s3"
  Faults <- BrokenBodies
  MaxVersion = 1
  None = None
INVARIANTS
  CachedBodyIsFull
