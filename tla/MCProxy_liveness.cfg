SPECIFICATION FairSpec
CONSTANTS
  Requests = {r1, r2}
  Keys = {k1}
  Uris = {u1}
  UriOf <- OneUri
  Admins = {a1}
  MaxConcurrentRequests = 1
  ChannelCapacity = 1
  StorageBackend = "s3"
  Faults <- Disconnects
  MaxVersion = 1
  None = None
INVARIANTS
  OriginLoadBounded
PROPERTIES
  ImplementsGateway
  WritesAreKept
  Answered
