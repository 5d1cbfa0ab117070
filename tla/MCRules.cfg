SPECIFICATION FairSpec
CONSTANTS
  Requests = {r1, r2}
  Keys = {k1, k2}
  Uris = {u1}
  UriOf <- OneUri
  Percentages = {0, 26, 34, 60, 100, 101, 255}
  Ttls = {0, 1, 2}
  MaxAge = 2
  MaxHits = 6
  None = None
INVARIANTS
  TypeOK
  
  RefreshShare
PROPERTIES
  FailoverEnds
