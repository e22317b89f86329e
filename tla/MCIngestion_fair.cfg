\* One upload, a delete and a search of any of two tenants, every failure and one restart, with a fair event loop.
SPECIFICATION FairSpec
CONSTANTS
  Docs = {d1}
  Deletes = {x1, x2}
  Searches = {q1}
  o1 = o1  o2 = o2  w1 = w1  w2 = w2
  Orgs = {o1, o2}
  Workspaces = {w1, w2}
  WsOrg <- OneEach
  Dims = {4, 8}
  NoCollection = NoCollection
  MaxChunks = 1
  MaxLimit = 1
  MaxCrashes = 1
  Faults = {"read", "parse", "chunker", "qdrant", "sql"}
INVARIANTS
  TenantIsolation
  TempFilesRemoved
PROPERTIES
  RequestsAnswered
