\* Two documents, two deletes, every failure and one process death.
SPECIFICATION Spec
CONSTANTS
  Docs = {d1, d2}
  Deletes = {x1, x2}
  Searches = {}
  o1 = o1  o2 = o2  w1 = w1  w2 = w2
  Orgs = {o1}
  Workspaces = {w1}
  WsOrg <- OneOnly
  Dims = {4, 8}
  NoCollection = NoCollection
  MaxChunks = 1
  MaxLimit = 1
  MaxCrashes = 1
  Faults = {"parse", "chunker", "qdrant", "sql"}
SYMMETRY Symmetry
INVARIANTS
  TypeOK
  ReadyIsSearchable
  DeletedLeavesNothing
  OrphanOrigin
  GhostOrigin
  NoticeFollowsRow
PROPERTIES
  ImplementsKnowledgeBase
