\* An upload whose chunking or embedding raises, and nothing else fails.
SPECIFICATION Spec
CONSTANTS
  Docs = {d1}
  Deletes = {}
  Searches = {}
  o1 = o1  o2 = o2  w1 = w1  w2 = w2
  Orgs = {o1}
  Workspaces = {w1}
  WsOrg <- OneOnly
  Dims = {4}
  NoCollection = NoCollection
  MaxChunks = 1
  MaxLimit = 1
  MaxCrashes = 0
  Faults = {"chunker"}
INVARIANTS
  NoticeIsTrue
