\* One workspace whose builds read its chunks, no restart.
SPECIFICATION Spec
CONSTANTS
  Person = Person  Entity = Entity
  Names = {"ann", "bob", "cid"}
  Types = {Person, Entity}
  Relations = {"reports", "manages"}
  Texts = {t1}
  Entities <- Mentions
  Facts <- States
  GivenTexts = {}
  Workspaces = {w1}
  None = None
  MaxSeeds = 1
  MaxDepth = 1
  MaxCrashes = 0
INVARIANTS
  GraphFollowsDocuments
