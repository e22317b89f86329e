\* Two workspaces, builds from chunks and from a given text, one restart.
SPECIFICATION FairSpec
CONSTANTS
  Person = Person  Entity = Entity
  Names = {"ann", "bob", "cid"}
  Types = {Person, Entity}
  Relations = {"reports", "manages"}
  Texts = {t1}
  Entities <- Mentions
  Facts <- States
  GivenTexts = {t1}
  Workspaces = {w1, w2}
  None = None
  MaxSeeds = 2
  MaxDepth = 2
  MaxCrashes = 1
INVARIANTS
  TypeOK
  AnswersAreExact
  AnswersComeFromTexts
PROPERTIES
  QueriesAnswered
