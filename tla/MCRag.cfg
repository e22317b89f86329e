SPECIFICATION Spec
CONSTANTS
  Kinds <- MCKinds
  Blank = {" ", "n"}
  Texts <- MCTexts
  AskedTexts <- MCAsked
  MaxPassages = 3
  Sizes = {2, 3, 4}
  Overlaps = {0, 1, 2}
  Separators <- MCSeparators
  ChildSize = 2
  ChildOverlap = 1
  Questions <- MCQuestions
  RrfK = 60
  DenseK = 2
  SparseK = 3
  CandidateK = 2
  TopN = 2
  PerStepK = 1
  MaxSources = 2
  MaxSubQuestions = 4
CHECK_DEADLOCK FALSE
INVARIANTS
  ChunksCoverText
  EvidenceIsRanked
