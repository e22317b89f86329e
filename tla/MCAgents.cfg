\* Two runs, one memory and one graph build on a process that starts, and one
\* restart of it, perhaps with another embedding model.
SPECIFICATION Spec

CONSTANTS
  Requests = {r1, r2, m1, b1}
  Runs = {r1, r2}
  Asking = {r1, r2}
  Memories = {m1}
  Builds = {b1}
  Needs <- MCNeeds
  TableOrder <- MCTableOrder
  Nobody = Nobody
  Workspaces = {w1, w2}
  Dims = {d1, d2}
  NoDim = NoDim
  RecallLimit = 1
  Drafts <- MCDrafts
  AllowedTables <- MCAllowedTables
  MaxRows = 2
  MaxAttempts = 2
  NoLimit = NoLimit
  NoError = NoError
  NoAgent = NoAgent
  Crowds <- MCCrowds
  MaxReboots = 1

SYMMETRY MCSymmetry

\* A request is not sent again: the system stops when all are over.
CHECK_DEADLOCK FALSE

INVARIANTS
  OnlyRacesHurt
  RecallFollowsRows
  SqlAnswersHold
