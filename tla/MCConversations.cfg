\* Two chat turns and an agent turn of two organizations, one feedback; or one
\* of each in two workspaces, and summaries.
SPECIFICATION BoundedSpec
CONSTANTS
  ChatTurns = {c1, c2}
  AgentTurns = {a1}
  Orgs = {o1, o2}
  NoConv = NoConv
  HistoryLimit = 3
  MaxRatings = 1
  Workspaces = {w1, w2}
SYMMETRY Symmetry
INVARIANTS
  TurnsAreWhole
  NoEmptyConversation
  MessagesKeepTenant
  HistoryIsWhole
  FollowUpRemembers
  TranscriptRespectsOrder
  RecordsMatchTranscript
  SummaryAddsUp
PROPERTIES
  ImplementsTurnLog
