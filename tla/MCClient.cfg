\* A few gestures on the parts that share state, one failure, two questions, two documents.
SPECIFICATION Spec
CONSTANTS
  MaxQuestions = 2
  Users = {u1, u2}
  Workspaces = {w1, w2}
  Docs = {d1, d2}
  None = None
  First = u1
  Own = w1
  Focuses <- MCFocuses
  ChatSlots = {1, 2, 3, 4}
  LibSlots = {1, 2, 3, 4}
  BellSlots = {1, 2}
  FlowSlots = {1, 2, 3}
  MaxFailures = 1
INVARIANTS
  TypeOK
  AnswersSettle
  ScreenIsContinued
  TurnsStayHome
  ListIsCurrent
  SessionIsOnes
PROPERTIES
  BadgeConverges
CHECK_DEADLOCK FALSE
