------------------------------ MODULE Dashboard ------------------------------
(***************************************************************************)
(* GET /workspaces/{id}/analytics: build_summary of analytics_service      *)
(* counts the rows of Conversations with one query after another, each of  *)
(* which sees what is committed when it runs.  Turns go on in between.     *)
(*                                                                         *)
(* The figures of documents, feedback and latency are left out: they are   *)
(* counts of rows that Conversations does not have.                        *)
(***************************************************************************)
EXTENDS Conversations, Integers, Sequences

CONSTANTS Workspaces   \* of every organization

VARIABLES
  sentTo,    \* the workspace that each turn is sent to
  deep,      \* chat turns that ask for deep research
  open,      \* a summary is being made
  scope,     \* for whom, and of which workspace
  figures,   \* what its queries have counted so far, see Counted
  before     \* history: what they would have counted when it was asked for

dashVars == <<sentTo, deep, open, scope, figures, before>>

\* org_ws: a conversation is in the workspace that it was begun in, a run in
\* the one that it was sent to.
OwnConversations(s) == {k \in conversations : <<k.org, sentTo[k.id]>> = s}
OwnMessages(s)      == {m \in messages : \E k \in OwnConversations(s) : m.conv = k.id}
OwnQuestions(s)     == {m \in OwnMessages(s) : m.role = "user"}
OwnRuns(s)          == {r \in runs : <<caller[r.turn], sentTo[r.turn]>> = s}
\* ev_chat, the events of type "chat"; those of deep research have another.  All
\* have a name and a latency, so the queries drop nothing more.
OwnEvents(s)        == {t \in events \ deep : <<caller[t], sentTo[t]>> = s}

\* SummaryAddsUp, gone wrong: the questions are counted before the messages.
CountedQuestionsFirst(s) ==
  <<OwnConversations(s), OwnQuestions(s), OwnMessages(s), OwnRuns(s), OwnRuns(s), OwnEvents(s),
    OwnQuestions(s)>>

\* The queries in their order: conversations, messages_total, messages_user,
\* agent_runs and, added up, agent_mix, query_type_mix and activity.
Counted(s) ==
  <<OwnConversations(s), OwnMessages(s), OwnQuestions(s), OwnRuns(s), OwnRuns(s), OwnEvents(s),
    OwnQuestions(s)>>

Queries == 1..7
Figure(s, i) == Cardinality(Counted(s)[i])

Scope == Orgs \X Workspaces

DashInit ==
  /\ Init
  /\ sentTo \in [Turns -> Workspaces]
  /\ deep \in SUBSET ChatTurns
  /\ open = FALSE
  /\ scope \in Scope
  /\ figures = <<>>
  /\ before = [i \in Queries |-> 0]

DashTypeOK ==
  /\ sentTo \in [Turns -> Workspaces] /\ deep \subseteq ChatTurns
  /\ open \in BOOLEAN /\ scope \in Scope
  /\ figures \in Seq(Nat) /\ Len(figures) <= 7 /\ (open => Len(figures) < 7)
  /\ before \in [Queries -> Nat]

\* The workspace is found; it is one of the caller's organization.
AskSummary ==
  /\ ~open
  /\ open' = TRUE
  /\ \E s \in Scope : scope' = s /\ before' = [i \in Queries |-> Figure(s, i)]
  /\ figures' = <<>>
  /\ UNCHANGED <<vars, sentTo, deep>>

\* The next query; the last one ends the summary.
Query ==
  /\ open
  /\ figures' = Append(figures, Figure(scope, Len(figures) + 1))
  /\ open' = (Len(figures) + 1 < 7)
  /\ UNCHANGED <<vars, sentTo, deep, scope, before>>

Turn == Next /\ UNCHANGED dashVars

DashNext == AskSummary \/ Query \/ Turn

DashSpec == DashInit /\ [][DashNext]_<<vars, dashVars>>

-----------------------------------------------------------------------------
Shown == Len(figures) = 7

messagesTotal     == figures[2]
messagesUser      == figures[3]
messagesAssistant == messagesTotal - messagesUser
agentRuns         == figures[4]

\* A summary is of no single moment, but of one workspace at moments since it
\* was asked for: it never shows more conversations than questions or more
\* answers than questions, its parts are not less than the sums counted before
\* them, and if nobody was answered meanwhile, every question has its answer.
SummaryAddsUp ==
  Shown =>
    /\ \A i \in Queries : before[i] <= figures[i] /\ figures[i] <= Figure(scope, i)
    /\ figures[1] <= messagesUser
    /\ messagesAssistant <= messagesUser
    /\ agentRuns <= figures[5] /\ messagesUser <= figures[7]
    /\ figures[7] = before[7] => messagesAssistant = messagesUser

=============================================================================
