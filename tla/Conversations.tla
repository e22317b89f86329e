---------------------------- MODULE Conversations ----------------------------
(***************************************************************************)
(* Chat history: POST /workspaces/{id}/chat (app/api/routers/chat.py) and  *)
(* POST /workspaces/{id}/agents/run (routers/agents.py) over               *)
(* chat_service, agent_service, analytics_service and recent_history of    *)
(* app/memory, with the tables conversations, messages, agent_runs and     *)
(* analytics_events.                                                       *)
(*                                                                         *)
(* A turn is one such request.  Its handler keeps everything it writes in  *)
(* one open transaction until its only commit; other turns run at every    *)
(* `await` in between, each a step here.                                   *)
(***************************************************************************)
EXTENDS Naturals, FiniteSets

CONSTANTS
  ChatTurns,     \* requests to /chat
  AgentTurns,    \* requests to /agents/run
  Orgs,
  NoConv,        \* no conversation_id
  HistoryLimit,  \* MEMORY_HISTORY_LIMIT
  MaxRatings     \* bound: feedback requests

Turns == ChatTurns \cup AgentTurns

ASSUME TurnsAssumption == ChatTurns \cap AgentTurns = {} /\ NoConv \notin Turns
ASSUME LimitsAssumption == HistoryLimit \in Nat /\ MaxRatings \in Nat

VARIABLES
  caller,         \* organization of the caller, per turn
  pc,             \* where each turn is
  mode,           \* what a turn writes: "turn", "blocked" or "unlogged", see Open
  conv,           \* the turn's conversation; one it creates has the turn's own name
  asked, replied, \* created_at of the turn's two messages, 0 before they are flushed
  history,        \* messages the turn read as conversation memory
  conversations,  \* committed rows of the four tables
  messages,
  runs,
  events,         \* turns with an analytics event
  rated,          \* messages that carry feedback
  ratings,        \* feedback requests so far
  clock,          \* last created_at given
  earlier         \* history: turns that were answered before this one was sent

tables == <<conversations, messages, runs, events>>
vars == <<caller, pc, mode, conv, asked, replied, history, conversations, messages, runs,
          events, rated, ratings, clock, earlier>>

Mode    == {"turn", "blocked", "unlogged"}
Pending == {"opened", "read", "asked", "answered"}
Over    == {"done", "failed"}

Conversation == [id: Turns, org: Orgs]
Message == [conv: Turns, turn: Turns, role: {"user", "assistant"}, stamp: Nat]
Run     == [turn: AgentTurns, conv: Turns \cup {NoConv}]

TypeOK ==
  /\ caller \in [Turns -> Orgs]
  /\ pc \in [Turns -> {"idle"} \cup Pending \cup Over]
  /\ mode \in [Turns -> Mode]
  /\ conv \in [Turns -> Turns \cup {NoConv}]
  /\ asked \in [Turns -> Nat] /\ replied \in [Turns -> Nat]
  /\ history \in [Turns -> SUBSET Message]
  /\ conversations \subseteq Conversation
  /\ messages \subseteq Message
  /\ runs \subseteq Run
  /\ events \subseteq ChatTurns
  /\ rated \subseteq Message
  /\ ratings \in 0..MaxRatings
  /\ clock \in Nat
  /\ earlier \in [Turns -> SUBSET Turns]

Init ==
  /\ caller \in [Turns -> Orgs]
  /\ pc = [t \in Turns |-> "idle"]
  /\ mode = [t \in Turns |-> "turn"]
  /\ conv = [t \in Turns |-> NoConv]
  /\ asked = [t \in Turns |-> 0] /\ replied = [t \in Turns |-> 0]
  /\ history = [t \in Turns |-> {}]
  /\ conversations = {} /\ messages = {} /\ runs = {} /\ events = {}
  /\ rated = {} /\ ratings = 0
  /\ clock = 0
  /\ earlier = [t \in Turns |-> {}]

-----------------------------------------------------------------------------
(* Steps gone wrong, each the way a change of the code could: the property   *)
(* named with it refuses it.                                                *)

\* TranscriptRespectsOrder: created_at truncated to what the clock last gave.
NowCoarse == clock

\* MessagesKeepTenant: find the conversation whatever its organization.
VisibleAnywhere(t, c) == \E k \in conversations : k.id = c

\* HistoryIsWhole: the agents' window for /chat too.
RecalledByWindow(t) ==
  {m \in messages : m.conv = conv[t] /\
     Cardinality({k \in messages : k.conv = conv[t] /\ k.stamp > m.stamp}) < HistoryLimit}

\* ImplementsTurnLog: a blocked first turn does not keep its conversation.
NewConversationIfAllowed(t) ==
  IF conv[t] = t /\ mode[t] = "turn" THEN {[id |-> t, org |-> caller[t]]} ELSE {}

\* RecordsMatchTranscript: count refused prompts as usage.
NewEventAlways(t) == IF t \in ChatTurns THEN {t} ELSE {}

\* NoEmptyConversation: commit the conversation as soon as it is created.
StartCommitted(t) ==
  /\ conv' = [conv EXCEPT ![t] = t]
  /\ conversations' = conversations \cup {[id |-> t, org |-> caller[t]]}

\* TurnsAreWhole: add_message commits.
FlushQuestionCommitted(t) ==
  /\ pc[t] = "read" /\ mode[t] = "turn"
  /\ clock' = clock + 1
  /\ asked' = [asked EXCEPT ![t] = clock']
  /\ messages' = messages \cup
       {[conv |-> conv[t], turn |-> t, role |-> "user", stamp |-> clock']}
  /\ pc' = [pc EXCEPT ![t] = "asked"]
  /\ UNCHANGED <<caller, mode, conv, replied, history, conversations, runs, events,
                 rated, ratings, earlier>>

\* FollowUpRemembers: answer first, commit in the background.
AnswerUncommitted(t) ==
  /\ pc[t] = "answered"
  /\ pc' = [pc EXCEPT ![t] = "done"]
  /\ UNCHANGED <<caller, mode, conv, asked, replied, history, tables, rated, ratings, clock, earlier>>

-----------------------------------------------------------------------------
(* Queries and rows.                                                        *)

\* get_conversation(db, c, org) finds the row.
Visible(t, c) == \E k \in conversations : k.id = c /\ k.org = caller[t]

\* list_messages: the whole conversation.
Transcript(c) == {m \in messages : m.conv = c}

\* The n messages of S with the latest created_at.
Latest(S, n) == {m \in S : Cardinality({k \in S : k.stamp > m.stamp}) < n}

Question(t) == [conv |-> conv[t], turn |-> t, role |-> "user", stamp |-> asked[t]]
Answer(t)   == [conv |-> conv[t], turn |-> t, role |-> "assistant", stamp |-> replied[t]]

\* What the transaction of t holds when it commits.
NewConversation(t) == IF conv[t] = t THEN {[id |-> t, org |-> caller[t]]} ELSE {}
NewMessages(t) == IF mode[t] = "unlogged" THEN {} ELSE {Question(t), Answer(t)}
NewRun(t)   == IF t \in AgentTurns THEN {[turn |-> t, conv |-> conv[t]]} ELSE {}
NewEvent(t) == IF t \in ChatTurns /\ mode[t] = "turn" THEN {t} ELSE {}

-----------------------------------------------------------------------------
(* Opening a turn.                                                          *)

\* create_conversation: flushed only, the row commits with the turn.
Start(t) ==
  /\ conv' = [conv EXCEPT ![t] = t]
  /\ UNCHANGED conversations

\* Continue conversation c of the caller's organization.
Resume(t, c) ==
  /\ Visible(t, c)
  /\ conv' = [conv EXCEPT ![t] = c]
  /\ UNCHANGED conversations

\* An agent run with persist_history off takes the id it is given.
Attach(t, c) ==
  /\ conv' = [conv EXCEPT ![t] = c]
  /\ UNCHANGED conversations

\* The workspace is found and the conversation resolved or created.  A turn is
\* then written with its messages; one whose prompt the guard refuses too, but
\* by /chat only; one of an agent without persist_history is not.
Open(t) ==
  /\ pc[t] = "idle"
  /\ \E m \in Mode :
       /\ m = "blocked" => t \in ChatTurns
       /\ m = "unlogged" => t \in AgentTurns
       /\ mode' = [mode EXCEPT ![t] = m]
       /\ IF m = "unlogged"
            THEN \E c \in (Turns \ {t}) \cup {NoConv} : Attach(t, c)
            ELSE Start(t) \/ \E c \in Turns : Resume(t, c)
  /\ pc' = [pc EXCEPT ![t] = "opened"]
  /\ earlier' = [earlier EXCEPT ![t] = {u \in Turns : pc[u] = "done"}]
  /\ UNCHANGED <<caller, asked, replied, history, messages, runs, events, rated, ratings, clock>>

\* 404 for the workspace or the conversation, or the guard refuses an agent's
\* prompt: nothing is written.
Refuse(t) ==
  /\ pc[t] = "idle"
  /\ pc' = [pc EXCEPT ![t] = "failed"]
  /\ UNCHANGED <<caller, mode, conv, asked, replied, history, tables, rated, ratings, clock, earlier>>

-----------------------------------------------------------------------------
(* Answering it.                                                            *)

\* /chat passes the whole conversation, an agent gets recent_history.
Recalled(t) ==
  IF t \in ChatTurns THEN Transcript(conv[t]) ELSE Latest(Transcript(conv[t]), HistoryLimit)

ReadHistory(t) ==
  /\ pc[t] = "opened" /\ mode[t] # "blocked"
  /\ history' = [history EXCEPT ![t] = Recalled(t)]
  /\ pc' = [pc EXCEPT ![t] = "read"]
  /\ UNCHANGED <<caller, mode, conv, asked, replied, tables, rated, ratings, clock, earlier>>

\* datetime.now(UTC) when a row is flushed: later than the flush before it.
Now == clock + 1

\* The answer is there (the engine runs without an await): add both messages.
FlushQuestion(t) ==
  /\ \/ pc[t] = "read" /\ mode[t] = "turn"
     \/ pc[t] = "opened" /\ mode[t] = "blocked"
  /\ clock' = Now
  /\ asked' = [asked EXCEPT ![t] = Now]
  /\ pc' = [pc EXCEPT ![t] = "asked"]
  /\ UNCHANGED <<caller, mode, conv, replied, history, tables, rated, ratings, earlier>>

FlushAnswer(t) ==
  /\ pc[t] = "asked"
  /\ clock' = Now
  /\ replied' = [replied EXCEPT ![t] = Now]
  /\ pc' = [pc EXCEPT ![t] = "answered"]
  /\ UNCHANGED <<caller, mode, conv, asked, history, tables, rated, ratings, earlier>>

\* Flush the event or the run and commit, once; the answer may still be lost.
Commit(t) ==
  /\ \/ pc[t] = "answered"
     \/ pc[t] = "read" /\ mode[t] = "unlogged"
  /\ conversations' = conversations \cup NewConversation(t)
  /\ messages' = messages \cup NewMessages(t)
  /\ runs' = runs \cup NewRun(t)
  /\ events' = events \cup NewEvent(t)
  /\ \E o \in Over : pc' = [pc EXCEPT ![t] = o]
  /\ UNCHANGED <<caller, mode, conv, asked, replied, history, rated, ratings, clock, earlier>>

\* The agent is unknown (400), the engine raises, or a query, a flush or the
\* commit does (a database that enforces foreign keys refuses a run whose
\* conversation does not exist): what is not committed is rolled back.  When the
\* process dies, every open turn ends like this.
Fail(t) ==
  /\ pc[t] \in Pending
  /\ pc' = [pc EXCEPT ![t] = "failed"]
  /\ UNCHANGED <<caller, mode, conv, asked, replied, history, tables, rated, ratings, clock, earlier>>

-----------------------------------------------------------------------------
(* POST /messages/{id}/feedback: get_message joins the conversation for the  *)
(* caller's organization; the rating replaces the one before.               *)
Rate(o) ==
  /\ ratings < MaxRatings
  /\ ratings' = ratings + 1
  /\ \E k \in conversations : \E m \in Transcript(k.id) :
       k.org = o /\ rated' = rated \cup {m}
  /\ UNCHANGED <<caller, pc, mode, conv, asked, replied, history, tables, clock, earlier>>

\* Every turn is over and nobody sends another.
Quiet == (\A t \in Turns : pc[t] \in Over) /\ UNCHANGED vars

Next ==
  \/ \E t \in Turns :
       \/ Open(t) \/ Refuse(t) \/ ReadHistory(t) \/ FlushQuestion(t) \/ FlushAnswer(t)
       \/ Commit(t) \/ Fail(t)
  \/ \E o \in Orgs : Rate(o)
  \/ Quiet

Spec == Init /\ [][Next]_vars

-----------------------------------------------------------------------------
(* Safety.                                                                  *)

MessagesOf(t) == {m \in messages : m.turn = t}
Logged(t) == MessagesOf(t) # {}

\* A turn is in the history with its question and, later, its answer, in one
\* conversation, or not at all: whatever fails between the two flushes, and
\* however turns interleave.
TurnsAreWhole ==
  \A t \in Turns : Logged(t) =>
    \E q, a \in messages :
      /\ MessagesOf(t) = {q, a}
      /\ q.role = "user" /\ a.role = "assistant"
      /\ q.conv = a.conv /\ q.stamp < a.stamp

\* A conversation is listed only once the turn that began it can be read in it;
\* one whose first turn failed does not exist.
NoEmptyConversation == \A k \in conversations : \E m \in Transcript(k.id) : m.turn = k.id

\* A turn is written into conversations of its caller's organization only.
MessagesKeepTenant ==
  \A m \in messages : \E k \in conversations : k.id = m.conv /\ k.org = caller[m.turn]

\* The memory a /chat turn answers from has no question without its answer and
\* no answer without its question, though other turns may be half written.
HistoryIsWhole ==
  \A t \in ChatTurns : \A m \in history[t] :
    \E n \in history[t] : n.turn = m.turn /\ n.role # m.role

\* A turn that was answered before another one of its conversation was sent is
\* in that one's memory; an agent may miss it only for newer messages.
FollowUpRemembers ==
  \A t \in Turns : pc[t] \in {"read", "asked", "answered", "done"} /\ mode[t] # "blocked" =>
    \A u \in earlier[t] : mode[u] # "unlogged" /\ conv[u] = conv[t] =>
      \A m \in {Question(u), Answer(u)} :
        \/ m \in history[t]
        \/ /\ t \in AgentTurns /\ Cardinality(history[t]) >= HistoryLimit
           /\ \A h \in history[t] : h.stamp > m.stamp

\* list_messages orders by created_at: a turn sent after another one of the
\* conversation was answered is wholly after it.
TranscriptRespectsOrder ==
  \A m, n \in messages :
    m.conv = n.conv /\ m.turn \in earlier[n.turn] => m.stamp < n.stamp

\* The audit trail and the usage figures agree with the history: one run per
\* agent turn, one event per /chat turn that the guard let through.
RecordsMatchTranscript ==
  /\ events = {t \in ChatTurns : Logged(t) /\ mode[t] = "turn"}
  /\ \A t \in AgentTurns : mode[t] = "turn" =>
       (Logged(t) <=> [turn |-> t, conv |-> conv[t]] \in runs)

-----------------------------------------------------------------------------
(* The history a client expects, see TurnLog.                               *)

threadsBar   == {k.id : k \in conversations}
questionsBar == {<<m.turn, m.conv>> : m \in {n \in messages : n.role = "user"}}
answersBar   == {<<m.turn, m.conv>> : m \in {n \in messages : n.role = "assistant"}}

Log == INSTANCE TurnLog WITH threads <- threadsBar, questions <- questionsBar, answers <- answersBar

\* Seen through the tables, turns implement it.
ImplementsTurnLog == Log!Spec
=============================================================================
