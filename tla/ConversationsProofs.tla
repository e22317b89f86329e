------------------------- MODULE ConversationsProofs -------------------------
(***************************************************************************)
(* Theorems about Conversations, and the summary that Dashboard makes of   *)
(* it, for any number of turns, organizations, workspaces and ratings and  *)
(* any history limit.                                                      *)
(***************************************************************************)
EXTENDS Dashboard, LeastElement

-----------------------------------------------------------------------------
(* The inductive invariant.                                                 *)

\* created_at never runs ahead of the clock, and answers follow questions.
StampInv ==
  \A t \in Turns :
    /\ asked[t] <= clock /\ replied[t] <= clock
    /\ pc[t] = "answered" => asked[t] < replied[t]

\* A message is one of the two of a turn that is over, and the other is there.
MessagesInv ==
  \A m \in messages :
    /\ m = Question(m.turn) \/ m = Answer(m.turn)
    /\ Question(m.turn) \in messages /\ Answer(m.turn) \in messages
    /\ pc[m.turn] \in Over
    /\ asked[m.turn] < replied[m.turn]

\* A conversation holds the turn that began it; an open turn that will be
\* written goes to its own conversation or to one its caller can see.
ThreadInv ==
  /\ \A k \in conversations : Question(k.id) \in messages /\ conv[k.id] = k.id
  /\ \A t \in Turns :
       /\ pc[t] \in Pending /\ mode[t] # "unlogged" =>
            conv[t] \in Turns /\ (conv[t] = t \/ Visible(t, conv[t]))
       /\ pc[t] \in Pending /\ mode[t] = "unlogged" => conv[t] # t
       /\ pc[t] \in {"asked", "answered"} => mode[t] # "unlogged"
       /\ mode[t] = "unlogged" => t \in AgentTurns

\* Runs belong to turns that are over.
RunsInv == \A r \in runs : pc[r.turn] \in Over

\* A turn that was answered before another was sent was stamped before it.
OrderInv ==
  \A t \in Turns : \A u \in earlier[t] :
    /\ pc[u] = "done"
    /\ pc[t] \in {"asked", "answered"} \/ Question(t) \in messages => replied[u] < asked[t]

IInv ==
  /\ TypeOK
  /\ StampInv /\ MessagesInv /\ ThreadInv /\ RunsInv /\ OrderInv
  /\ MessagesKeepTenant /\ HistoryIsWhole /\ RecordsMatchTranscript

-----------------------------------------------------------------------------
(* Type correctness.                                                        *)

\* The initial state is well typed.
LEMMA InitTypeOK == Init => TypeOK
  BY LimitsAssumption DEF Init, TypeOK, Mode, Message

\* Opening a turn keeps the types.
LEMMA OpenTypeOK ==
  ASSUME TypeOK, NEW t \in Turns, Open(t)
  PROVE  TypeOK'
  <1>1. conv' \in [Turns -> Turns \cup {NoConv}] /\ conversations' = conversations
    BY DEF TypeOK, Open, Start, Resume, Attach
  <1>2. earlier' \in [Turns -> SUBSET Turns]
    BY DEF TypeOK, Open
  <1>3. QED
    BY <1>1, <1>2 DEF TypeOK, Open, Pending

\* Conversation memory consists of messages of the table.
LEMMA RecalledType ==
  ASSUME TypeOK, NEW t \in Turns
  PROVE  Recalled(t) \subseteq messages
  BY DEF Recalled, Transcript, Latest

\* The commit keeps the types when the turn it writes has a conversation.
LEMMA CommitTypeOK ==
  ASSUME TypeOK, NEW t \in Turns, Commit(t), mode[t] # "unlogged" => conv[t] \in Turns
  PROVE  TypeOK'
  <1> USE DEF TypeOK, Commit
  <1>1. conversations' \subseteq Conversation
    BY DEF NewConversation, Conversation
  <1>2. messages' \subseteq Message
    BY DEF NewMessages, Question, Answer, Message
  <1>3. runs' \subseteq Run
    BY DEF NewRun, Run
  <1>4. events' \subseteq ChatTurns
    BY DEF NewEvent
  <1>5. pc' \in [Turns -> {"idle"} \cup Pending \cup Over]
    OBVIOUS
  <1>6. QED
    BY <1>1, <1>2, <1>3, <1>4, <1>5

\* The steps of a turn that touch only its own fields.
Stretch(t) ==
  Refuse(t) \/ ReadHistory(t) \/ FlushQuestion(t) \/ FlushAnswer(t) \/ Fail(t)

\* The other steps of a turn keep the types.
LEMMA StretchTypeOK ==
  ASSUME TypeOK, NEW t \in Turns, Stretch(t)
  PROVE  TypeOK'
  <1> USE DEF TypeOK, tables, Pending, Over, Now
  <1>1. CASE Refuse(t) \/ Fail(t)
    BY <1>1 DEF Refuse, Fail
  <1>2. CASE ReadHistory(t)
    BY <1>2, RecalledType DEF ReadHistory
  <1>3. CASE FlushQuestion(t)
    BY <1>3 DEF FlushQuestion
  <1>4. CASE FlushAnswer(t)
    BY <1>4 DEF FlushAnswer
  <1>5. QED
    BY <1>1, <1>2, <1>3, <1>4 DEF Stretch

\* Feedback keeps the types.
LEMMA RateTypeOK ==
  ASSUME TypeOK, NEW o \in Orgs, Rate(o)
  PROVE  TypeOK'
  <1>1. rated' \subseteq Message /\ ratings' \in 0..MaxRatings
    BY LimitsAssumption DEF TypeOK, Rate, Transcript
  <1>2. QED
    BY <1>1 DEF TypeOK, Rate, tables

-----------------------------------------------------------------------------
(* The invariant is inductive.                                              *)

\* The inductive invariant holds initially: the tables are empty.
LEMMA InitIInv == Init => IInv
  <1> SUFFICES ASSUME Init PROVE IInv
    OBVIOUS
  <1>1. TypeOK
    BY InitTypeOK
  <1>2. StampInv /\ MessagesInv /\ ThreadInv /\ RunsInv /\ OrderInv
    BY DEF Init, StampInv, MessagesInv, ThreadInv, RunsInv, OrderInv, Pending
  <1>3. MessagesKeepTenant /\ HistoryIsWhole
    BY DEF Init, MessagesKeepTenant, HistoryIsWhole, Turns
  <1>4. RecordsMatchTranscript
    BY DEF Init, RecordsMatchTranscript, Logged, MessagesOf
  <1>5. QED
    BY <1>1, <1>2, <1>3, <1>4 DEF IInv

\* The tables do not change, and nothing that a committed message was made of.
Untouched(t) ==
  /\ pc[t] \notin Over
  /\ UNCHANGED <<tables, caller>>
  /\ \A u \in Turns \ {t} :
       pc'[u] = pc[u] /\ mode'[u] = mode[u] /\ conv'[u] = conv[u]
         /\ asked'[u] = asked[u] /\ replied'[u] = replied[u]

\* A turn that is not over has nothing in the tables.
LEMMA NothingWritten ==
  ASSUME IInv, NEW t \in Turns, pc[t] \notin Over
  PROVE  /\ \A m \in messages : m.turn # t
         /\ \A k \in conversations : k.id # t
         /\ \A r \in runs : r.turn # t
         /\ t \notin events
  <1>1. \A m \in messages : m.turn # t
    BY DEF IInv, MessagesInv
  <1>2. \A k \in conversations : k.id # t
    BY <1>1 DEF IInv, ThreadInv, Question
  <1>3. \A r \in runs : r.turn # t
    BY DEF IInv, RunsInv
  <1>4. t \notin events
    BY <1>1 DEF IInv, RecordsMatchTranscript, Logged, MessagesOf
  <1>5. QED
    BY <1>1, <1>2, <1>3, <1>4

\* What the tables say of the turns stays true while a turn prepares its commit.
LEMMA UntouchedTables ==
  ASSUME IInv, NEW t \in Turns, Untouched(t)
  PROVE  MessagesInv' /\ RunsInv' /\ MessagesKeepTenant' /\ RecordsMatchTranscript'
         /\ (\A k \in conversations' : Question(k.id)' \in messages' /\ conv'[k.id] = k.id)
  <1> USE NothingWritten DEF tables, Untouched
  <1>1. \A m \in messages : m.turn \in Turns
    BY DEF IInv, TypeOK, Message
  <1>2. MessagesInv'
    BY <1>1 DEF IInv, MessagesInv, Question, Answer
  <1>3. RunsInv'
    BY DEF IInv, TypeOK, Run, RunsInv, Turns
  <1>4. MessagesKeepTenant'
    BY <1>1 DEF IInv, MessagesKeepTenant
  <1>5. RecordsMatchTranscript'
    <2>1. \A u \in Turns : Logged(u)' = Logged(u)
      BY DEF Logged, MessagesOf
    <2>2. ~Logged(t)
      BY DEF Logged, MessagesOf
    <2>3. events = {u \in ChatTurns : Logged(u) /\ mode[u] = "turn"}'
      BY <2>1, <2>2 DEF IInv, RecordsMatchTranscript, Turns
    <2>4. ASSUME NEW u \in AgentTurns, mode'[u] = "turn"
          PROVE  Logged(u)' <=> [turn |-> u, conv |-> conv'[u]] \in runs'
      BY <2>1, <2>2, <2>4 DEF IInv, RecordsMatchTranscript, Turns
    <2>5. QED
      BY <2>3, <2>4 DEF RecordsMatchTranscript
  <1>6. ASSUME NEW k \in conversations
        PROVE  Question(k.id)' \in messages /\ conv'[k.id] = k.id
    BY DEF IInv, TypeOK, Conversation, ThreadInv, Question
  <1>7. QED
    BY <1>2, <1>3, <1>4, <1>5, <1>6

\* Opening a turn keeps the invariant.
LEMMA OpenIInv ==
  ASSUME IInv, NEW t \in Turns, Open(t)
  PROVE  IInv'
  <1>1. Untouched(t)
    BY DEF Open, Start, Resume, Attach, Untouched, IInv, TypeOK, Over, tables
  <1>2. TypeOK'
    BY OpenTypeOK DEF IInv
  <1>3. StampInv'
    BY DEF Open, IInv, TypeOK, StampInv
  <1>4. HistoryIsWhole'
    BY DEF Open, IInv, HistoryIsWhole
  <1>5. ThreadInv'
    <2>1. mode'[t] # "unlogged" => conv'[t] \in Turns /\ (conv'[t] = t \/ Visible(t, conv'[t]))
      BY DEF Open, Start, Resume, Attach, IInv, TypeOK
    <2>2. mode'[t] = "unlogged" => t \in AgentTurns /\ conv'[t] # t
      BY TurnsAssumption DEF Open, Attach, IInv, TypeOK
    <2>3. pc'[t] = "opened"
      BY DEF Open, IInv, TypeOK
    <2>4. \A u \in Turns : \A c : Visible(u, c)' = Visible(u, c)
      BY <1>1 DEF Visible, Untouched, tables
    <2>5. \A u \in Turns \ {t} : pc'[u] = pc[u] /\ mode'[u] = mode[u] /\ conv'[u] = conv[u]
      BY <1>1 DEF Untouched
    <2>6. \A k \in conversations' : Question(k.id)' \in messages' /\ conv'[k.id] = k.id
      BY <1>1, UntouchedTables
    <2>7. QED
      BY <2>1, <2>2, <2>3, <2>4, <2>5, <2>6 DEF ThreadInv, IInv
  <1>6. OrderInv'
    <2>1. ASSUME NEW v \in Turns, NEW u \in earlier'[v]
          PROVE  /\ pc'[u] = "done"
                 /\ pc'[v] \in {"asked", "answered"} \/ Question(v)' \in messages' =>
                      replied'[u] < asked'[v]
      <3>1. CASE v = t
        <4>1. u \in Turns /\ pc[u] = "done" /\ u # t
          BY <3>1 DEF Open, IInv, TypeOK
        <4>2. pc'[v] = "opened" /\ Question(v)' \notin messages'
          BY <3>1, <1>1, NothingWritten DEF Open, IInv, TypeOK, Question, Untouched, tables
        <4>3. QED
          BY <4>1, <4>2, <1>1 DEF Untouched
      <3>2. CASE v # t
        <4>1. u \in earlier[v] /\ u \in Turns /\ pc[u] = "done" /\ u # t
          BY <3>2 DEF Open, IInv, TypeOK, OrderInv
        <4>2. Question(v)' = Question(v)
          BY <3>2, <1>1 DEF Untouched, Question
        <4>3. QED
          BY <3>2, <4>1, <4>2, <1>1 DEF Untouched, tables, IInv, OrderInv
      <3>3. QED
        BY <3>1, <3>2
    <2>2. QED
      BY <2>1 DEF OrderInv
  <1>7. QED
    BY <1>1, <1>2, <1>3, <1>4, <1>5, <1>6, UntouchedTables DEF IInv

\* What the other steps of a turn before its commit leave as it was.
LEMMA StretchFrame ==
  ASSUME IInv, NEW t \in Turns, Stretch(t)
  PROVE  /\ Untouched(t)
         /\ UNCHANGED <<mode, conv, earlier>>
         /\ pc'[t] \in {"read", "asked", "answered", "failed"}
         /\ \A u \in Turns : u # t => pc'[u] = pc[u]
  <1> USE DEF IInv, TypeOK, tables, Pending, Over
  <1>1. /\ UNCHANGED <<mode, conv, earlier, tables, caller>> /\ pc[t] \notin Over
    BY DEF Stretch, Refuse, ReadHistory, FlushQuestion, FlushAnswer, Fail
  <1>2. \E p \in {"read", "asked", "answered", "failed"} : pc' = [pc EXCEPT ![t] = p]
    BY DEF Stretch, Refuse, ReadHistory, FlushQuestion, FlushAnswer, Fail
  <1>3. \A u \in Turns \ {t} : asked'[u] = asked[u] /\ replied'[u] = replied[u]
    BY DEF Stretch, Refuse, ReadHistory, FlushQuestion, FlushAnswer, Fail
  <1>4. QED
    BY <1>1, <1>2, <1>3 DEF Untouched

\* The other steps before a commit keep the turn in the conversation it found.
LEMMA StretchThread ==
  ASSUME IInv, NEW t \in Turns, Stretch(t)
  PROVE  ThreadInv'
  <1>1. Untouched(t) /\ UNCHANGED <<mode, conv>> /\ \A u \in Turns : u # t => pc'[u] = pc[u]
    BY StretchFrame
  <1>2. \A k \in conversations' : Question(k.id)' \in messages' /\ conv'[k.id] = k.id
    BY <1>1, UntouchedTables
  <1>3. \A u \in Turns : \A c : Visible(u, c)' = Visible(u, c)
    BY <1>1 DEF Visible, Untouched, tables
  <1>4. pc'[t] \in Pending => pc[t] \in Pending
    BY DEF Stretch, Refuse, ReadHistory, FlushQuestion, FlushAnswer, Fail, IInv, TypeOK, Pending, Over
  <1>5. pc'[t] \in {"asked", "answered"} => mode[t] # "unlogged"
    BY DEF Stretch, Refuse, ReadHistory, FlushQuestion, FlushAnswer, Fail, IInv, TypeOK, ThreadInv
  <1>6. QED
    BY <1>1, <1>2, <1>3, <1>4, <1>5 DEF ThreadInv, IInv

\* They take their created_at from the clock, which only grows.
LEMMA StretchStamp ==
  ASSUME IInv, NEW t \in Turns, Stretch(t)
  PROVE  StampInv'
  <1> USE DEF IInv, TypeOK, StampInv, Now
  <1>1. CASE Refuse(t) \/ ReadHistory(t) \/ Fail(t)
    BY <1>1 DEF Refuse, ReadHistory, Fail
  <1>2. CASE FlushQuestion(t)
    BY <1>2 DEF FlushQuestion
  <1>3. CASE FlushAnswer(t)
    BY <1>3 DEF FlushAnswer
  <1>4. QED
    BY <1>1, <1>2, <1>3 DEF Stretch

\* They are stamped after every turn that was answered before the turn was sent.
LEMMA StretchOrder ==
  ASSUME IInv, NEW t \in Turns, Stretch(t)
  PROVE  OrderInv'
  <1> SUFFICES ASSUME NEW v \in Turns, NEW u \in earlier'[v]
               PROVE  /\ pc'[u] = "done"
                      /\ pc'[v] \in {"asked", "answered"} \/ Question(v)' \in messages' =>
                           replied'[u] < asked'[v]
    BY DEF OrderInv
  <1>1. Untouched(t) /\ UNCHANGED earlier
    BY StretchFrame
  <1>2. u \in Turns /\ pc[u] = "done" /\ u # t
    BY <1>1 DEF IInv, TypeOK, OrderInv, Untouched, Over
  <1>3. pc'[u] = "done" /\ replied'[u] = replied[u]
    BY <1>1, <1>2 DEF Untouched
  <1>4. CASE v # t
    <2>1. Question(v)' = Question(v) /\ messages' = messages
      BY <1>4, <1>1 DEF Question, Untouched, tables
    <2>2. QED
      BY <1>1, <1>3, <1>4, <2>1 DEF IInv, OrderInv, Untouched
  <1>5. CASE v = t
    <2>1. Question(v)' \notin messages'
      BY <1>1, <1>5, NothingWritten DEF Question, Untouched, tables
    <2>2. CASE FlushQuestion(t)
      BY <1>2, <1>3, <1>5, <2>2 DEF FlushQuestion, IInv, TypeOK, StampInv, Now
    <2>3. CASE ~FlushQuestion(t)
      <3>1. asked'[t] = asked[t]
        BY <2>3 DEF Stretch, Refuse, ReadHistory, FlushAnswer, Fail
      <3>2. pc'[t] \in {"asked", "answered"} => pc[t] = "asked"
        BY <2>3 DEF Stretch, Refuse, ReadHistory, FlushAnswer, Fail, IInv, TypeOK
      <3>3. QED
        BY <1>1, <1>3, <1>5, <2>1, <3>1, <3>2 DEF IInv, OrderInv
    <2>4. QED
      BY <2>2, <2>3
  <1>6. QED
    BY <1>4, <1>5

\* What a /chat turn reads is made of whole turns, as the tables are.
LEMMA StretchHistory ==
  ASSUME IInv, NEW t \in Turns, Stretch(t)
  PROVE  HistoryIsWhole'
  <1>1. CASE ~ReadHistory(t)
    <2>1. history' = history
      BY <1>1 DEF Stretch, Refuse, FlushQuestion, FlushAnswer, Fail
    <2>2. QED
      BY <2>1 DEF IInv, HistoryIsWhole
  <1>2. CASE ReadHistory(t)
    <2> SUFFICES ASSUME NEW v \in ChatTurns, NEW m \in history'[v]
                 PROVE  \E n \in history'[v] : n.turn = m.turn /\ n.role # m.role
      BY DEF HistoryIsWhole
    <2>1. CASE v # t
      BY <1>2, <2>1 DEF ReadHistory, IInv, TypeOK, HistoryIsWhole, Turns
    <2>2. CASE v = t
      <3>1. history'[v] = Transcript(conv[t])
        BY <1>2, <2>2 DEF ReadHistory, IInv, TypeOK, Recalled
      <3>2. m \in messages /\ m.conv = conv[t]
        BY <3>1 DEF Transcript
      <3>3. /\ m = Question(m.turn) \/ m = Answer(m.turn)
            /\ Question(m.turn) \in messages /\ Answer(m.turn) \in messages
        BY <3>2 DEF IInv, MessagesInv
      <3>4. /\ Question(m.turn).conv = Answer(m.turn).conv
            /\ Question(m.turn).turn = m.turn /\ Answer(m.turn).turn = m.turn
            /\ Question(m.turn).role = "user" /\ Answer(m.turn).role = "assistant"
        BY DEF Question, Answer
      <3>5. Question(m.turn) \in history'[v] /\ Answer(m.turn) \in history'[v]
        BY <3>1, <3>2, <3>3, <3>4 DEF Transcript
      <3>6. QED
        BY <3>3, <3>4, <3>5
    <2>3. QED
      BY <2>1, <2>2
  <1>3. QED
    BY <1>1, <1>2

\* They keep the invariant.
LEMMA StretchIInv ==
  ASSUME IInv, NEW t \in Turns, Stretch(t)
  PROVE  IInv'
  BY StretchTypeOK, StretchFrame, UntouchedTables, StretchThread, StretchStamp, StretchOrder,
     StretchHistory DEF IInv
-----------------------------------------------------------------------------
(* The commit.                                                              *)

\* The fields of turns do not change, only t is over now.
LEMMA CommitFrame ==
  ASSUME IInv, NEW t \in Turns, Commit(t)
  PROVE  /\ UNCHANGED <<caller, mode, conv, asked, replied, history, clock, earlier>>
         /\ pc[t] \notin Over /\ pc'[t] \in Over
         /\ \A u \in Turns : u # t => pc'[u] = pc[u]
         /\ \A u \in Turns : Question(u)' = Question(u) /\ Answer(u)' = Answer(u)
  BY DEF Commit, IInv, TypeOK, Over, Question, Answer

\* A turn that is written is in a conversation of its own, new, or in an
\* existing one that its caller sees.
LEMMA CommitThread ==
  ASSUME IInv, NEW t \in Turns, Commit(t)
  PROVE  /\ mode[t] # "unlogged" =>
              /\ pc[t] = "answered" /\ asked[t] < replied[t]
              /\ conv[t] \in Turns
              /\ conv[t] = t \/ Visible(t, conv[t])
         /\ mode[t] = "unlogged" => conv[t] # t /\ pc[t] = "read"
  BY DEF Commit, IInv, ThreadInv, StampInv, Pending

\* A commit adds the two messages of its turn, which had none.
LEMMA CommitMessages ==
  ASSUME IInv, NEW t \in Turns, Commit(t)
  PROVE  /\ \A m \in messages' : m \in messages \/
              (mode[t] # "unlogged" /\ m \in {Question(t), Answer(t)})
         /\ messages \subseteq messages'
         /\ mode[t] # "unlogged" => Question(t) \in messages' /\ Answer(t) \in messages'
         /\ Question(t).turn = t /\ Answer(t).turn = t
         /\ \A m \in messages : m.turn # t
  BY CommitFrame, NothingWritten DEF Commit, NewMessages, Question, Answer

\* After a commit every message still has its counterpart.
LEMMA CommitMessagesInv ==
  ASSUME IInv, NEW t \in Turns, Commit(t)
  PROVE  MessagesInv'
  <1> SUFFICES ASSUME NEW m \in messages'
               PROVE  /\ m = Question(m.turn)' \/ m = Answer(m.turn)'
                      /\ Question(m.turn)' \in messages' /\ Answer(m.turn)' \in messages'
                      /\ pc'[m.turn] \in Over
                      /\ asked'[m.turn] < replied'[m.turn]
    BY DEF MessagesInv
  <1>1. CASE m \in messages
    <2>1. m.turn \in Turns /\ m.turn # t
      BY <1>1, CommitMessages DEF IInv, TypeOK, Message
    <2>2. /\ m = Question(m.turn) \/ m = Answer(m.turn)
          /\ Question(m.turn) \in messages /\ Answer(m.turn) \in messages
          /\ pc[m.turn] \in Over /\ asked[m.turn] < replied[m.turn]
      BY <1>1 DEF IInv, MessagesInv
    <2>3. messages \subseteq messages' /\ pc'[m.turn] = pc[m.turn]
      BY <2>1, CommitFrame, CommitMessages
    <2>4. QED
      BY <2>2, <2>3, CommitFrame DEF Question, Answer
  <1>2. CASE m \in {Question(t), Answer(t)} /\ mode[t] # "unlogged"
    <2>1. m.turn = t
      BY <1>2, CommitMessages
    <2>2. Question(t)' = Question(t) /\ Answer(t)' = Answer(t)
      BY CommitFrame
    <2>3. Question(t) \in messages' /\ Answer(t) \in messages'
      BY <1>2, CommitMessages
    <2>4. pc'[t] \in Over /\ asked'[t] < replied'[t]
      BY <1>2, CommitFrame, CommitThread
    <2>5. QED
      BY <1>2, <2>1, <2>2, <2>3, <2>4 DEF Question, Answer
  <1>3. QED
    BY <1>1, <1>2, CommitMessages

\* After a commit every conversation still has its first turn.
LEMMA CommitThreadInv ==
  ASSUME IInv, NEW t \in Turns, Commit(t)
  PROVE  ThreadInv'
  <1>1. ASSUME NEW k \in conversations'
        PROVE  Question(k.id)' \in messages' /\ conv'[k.id] = k.id
    <2>1. CASE k \in conversations
      BY <2>1, CommitFrame, CommitMessages DEF IInv, TypeOK, Conversation, ThreadInv
    <2>2. CASE k \notin conversations
      <3>1. conv[t] = t /\ k.id = t
        BY <2>2 DEF Commit, NewConversation
      <3>2. QED
        BY <3>1, CommitFrame, CommitMessages, CommitThread
    <2>3. QED
      BY <2>1, <2>2
  <1>2. \A u \in Turns : \A c : Visible(u, c) => Visible(u, c)'
    BY CommitFrame DEF Visible, Commit
  <1>3. \A u \in Turns : pc'[u] \notin Over => u # t
    BY CommitFrame
  <1>4. QED
    BY <1>1, <1>2, <1>3, CommitFrame DEF ThreadInv, IInv, Pending, Over

\* A commit writes into a conversation of the caller's organization.
LEMMA CommitTenant ==
  ASSUME IInv, NEW t \in Turns, Commit(t)
  PROVE  MessagesKeepTenant'
  <1> SUFFICES ASSUME NEW m \in messages'
               PROVE  \E k \in conversations' : k.id = m.conv /\ k.org = caller'[m.turn]
    BY DEF MessagesKeepTenant
  <1>1. conversations \subseteq conversations'
    BY DEF Commit
  <1>2. CASE m \in messages
    BY <1>1, <1>2, CommitFrame DEF IInv, MessagesKeepTenant
  <1>3. CASE m \in {Question(t), Answer(t)} /\ mode[t] # "unlogged"
    <2>1. m.conv = conv[t] /\ m.turn = t
      BY <1>3 DEF Question, Answer
    <2>2. CASE conv[t] = t
      <3>1. [id |-> t, org |-> caller[t]] \in conversations'
        BY <2>2 DEF Commit, NewConversation
      <3>2. QED
        BY <2>1, <2>2, <3>1, CommitFrame
    <2>3. CASE Visible(t, conv[t])
      BY <1>1, <2>1, <2>3, CommitFrame DEF Visible
    <2>4. QED
      BY <1>3, <2>2, <2>3, CommitThread
  <1>4. QED
    BY <1>2, <1>3, CommitMessages

\* A commit keeps the order of the turns.
LEMMA CommitOrder ==
  ASSUME IInv, NEW t \in Turns, Commit(t)
  PROVE  OrderInv'
  <1> SUFFICES ASSUME NEW v \in Turns, NEW u \in earlier[v]
               PROVE  /\ pc'[u] = "done"
                      /\ pc'[v] \in {"asked", "answered"} \/ Question(v) \in messages' =>
                           replied[u] < asked[v]
    BY CommitFrame DEF OrderInv
  <1>1. u \in Turns /\ pc[u] = "done" /\ u # t
    BY CommitFrame DEF IInv, TypeOK, OrderInv, Over
  <1>2. CASE v = t
    <2>1. Question(v) \in messages' => pc[v] = "answered"
      BY <1>2, CommitMessages, CommitThread
    <2>2. QED
      BY <1>1, <1>2, <2>1, CommitFrame DEF IInv, OrderInv, Over
  <1>3. CASE v # t
    <2>1. Question(v).turn = v
      BY DEF Question
    <2>2. Question(v) \in messages' => Question(v) \in messages
      BY <1>3, <2>1, CommitMessages
    <2>3. QED
      BY <1>1, <1>3, <2>2, CommitFrame DEF IInv, OrderInv
  <1>4. QED
    BY <1>2, <1>3

\* A commit adds the run or the event of its turn with its messages.
LEMMA CommitRecords ==
  ASSUME IInv, NEW t \in Turns, Commit(t)
  PROVE  RecordsMatchTranscript' /\ RunsInv'
  <1>1. \A u \in Turns : u # t => (Logged(u)' <=> Logged(u))
    BY CommitMessages DEF Logged, MessagesOf
  <1>2. Logged(t)' <=> mode[t] # "unlogged"
    BY CommitMessages DEF Logged, MessagesOf
  <1>3. ~Logged(t)
    BY CommitMessages DEF Logged, MessagesOf
  <1>4. events' = {u \in ChatTurns : Logged(u)' /\ mode'[u] = "turn"}
    BY <1>1, <1>2, <1>3, CommitFrame
       DEF Commit, NewEvent, IInv, RecordsMatchTranscript, Turns
  <1>5. ASSUME NEW u \in AgentTurns, mode'[u] = "turn"
        PROVE  Logged(u)' <=> [turn |-> u, conv |-> conv'[u]] \in runs'
    <2>1. CASE u = t
      BY <1>2, <1>5, <2>1, CommitFrame DEF Commit, NewRun
    <2>2. CASE u # t
      <3>1. [turn |-> u, conv |-> conv[u]] \in runs' <=> [turn |-> u, conv |-> conv[u]] \in runs
        BY <2>2 DEF Commit, NewRun
      <3>2. QED
        BY <1>1, <1>5, <2>2, <3>1, CommitFrame DEF IInv, RecordsMatchTranscript, Turns
    <2>3. QED
      BY <2>1, <2>2
  <1>6. RunsInv'
    BY CommitFrame DEF Commit, NewRun, IInv, TypeOK, Run, RunsInv, Turns
  <1>7. QED
    BY <1>4, <1>5, <1>6 DEF RecordsMatchTranscript

\* A commit keeps the invariant.
LEMMA CommitIInv ==
  ASSUME IInv, NEW t \in Turns, Commit(t)
  PROVE  IInv'
  <1>1. TypeOK'
    BY CommitTypeOK, CommitThread DEF IInv
  <1>2. StampInv'
    BY CommitFrame DEF IInv, StampInv, Over
  <1>3. HistoryIsWhole'
    BY CommitFrame DEF IInv, HistoryIsWhole
  <1>4. QED
    BY <1>1, <1>2, <1>3, CommitMessagesInv, CommitThreadInv, CommitTenant, CommitOrder,
       CommitRecords DEF IInv

\* Feedback and idling change nothing that the other parts speak of.
LEMMA SameIInv ==
  ASSUME IInv, TypeOK',
         UNCHANGED <<caller, pc, mode, conv, asked, replied, history, tables, clock, earlier>>
  PROVE  IInv'
  <1> USE DEF IInv, tables
  <1>1. StampInv' /\ MessagesInv' /\ ThreadInv' /\ RunsInv' /\ OrderInv'
    BY DEF StampInv, MessagesInv, ThreadInv, RunsInv, OrderInv, Question, Answer, Visible
  <1>2. MessagesKeepTenant' /\ HistoryIsWhole' /\ RecordsMatchTranscript'
    BY DEF MessagesKeepTenant, HistoryIsWhole, RecordsMatchTranscript, Logged, MessagesOf
  <1>3. QED
    BY <1>1, <1>2

\* Every step keeps it.
LEMMA NextIInv == IInv /\ [Next]_vars => IInv'
  <1> SUFFICES ASSUME IInv, [Next]_vars
               PROVE  IInv'
    OBVIOUS
  <1>1. CASE UNCHANGED vars
    BY <1>1, SameIInv DEF vars, tables, IInv, TypeOK
  <1>2. ASSUME NEW t \in Turns, Open(t)
        PROVE  IInv'
    BY <1>2, OpenIInv
  <1>3. ASSUME NEW t \in Turns, Stretch(t)
        PROVE  IInv'
    BY <1>3, StretchIInv
  <1>4. ASSUME NEW t \in Turns, Commit(t)
        PROVE  IInv'
    BY <1>4, CommitIInv
  <1>5. ASSUME NEW o \in Orgs, Rate(o)
        PROVE  IInv'
    BY <1>5, RateTypeOK, SameIInv DEF IInv, Rate
  <1>6. QED
    BY <1>1, <1>2, <1>3, <1>4, <1>5 DEF Next, Quiet, Stretch

\* Every reachable state satisfies the inductive invariant: what a message, a
\* conversation, a run and an event in the tables say of the turn they come from.
THEOREM InductiveInvariant == Spec => []IInv
  BY InitIInv, NextIInv, PTL DEF Spec

-----------------------------------------------------------------------------
(* What follows from it.                                                    *)

\* Every variable keeps its type: no message without a conversation is written.
THEOREM TypeCorrect == Spec => []TypeOK
  <1>1. IInv => TypeOK
    BY DEF IInv
  <1>2. QED
    BY <1>1, InductiveInvariant, PTL

\* The invariant makes the two messages of a turn inseparable.
LEMMA WholeTurns == IInv => TurnsAreWhole
  <1> SUFFICES ASSUME IInv, NEW t \in Turns, NEW m \in messages, m.turn = t
               PROVE  \E q, a \in messages :
                        /\ MessagesOf(t) = {q, a}
                        /\ q.role = "user" /\ a.role = "assistant"
                        /\ q.conv = a.conv /\ q.stamp < a.stamp
    BY DEF TurnsAreWhole, Logged, MessagesOf
  <1>1. Question(t) \in messages /\ Answer(t) \in messages /\ asked[t] < replied[t]
    BY DEF IInv, MessagesInv
  <1>2. MessagesOf(t) = {Question(t), Answer(t)}
    BY <1>1 DEF IInv, MessagesInv, MessagesOf, Question, Answer
  <1>3. QED
    BY <1>1, <1>2 DEF Question, Answer

\* However turns interleave and fail, a turn's two messages are in the history
\* together or not at all, the question before the answer.
THEOREM TurnsStayWhole == Spec => []TurnsAreWhole
  BY WholeTurns, InductiveInvariant, PTL

\* No conversation is left behind by a first turn that failed.
THEOREM ConversationsStart == Spec => []NoEmptyConversation
  <1>1. IInv => NoEmptyConversation
    <2> SUFFICES ASSUME IInv, NEW k \in conversations
                 PROVE  \E m \in Transcript(k.id) : m.turn = k.id
      BY DEF NoEmptyConversation
    <2>1. Question(k.id) \in messages /\ conv[k.id] = k.id
      BY DEF IInv, ThreadInv
    <2>2. QED
      BY <2>1 DEF Question, Transcript
  <1>2. QED
    BY <1>1, InductiveInvariant, PTL

\* Turns are written into conversations of their caller's organization only.
THEOREM TenantsStayApart == Spec => []MessagesKeepTenant
  <1>1. IInv => MessagesKeepTenant
    BY DEF IInv
  <1>2. QED
    BY <1>1, InductiveInvariant, PTL

\* A /chat turn never answers from half a turn of another request.
THEOREM HistoryStaysWhole == Spec => []HistoryIsWhole
  <1>1. IInv => HistoryIsWhole
    BY DEF IInv
  <1>2. QED
    BY <1>1, InductiveInvariant, PTL

\* The agent runs and the usage events agree with the history.
THEOREM RecordsAgree == Spec => []RecordsMatchTranscript
  <1>1. IInv => RecordsMatchTranscript
    BY DEF IInv
  <1>2. QED
    BY <1>1, InductiveInvariant, PTL

\* The invariant orders the messages of turns that follow one another.
LEMMA OrderedTranscript == IInv => TranscriptRespectsOrder
  <1> SUFFICES ASSUME IInv, NEW m \in messages, NEW n \in messages, m.turn \in earlier[n.turn]
               PROVE  m.stamp < n.stamp
    BY DEF TranscriptRespectsOrder
  <1>1. m.turn \in Turns /\ n.turn \in Turns
    BY DEF IInv, TypeOK, Message
  <1>2. /\ asked[m.turn] < replied[m.turn] /\ asked[n.turn] < replied[n.turn]
        /\ replied[m.turn] < asked[n.turn]
    BY <1>1 DEF IInv, MessagesInv, OrderInv
  <1>3. m.stamp \in {asked[m.turn], replied[m.turn]} /\ n.stamp \in {asked[n.turn], replied[n.turn]}
    <2>1. ASSUME NEW l \in messages
          PROVE  l.stamp \in {asked[l.turn], replied[l.turn]}
      <3>1. CASE l = Question(l.turn)
        BY <3>1 DEF Question
      <3>2. CASE l = Answer(l.turn)
        BY <3>2 DEF Answer
      <3>3. QED
        BY <3>1, <3>2 DEF IInv, MessagesInv
    <2>2. QED
      BY <2>1
  <1>4. \A u \in Turns : asked[u] \in Nat /\ replied[u] \in Nat
    BY DEF IInv, TypeOK
  <1>5. QED
    BY <1>1, <1>2, <1>3, <1>4

\* Ordered by created_at, a turn that was sent after another one of its
\* conversation was answered comes wholly after it.
THEOREM TranscriptStaysOrdered == Spec => []TranscriptRespectsOrder
  BY OrderedTranscript, InductiveInvariant, PTL

-----------------------------------------------------------------------------
(* What a follow-up remembers.                                              *)

\* A window on the n latest messages holds only messages later than the ones
\* it leaves out, and it leaves one out only when it holds n.
LEMMA WindowIsLatest ==
  ASSUME NEW S, IsFiniteSet(S), NEW b \in Nat, \A k \in S : k.stamp \in 0..b,
         NEW n \in Nat, NEW m \in S, m \notin Latest(S, n)
  PROVE  /\ \A h \in Latest(S, n) : h.stamp > m.stamp
         /\ Cardinality(Latest(S, n)) >= n
  <1> DEFINE Later(k) == {l \in S : l.stamp > k.stamp}
             W == Latest(S, n)
  <1>1. ASSUME NEW k \in S
        PROVE  /\ IsFiniteSet(Later(k)) /\ Cardinality(Later(k)) \in Nat
               /\ k \in W <=> Cardinality(Later(k)) < n
    <2>1. Later(k) \in SUBSET S
      OBVIOUS
    <2>2. IsFiniteSet(Later(k))
      BY <2>1, FS_Subset
    <2>3. Cardinality(Later(k)) \in Nat
      BY <2>2, FS_CardinalityType
    <2>4. QED
      BY <2>2, <2>3 DEF Latest
  <1>2. ASSUME NEW h \in W
        PROVE  h.stamp > m.stamp
    <2>1. h \in S /\ h.stamp \in Nat /\ m.stamp \in Nat
      BY DEF Latest
    <2> SUFFICES ASSUME h.stamp <= m.stamp
                 PROVE  FALSE
      BY <2>1
    <2>2. Later(m) \in SUBSET Later(h)
      BY <2>1
    <2>3. Cardinality(Later(m)) <= Cardinality(Later(h))
      BY <2>1, <2>2, <1>1, FS_Subset
    <2>4. Cardinality(Later(h)) < n /\ ~ (Cardinality(Later(m)) < n)
      BY <2>1, <1>1
    <2>5. Cardinality(Later(h)) \in Nat /\ Cardinality(Later(m)) \in Nat
      BY <2>1, <1>1
    <2> HIDE DEF Later
    <2>6. QED
      BY <2>3, <2>4, <2>5
  <1>3. Cardinality(W) >= n
    <2> DEFINE Age(k) == b - k.stamp
               A == {Age(k) : k \in S \ W}
    <2>1. A \in SUBSET Nat /\ A # {}
      OBVIOUS
    <2>2. PICK i \in A : \A j \in A : ~ (j < i)
      BY <2>1, LeastNatural
    <2>3. PICK x \in S \ W : i = Age(x)
      OBVIOUS
    <2>4. Later(x) \subseteq W
      <3> SUFFICES ASSUME NEW k \in S, k.stamp > x.stamp, k \notin W
                   PROVE  FALSE
        OBVIOUS
      <3>1. Age(k) \in A /\ Age(k) < Age(x)
        OBVIOUS
      <3>2. QED
        BY <3>1, <2>2, <2>3
    <2>5. IsFiniteSet(W) /\ Cardinality(W) \in Nat
      <3>1. W \in SUBSET S
        BY DEF Latest
      <3>2. IsFiniteSet(W)
        BY <3>1, FS_Subset
      <3>3. QED
        BY <3>2, FS_CardinalityType
    <2>6. Cardinality(Later(x)) <= Cardinality(W)
      BY <2>4, <2>5, FS_Subset
    <2>7. ~ (Cardinality(Later(x)) < n) /\ Cardinality(Later(x)) \in Nat
      BY <1>1
    <2>8. QED
      BY <2>5, <2>6, <2>7
  <1>4. QED
    BY <1>2, <1>3

\* A turn that was answered is in the tables, if it is written at all.
WrittenInv ==
  /\ IsFiniteSet(messages)
  /\ \A u \in Turns : pc[u] = "done" /\ mode[u] # "unlogged" =>
       Question(u) \in messages /\ Answer(u) \in messages

MemoryInv == WrittenInv /\ FollowUpRemembers

\* The memory a turn reads has the turns answered before it was sent.
LEMMA ReadRemembers ==
  ASSUME IInv, WrittenInv, NEW t \in Turns, NEW u \in earlier[t],
         mode[u] # "unlogged", conv[u] = conv[t], NEW m \in {Question(u), Answer(u)}
  PROVE  \/ m \in Recalled(t)
         \/ /\ t \in AgentTurns /\ Cardinality(Recalled(t)) >= HistoryLimit
            /\ \A h \in Recalled(t) : h.stamp > m.stamp
  <1>1. u \in Turns /\ pc[u] = "done"
    BY DEF IInv, TypeOK, OrderInv
  <1>2. m \in messages /\ m.conv = conv[t]
    <2>1. Question(u) \in messages /\ Answer(u) \in messages
      BY <1>1 DEF WrittenInv
    <2>2. Question(u).conv = conv[u] /\ Answer(u).conv = conv[u]
      BY DEF Question, Answer
    <2>3. QED
      BY <2>1, <2>2
  <1> DEFINE S == Transcript(conv[t])
  <1>3. m \in S
    BY <1>2 DEF Transcript
  <1>4. CASE t \in ChatTurns
    BY <1>3, <1>4 DEF Recalled
  <1>5. CASE t \in AgentTurns
    <2>1. Recalled(t) = Latest(S, HistoryLimit)
      BY <1>5, TurnsAssumption DEF Recalled
    <2>2. IsFiniteSet(S)
      BY FS_Subset DEF WrittenInv, Transcript
    <2>3. clock \in Nat /\ HistoryLimit \in Nat
      BY LimitsAssumption DEF IInv, TypeOK
    <2>4. \A k \in S : k.stamp \in 0..clock
      <3> SUFFICES ASSUME NEW k \in messages
                   PROVE  k.stamp \in 0..clock
        BY DEF Transcript
      <3>1. k.turn \in Turns
        BY DEF IInv, TypeOK, Message
      <3>2. k.stamp = asked[k.turn] \/ k.stamp = replied[k.turn]
        <4>1. CASE k = Question(k.turn)
          BY <4>1 DEF Question
        <4>2. CASE k = Answer(k.turn)
          BY <4>2 DEF Answer
        <4>3. QED
          BY <4>1, <4>2 DEF IInv, MessagesInv
      <3>3. QED
        BY <3>1, <3>2, <2>3 DEF IInv, TypeOK, StampInv
    <2>5. CASE m \notin Latest(S, HistoryLimit)
      BY <1>3, <1>5, <2>1, <2>2, <2>3, <2>4, <2>5, WindowIsLatest
    <2>6. QED
      BY <2>1, <2>5
  <1>6. QED
    BY <1>4, <1>5 DEF Turns

\* The turns that have read their memory and did not fail.
Informed(t) == pc[t] \in {"read", "asked", "answered", "done"} /\ mode[t] # "blocked"

\* A turn keeps the memory it read, and its turns, in a step in which it, they
\* and the two messages of each stay as they are.
LEMMA MemoryKept ==
  ASSUME FollowUpRemembers, NEW v \in Turns, NEW u \in earlier[v], Informed(v),
         mode[u] # "unlogged", conv[u] = conv[v], NEW m \in {Question(u), Answer(u)},
         history'[v] = history[v]
  PROVE  \/ m \in history'[v]
         \/ /\ v \in AgentTurns /\ Cardinality(history'[v]) >= HistoryLimit
            /\ \A h \in history'[v] : h.stamp > m.stamp
  BY DEF FollowUpRemembers, Informed

\* Opening a turn takes no memory away.
LEMMA OpenMemory ==
  ASSUME IInv, MemoryInv, NEW t \in Turns, Open(t)
  PROVE  MemoryInv'
  <1>1. /\ UNCHANGED <<history, messages>> /\ pc'[t] = "opened" /\ pc[t] = "idle"
        /\ \A v \in Turns : v # t => earlier'[v] = earlier[v]
    BY DEF Open, IInv, TypeOK
  <1>2. \A u \in Turns : u # t =>
          /\ pc'[u] = pc[u] /\ mode'[u] = mode[u] /\ conv'[u] = conv[u]
          /\ Question(u)' = Question(u) /\ Answer(u)' = Answer(u)
    BY DEF Open, Start, Resume, Attach, IInv, TypeOK, Question, Answer
  <1>3. WrittenInv'
    BY <1>1, <1>2 DEF MemoryInv, WrittenInv
  <1>4. FollowUpRemembers'
    <2> SUFFICES ASSUME NEW v \in Turns, NEW u \in earlier'[v], Informed(v)',
                        mode'[u] # "unlogged", conv'[u] = conv'[v],
                        NEW m \in {Question(u)', Answer(u)'}
                 PROVE  \/ m \in history'[v]
                        \/ /\ v \in AgentTurns /\ Cardinality(history'[v]) >= HistoryLimit
                           /\ \A h \in history'[v] : h.stamp > m.stamp
      BY DEF FollowUpRemembers, Informed
    <2>1. v # t
      BY <1>1 DEF Informed
    <2>2. u \in earlier[v]
      BY <1>1, <2>1
    <2>3. u \in Turns /\ u # t
      BY <1>1, <2>2 DEF IInv, TypeOK, OrderInv
    <2>4. Informed(v) /\ mode[u] # "unlogged" /\ conv[u] = conv[v]
      BY <1>2, <2>1, <2>3 DEF Informed
    <2>5. m \in {Question(u), Answer(u)}
      BY <1>2, <2>3
    <2>6. QED
      BY <1>1, <2>2, <2>4, <2>5, MemoryKept DEF MemoryInv
  <1>5. QED
    BY <1>3, <1>4 DEF MemoryInv

\* Reading the memory brings in what was answered before; the other steps
\* before a commit leave it.
LEMMA StretchMemory ==
  ASSUME IInv, MemoryInv, NEW t \in Turns, Stretch(t)
  PROVE  MemoryInv'
  <1>1. /\ Untouched(t) /\ UNCHANGED <<mode, conv, earlier, messages>>
        /\ pc'[t] \in {"read", "asked", "answered", "failed"}
        /\ \A u \in Turns : u # t => pc'[u] = pc[u]
    BY StretchFrame DEF Untouched, tables
  <1>2. \A u \in Turns : u # t => Question(u)' = Question(u) /\ Answer(u)' = Answer(u)
    BY <1>1 DEF Untouched, Question, Answer
  <1>3. WrittenInv'
    BY <1>1, <1>2 DEF MemoryInv, WrittenInv
  <1>4. FollowUpRemembers'
    <2> SUFFICES ASSUME NEW v \in Turns, NEW u \in earlier[v], Informed(v)',
                        mode[u] # "unlogged", conv[u] = conv[v],
                        NEW m \in {Question(u)', Answer(u)'}
                 PROVE  \/ m \in history'[v]
                        \/ /\ v \in AgentTurns /\ Cardinality(history'[v]) >= HistoryLimit
                           /\ \A h \in history'[v] : h.stamp > m.stamp
      BY <1>1 DEF FollowUpRemembers, Informed
    <2>1. u \in Turns /\ u # t
      BY <1>1 DEF IInv, TypeOK, OrderInv, Untouched, Over
    <2>2. m \in {Question(u), Answer(u)}
      BY <1>2, <2>1
    <2>3. CASE v = t /\ ReadHistory(t)
      <3>1. history'[v] = Recalled(t)
        BY <2>3 DEF ReadHistory, IInv, TypeOK
      <3>2. QED
        BY <2>2, <2>3, <3>1, ReadRemembers DEF MemoryInv
    <2>4. CASE v # t \/ ~ReadHistory(t)
      <3>1. history'[v] = history[v]
        BY <2>4 DEF Stretch, Refuse, ReadHistory, FlushQuestion, FlushAnswer, Fail, IInv, TypeOK
      <3>2. Informed(v)
        <4>1. CASE v # t
          BY <1>1, <4>1 DEF Informed
        <4>2. CASE v = t /\ (FlushQuestion(t) \/ FlushAnswer(t))
          BY <1>1, <4>2 DEF Informed, FlushQuestion, FlushAnswer
        <4>3. CASE v = t /\ (Refuse(t) \/ Fail(t))
          BY <4>3 DEF Informed, Refuse, Fail, IInv, TypeOK
        <4>4. QED
          BY <2>4, <4>1, <4>2, <4>3 DEF Stretch
      <3>3. QED
        BY <2>2, <3>1, <3>2, MemoryKept DEF MemoryInv
    <2>5. QED
      BY <2>3, <2>4
  <1>5. QED
    BY <1>3, <1>4 DEF MemoryInv

\* A commit writes the turn before it is answered.
LEMMA CommitMemory ==
  ASSUME IInv, MemoryInv, NEW t \in Turns, Commit(t)
  PROVE  MemoryInv'
  <1>1. IsFiniteSet(messages')
    <2>1. messages' = messages \/ messages' = (messages \cup {Question(t)}) \cup {Answer(t)}
      BY DEF Commit, NewMessages
    <2>2. QED
      BY <2>1, FS_AddElement DEF MemoryInv, WrittenInv
  <1>2. WrittenInv'
    BY <1>1, CommitFrame, CommitMessages DEF MemoryInv, WrittenInv
  <1>3. FollowUpRemembers'
    <2> SUFFICES ASSUME NEW v \in Turns, NEW u \in earlier[v], Informed(v)',
                        mode[u] # "unlogged", conv[u] = conv[v],
                        NEW m \in {Question(u)', Answer(u)'}
                 PROVE  \/ m \in history'[v]
                        \/ /\ v \in AgentTurns /\ Cardinality(history'[v]) >= HistoryLimit
                           /\ \A h \in history'[v] : h.stamp > m.stamp
      BY CommitFrame DEF FollowUpRemembers, Informed
    <2>1. u \in Turns /\ m \in {Question(u), Answer(u)} /\ history' = history
      BY CommitFrame DEF IInv, TypeOK
    <2>2. Informed(v)
      BY CommitFrame DEF Commit, Informed
    <2>3. QED
      BY <2>1, <2>2, MemoryKept DEF MemoryInv
  <1>4. QED
    BY <1>2, <1>3 DEF MemoryInv

\* Feedback and idling change nothing of it.
LEMMA SameMemory ==
  ASSUME MemoryInv,
         UNCHANGED <<caller, pc, mode, conv, asked, replied, history, tables, clock, earlier>>
  PROVE  MemoryInv'
  BY DEF MemoryInv, WrittenInv, FollowUpRemembers, Question, Answer, tables

\* A turn answers from every turn of its conversation that was answered before
\* it was sent; an agent may miss one only for HistoryLimit newer messages.
THEOREM FollowUpsRemember == Spec => []FollowUpRemembers
  <1>1. Init => MemoryInv
    BY FS_EmptySet DEF Init, MemoryInv, WrittenInv, FollowUpRemembers
  <1>2. IInv /\ MemoryInv /\ [Next]_vars => MemoryInv'
    <2> SUFFICES ASSUME IInv, MemoryInv, [Next]_vars
                 PROVE  MemoryInv'
      OBVIOUS
    <2>1. CASE UNCHANGED vars
      BY <2>1, SameMemory DEF vars, tables
    <2>2. ASSUME NEW t \in Turns, Open(t)
          PROVE  MemoryInv'
      BY <2>2, OpenMemory
    <2>3. ASSUME NEW t \in Turns, Stretch(t)
          PROVE  MemoryInv'
      BY <2>3, StretchMemory
    <2>4. ASSUME NEW t \in Turns, Commit(t)
          PROVE  MemoryInv'
      BY <2>4, CommitMemory
    <2>5. ASSUME NEW o \in Orgs, Rate(o)
          PROVE  MemoryInv'
      BY <2>5, SameMemory DEF Rate
    <2>6. QED
      BY <2>1, <2>2, <2>3, <2>4, <2>5 DEF Next, Quiet, Stretch
  <1>3. MemoryInv => FollowUpRemembers
    BY DEF MemoryInv
  <1>4. QED
    BY <1>1, <1>2, <1>3, InductiveInvariant, PTL DEF Spec

-----------------------------------------------------------------------------
(* The tables implement TurnLog.                                            *)

\* Steps that leave the tables alone are stuttering steps of the log.
LEMMA SameLog ==
  ASSUME UNCHANGED tables
  PROVE  UNCHANGED Log!vars
  BY DEF tables, Log!vars, threadsBar, questionsBar, answersBar

\* A turn before its commit is not in the log.
LEMMA FreshTurn ==
  ASSUME IInv, NEW t \in Turns, pc[t] \notin Over
  PROVE  Log!Fresh(t) /\ t \notin threadsBar
  BY NothingWritten DEF Log!Fresh, questionsBar, answersBar, threadsBar

\* The commit of a turn adds its question and its answer to the log at once.
LEMMA LoggedTurn ==
  ASSUME IInv, NEW t \in Turns, Commit(t), mode[t] # "unlogged"
  PROVE  /\ questionsBar' = questionsBar \cup {<<t, conv[t]>>}
         /\ answersBar' = answersBar \cup {<<t, conv[t]>>}
  <1>1. messages' = messages \cup {Question(t), Answer(t)}
    BY DEF Commit, NewMessages
  <1>2. /\ Question(t).role = "user" /\ Answer(t).role = "assistant"
        /\ Question(t).turn = t /\ Question(t).conv = conv[t]
        /\ Answer(t).turn = t /\ Answer(t).conv = conv[t]
    BY DEF Question, Answer
  <1>3. questionsBar' = questionsBar \cup {<<t, conv[t]>>}
    BY <1>1, <1>2 DEF questionsBar
  <1>4. answersBar' = answersBar \cup {<<t, conv[t]>>}
    BY <1>1, <1>2 DEF answersBar
  <1>5. QED
    BY <1>3, <1>4

\* A commit begins or continues a conversation of the log, or is not seen.
LEMMA CommitView ==
  ASSUME IInv, NEW t \in Turns, Commit(t)
  PROVE  Log!Next \/ UNCHANGED Log!vars
  <1>1. Log!Fresh(t) /\ t \notin threadsBar
    BY CommitFrame, FreshTurn
  <1>2. CASE mode[t] = "unlogged"
    <2>1. conversations' = conversations /\ messages' = messages
      BY <1>2, CommitThread DEF Commit, NewConversation, NewMessages
    <2>2. QED
      BY <2>1 DEF Log!vars, threadsBar, questionsBar, answersBar
  <1>3. CASE mode[t] # "unlogged" /\ conv[t] = t
    <2>1. threadsBar' = threadsBar \cup {t}
      <3>1. conversations' = conversations \cup {[id |-> t, org |-> caller[t]]}
        BY <1>3 DEF Commit, NewConversation
      <3>2. [id |-> t, org |-> caller[t]].id = t
        OBVIOUS
      <3>3. \A c : c \in threadsBar' <=> c \in threadsBar \/ c = t
        BY <3>1, <3>2 DEF threadsBar
      <3>4. QED
        BY <3>3, Zenon
    <2>2. Log!Begin(t)
      BY <1>1, <1>3, <2>1, LoggedTurn DEF Log!Begin
    <2>3. QED
      BY <2>2 DEF Log!Next
  <1>4. CASE mode[t] # "unlogged" /\ conv[t] # t
    <2>1. conv[t] \in threadsBar
      BY <1>4, CommitThread DEF Visible, threadsBar
    <2>2. threadsBar' = threadsBar
      BY <1>4 DEF Commit, NewConversation, threadsBar
    <2>3. Log!Continue(t, conv[t])
      BY <1>1, <1>4, <2>2, LoggedTurn DEF Log!Continue
    <2>4. QED
      BY <2>1, <2>3 DEF Log!Next
  <1>5. QED
    BY <1>2, <1>3, <1>4

\* Every step of a turn is a step of the log or is not seen.
LEMMA NextView == IInv /\ [Next]_vars => [Log!Next]_(Log!vars)
  <1> SUFFICES ASSUME IInv, [Next]_vars
               PROVE  Log!Next \/ UNCHANGED Log!vars
    OBVIOUS
  <1>1. ASSUME NEW t \in Turns, Commit(t)
        PROVE  Log!Next \/ UNCHANGED Log!vars
    BY <1>1, CommitView
  <1>2. CASE UNCHANGED tables
    BY <1>2, SameLog
  <1>3. ASSUME NEW t \in Turns, Open(t) \/ Stretch(t)
        PROVE  UNCHANGED tables
    BY <1>3 DEF Open, Start, Resume, Attach, Stretch, Refuse, ReadHistory, FlushQuestion,
                FlushAnswer, Fail, tables
  <1>4. ASSUME NEW o \in Orgs, Rate(o)
        PROVE  UNCHANGED tables
    BY <1>4 DEF Rate
  <1>5. CASE UNCHANGED vars
    BY <1>5, <1>2 DEF vars, tables
  <1>6. CASE Next
    <2>1. (\E t \in Turns : Commit(t)) \/ UNCHANGED tables
      BY <1>6, <1>3, <1>4 DEF Next, Quiet, Stretch, vars, tables
    <2>2. QED
      BY <2>1, <1>1, <1>2
  <1>7. QED
    BY <1>5, <1>6

\* Seen through the tables turns implement TurnLog: conversations begin with
\* their first turn, and each turn is recorded once, question and answer in one.
THEOREM Refinement == Spec => ImplementsTurnLog
  <1>1. Init => Log!Init
    BY DEF Init, Log!Init, threadsBar, questionsBar, answersBar
  <1>2. QED
    BY <1>1, NextView, InductiveInvariant, PTL DEF Spec, ImplementsTurnLog, Log!Spec

-----------------------------------------------------------------------------
(* The dashboard: a summary is counted while turns go on.                   *)

Finite ==
  IsFiniteSet(conversations) /\ IsFiniteSet(messages) /\ IsFiniteSet(runs) /\ IsFiniteSet(events)

\* Rows are only ever added, a few at a time, and nobody's caller changes.
LEMMA TablesGrow ==
  ASSUME Finite, [Next]_vars
  PROVE  /\ Finite' /\ caller' = caller
         /\ conversations \subseteq conversations' /\ messages \subseteq messages'
         /\ runs \subseteq runs' /\ events \subseteq events'
  <1>1. CASE UNCHANGED <<caller, conversations, messages, runs, events>>
    BY <1>1 DEF Finite
  <1>2. ASSUME NEW t \in Turns, Commit(t)
        PROVE  /\ Finite' /\ caller' = caller
               /\ conversations \subseteq conversations' /\ messages \subseteq messages'
               /\ runs \subseteq runs' /\ events \subseteq events'
    <2>1. /\ conversations' = conversations \cup NewConversation(t) /\ runs' = runs \cup NewRun(t)
          /\ messages' = messages \cup NewMessages(t) /\ events' = events \cup NewEvent(t)
          /\ caller' = caller
      BY <1>2 DEF Commit
    <2>2. \A x : IsFiniteSet({x})
      BY FS_Singleton
    <2>3. IsFiniteSet({})
      BY FS_EmptySet
    <2>4. IsFiniteSet(NewConversation(t)) /\ IsFiniteSet(NewRun(t)) /\ IsFiniteSet(NewEvent(t))
      BY <2>2, <2>3 DEF NewConversation, NewRun, NewEvent
    <2>5. IsFiniteSet(NewMessages(t))
      <3>1. IsFiniteSet({Question(t)} \cup {Answer(t)})
        BY <2>2, FS_Union
      <3>2. {Question(t)} \cup {Answer(t)} = {Question(t), Answer(t)}
        OBVIOUS
      <3>3. QED
        BY <2>3, <3>1, <3>2 DEF NewMessages
    <2>6. /\ IsFiniteSet(conversations \cup NewConversation(t)) /\ IsFiniteSet(runs \cup NewRun(t))
          /\ IsFiniteSet(messages \cup NewMessages(t)) /\ IsFiniteSet(events \cup NewEvent(t))
      BY <2>4, <2>5, FS_Union DEF Finite
    <2>7. QED
      BY <2>1, <2>6 DEF Finite
  <1>3. ASSUME NEW t \in Turns, Open(t)
        PROVE  UNCHANGED <<caller, conversations, messages, runs, events>>
    BY <1>3 DEF Open, Start, Resume, Attach
  <1>4. ASSUME NEW t \in Turns, Stretch(t)
        PROVE  UNCHANGED <<caller, conversations, messages, runs, events>>
    BY <1>4 DEF Stretch, Refuse, ReadHistory, FlushQuestion, FlushAnswer, Fail, tables
  <1>5. ASSUME NEW o \in Orgs, Rate(o)
        PROVE  UNCHANGED <<caller, conversations, messages, runs, events>>
    BY <1>5 DEF Rate, tables
  <1>6. CASE UNCHANGED vars
    BY <1>1, <1>6 DEF vars
  <1>7. QED
    BY <1>1, <1>2, <1>3, <1>4, <1>5, <1>6 DEF Next, Stretch, Quiet

\* What a query of the summary counts is a finite set.
LEMMA CountedFinite ==
  ASSUME Finite, NEW s
  PROVE  /\ IsFiniteSet(OwnConversations(s)) /\ IsFiniteSet(OwnMessages(s)) /\ IsFiniteSet(OwnQuestions(s))
         /\ IsFiniteSet(OwnRuns(s)) /\ IsFiniteSet(OwnEvents(s))
         /\ \A i \in Queries : IsFiniteSet(Counted(s)[i])
  <1>1. /\ OwnConversations(s) \in SUBSET conversations /\ OwnMessages(s) \in SUBSET messages
        /\ OwnQuestions(s) \in SUBSET messages /\ OwnRuns(s) \in SUBSET runs /\ OwnEvents(s) \in SUBSET events
    BY DEF OwnConversations, OwnMessages, OwnQuestions, OwnRuns, OwnEvents
  <1>2. /\ IsFiniteSet(OwnConversations(s)) /\ IsFiniteSet(OwnMessages(s)) /\ IsFiniteSet(OwnQuestions(s))
        /\ IsFiniteSet(OwnRuns(s)) /\ IsFiniteSet(OwnEvents(s))
    BY <1>1, FS_Subset DEF Finite
  <1>3. \A i \in Queries :
          Counted(s)[i] \in {OwnConversations(s), OwnMessages(s), OwnQuestions(s), OwnRuns(s), OwnEvents(s)}
    BY DEF Counted, Queries
  <1>4. QED
    BY <1>2, <1>3

\* Every conversation has the question that began it.
LEMMA ConversationsHaveQuestions ==
  ASSUME IInv, Finite, NEW s
  PROVE  Cardinality(OwnConversations(s)) <= Cardinality(OwnQuestions(s))
  <1> DEFINE K == OwnConversations(s)  Q == OwnQuestions(s)  f == [k \in K |-> Question(k.id)]
  <1>1. \A k \in K : /\ k \in conversations /\ <<k.org, sentTo[k.id]>> = s
    BY DEF OwnConversations
  <1>2. \A k \in K : Question(k.id) \in messages /\ Question(k.id).conv = k.id
                     /\ Question(k.id).role = "user" /\ Question(k.id).turn = k.id
    BY <1>1 DEF IInv, ThreadInv, Question
  <1>3. \A k \in K : Question(k.id) \in Q
    BY <1>2 DEF OwnQuestions, OwnMessages
  <1>4. \A k, l \in K : k.id = l.id => k = l
    <2> SUFFICES ASSUME NEW k \in K, NEW l \in K, k.id = l.id
                 PROVE  k = l
      OBVIOUS
    <2>1. k \in Conversation /\ l \in Conversation
      BY <1>1 DEF IInv, TypeOK
    <2>2. k.org = l.org
      BY <1>1
    <2>3. QED
      BY <2>1, <2>2 DEF Conversation
  <1> HIDE DEF K, Q
  <1>5. f \in [K -> Q]
    BY <1>3
  <1>6. \A k, l \in K : f[k] = f[l] => k = l
    BY <1>2, <1>4
  <1>7. f \in Injection(K, Q)
    BY <1>5, <1>6 DEF Injection, IsInjective
  <1>8. IsFiniteSet(Q)
    BY CountedFinite DEF Q
  <1>9. QED
    BY <1>7, <1>8, FS_Injection DEF K, Q

\* Every question has its answer, and every answer its question.
LEMMA QuestionsHaveAnswers ==
  ASSUME IInv, Finite, NEW s
  PROVE  Cardinality(OwnMessages(s)) = 2 * Cardinality(OwnQuestions(s))
  <1> DEFINE M == OwnMessages(s)  Q == OwnQuestions(s)  A == M \ Q  f == [q \in Q |-> Answer(q.turn)]
  <1>1. \A m \in M : /\ m \in messages
                     /\ \A n \in messages : n.conv = m.conv => n \in M
    BY DEF OwnMessages
  <1>2. Q = {m \in M : m.role = "user"}
    BY DEF OwnQuestions
  <1>3. \A m \in M : /\ m = Question(m.turn) \/ m = Answer(m.turn)
                     /\ Question(m.turn) \in messages /\ Answer(m.turn) \in messages
    BY <1>1 DEF IInv, MessagesInv
  <1>4. \A t : /\ Question(t).turn = t /\ Question(t).role = "user"
               /\ Answer(t).turn = t /\ Answer(t).role = "assistant" /\ Answer(t).conv = Question(t).conv
    BY DEF Question, Answer
  <1> HIDE DEF M, Q
  <1>5. \A q \in Q : q \in M /\ q = Question(q.turn) /\ Answer(q.turn) \in A
    <2> SUFFICES ASSUME NEW q \in Q
                 PROVE  q \in M /\ q = Question(q.turn) /\ Answer(q.turn) \in A
      OBVIOUS
    <2>1. q \in M /\ q.role = "user"
      BY <1>2
    <2>2. q = Question(q.turn)
      BY <2>1, <1>3, <1>4
    <2>3. Answer(q.turn).conv = q.conv
      BY <2>2, <1>4
    <2>4. Answer(q.turn) \in M
      BY <2>1, <2>3, <1>1, <1>3
    <2>5. Answer(q.turn).role # "user"
      BY <1>4
    <2>6. Answer(q.turn) \notin Q
      BY <2>5, <1>2
    <2>7. QED
      BY <2>1, <2>2, <2>4, <2>6
  <1>6. \A a \in A : \E q \in Q : a = Answer(q.turn)
    <2> SUFFICES ASSUME NEW a \in A
                 PROVE  \E q \in Q : a = Answer(q.turn)
      OBVIOUS
    <2>1. a \in M /\ a.role # "user"
      BY <1>2
    <2>2. a = Answer(a.turn)
      BY <2>1, <1>3, <1>4
    <2>3. Question(a.turn) \in messages /\ Question(a.turn).conv = a.conv
      BY <2>1, <2>2, <1>3, <1>4
    <2>4. Question(a.turn) \in Q
      BY <2>1, <2>3, <1>1, <1>2, <1>4
    <2>5. QED
      BY <2>2, <2>4, <1>4
  <1> HIDE DEF A
  <1>7. f \in [Q -> A]
    BY <1>5
  <1>8. \A p, q \in Q : f[p] = f[q] => p = q
    BY <1>4, <1>5
  <1>9. \A a \in A : \E q \in Q : f[q] = a
    BY <1>6
  <1>10. f \in Injection(Q, A) /\ f \in Surjection(Q, A)
    <2>1. f \in Injection(Q, A)
      BY <1>7, <1>8 DEF Injection, IsInjective
    <2>2. f \in Surjection(Q, A)
      BY <1>7, <1>9 DEF Surjection
    <2>3. QED
      BY <2>1, <2>2
  <1>11. IsFiniteSet(Q)
    BY CountedFinite DEF Q
  <1>12. IsFiniteSet(A) /\ Cardinality(A) = Cardinality(Q)
    BY <1>10, <1>11, FS_Surjection
  <1>13. M = Q \cup A /\ Q \cap A = {}
    BY <1>5 DEF A
  <1>14. Cardinality(M) = Cardinality(Q) + Cardinality(A) - Cardinality({})
    BY <1>11, <1>12, <1>13, FS_Union
  <1>15. Cardinality({}) = 0 /\ Cardinality(Q) \in Nat
    BY <1>11, FS_EmptySet, FS_CardinalityType
  <1>16. QED
    BY <1>12, <1>14, <1>15 DEF M, Q

\* What the figures of one moment say of each other
LEMMA FiguresAgree ==
  ASSUME IInv, Finite, NEW s
  PROVE  /\ \A i \in Queries : Figure(s, i) \in Nat
         /\ Figure(s, 1) <= Figure(s, 3) /\ Figure(s, 2) = 2 * Figure(s, 3)
         /\ Figure(s, 5) = Figure(s, 4) /\ Figure(s, 7) = Figure(s, 3)
  <1>1. \A i \in Queries : Figure(s, i) \in Nat
    BY CountedFinite, FS_CardinalityType DEF Figure
  <1>2. /\ Figure(s, 1) = Cardinality(OwnConversations(s)) /\ Figure(s, 2) = Cardinality(OwnMessages(s))
        /\ Figure(s, 3) = Cardinality(OwnQuestions(s)) /\ Figure(s, 7) = Figure(s, 3)
        /\ Figure(s, 5) = Figure(s, 4)
    BY DEF Figure, Counted
  <1>3. QED
    BY <1>1, <1>2, ConversationsHaveQuestions, QuestionsHaveAnswers

\* No figure ever decreases.
LEMMA FiguresGrow ==
  ASSUME Finite, [Next]_vars, UNCHANGED <<sentTo, deep>>
  PROVE  \A s \in Scope, i \in Queries : Figure(s, i)' \in Nat /\ Figure(s, i) <= Figure(s, i)'
  <1> SUFFICES ASSUME NEW s \in Scope, NEW i \in Queries
               PROVE  Figure(s, i)' \in Nat /\ Figure(s, i) <= Figure(s, i)'
    OBVIOUS
  <1>1. /\ Finite' /\ caller' = caller
        /\ conversations \subseteq conversations' /\ messages \subseteq messages'
        /\ runs \subseteq runs' /\ events \subseteq events'
    BY TablesGrow
  <1>2. OwnConversations(s) \subseteq OwnConversations(s)'
    BY <1>1 DEF OwnConversations
  <1>3. OwnMessages(s) \subseteq OwnMessages(s)'
    BY <1>1, <1>2 DEF OwnMessages
  <1>4. OwnQuestions(s) \subseteq OwnQuestions(s)'
    BY <1>3 DEF OwnQuestions
  <1>5. OwnRuns(s) \subseteq OwnRuns(s)' /\ OwnEvents(s) \subseteq OwnEvents(s)'
    BY <1>1 DEF OwnRuns, OwnEvents
  <1>6. Counted(s)[i] \subseteq Counted(s)[i]'
    BY <1>2, <1>3, <1>4, <1>5 DEF Counted, Queries
  <1>7. IsFiniteSet(Counted(s)[i]')
    <2>1. /\ OwnConversations(s)' \in SUBSET conversations' /\ OwnMessages(s)' \in SUBSET messages'
          /\ OwnQuestions(s)' \in SUBSET messages'
          /\ OwnRuns(s)' \in SUBSET runs' /\ OwnEvents(s)' \in SUBSET events'
      BY DEF OwnConversations, OwnMessages, OwnQuestions, OwnRuns, OwnEvents
    <2>2. /\ IsFiniteSet(conversations') /\ IsFiniteSet(messages')
          /\ IsFiniteSet(runs') /\ IsFiniteSet(events')
      BY <1>1 DEF Finite
    <2>3. /\ IsFiniteSet(OwnConversations(s)') /\ IsFiniteSet(OwnMessages(s)')
          /\ IsFiniteSet(OwnQuestions(s)') /\ IsFiniteSet(OwnRuns(s)') /\ IsFiniteSet(OwnEvents(s)')
      BY <2>1, <2>2, FS_Subset
    <2>4. Counted(s)[i]' \in {OwnConversations(s)', OwnMessages(s)', OwnQuestions(s)', OwnRuns(s)', OwnEvents(s)'}
      BY DEF Counted, Queries
    <2>5. QED
      BY <2>3, <2>4
  <1>8. Cardinality(Counted(s)[i]') \in Nat /\ Cardinality(Counted(s)[i]) <= Cardinality(Counted(s)[i]')
    BY <1>6, <1>7, FS_Subset, FS_CardinalityType
  <1>9. QED
    BY <1>8 DEF Figure

\* The figures counted so far are between what they were when the summary was
\* asked for and what they are now, and each is at least the ones before it
\* that it includes.
DashInv ==
  /\ IInv /\ Finite /\ DashTypeOK
  /\ \A i \in Queries : before[i] <= Figure(scope, i)
  /\ \A i \in 1..Len(figures) : before[i] <= figures[i] /\ figures[i] <= Figure(scope, i)
  /\ before[2] = 2 * before[3] /\ before[7] = before[3]
  /\ Len(figures) >= 3 => figures[1] <= figures[3] /\ figures[2] <= 2 * figures[3]
  /\ Len(figures) >= 5 => figures[4] <= figures[5]
  /\ Len(figures) >= 7 => figures[3] <= figures[7]

\* Before the first turn all figures are 0.
LEMMA DashStarts == DashInit => DashInv
  <1> SUFFICES ASSUME DashInit PROVE DashInv
    OBVIOUS
  <1>1. IInv
    BY InitIInv DEF DashInit
  <1>2. Finite
    BY FS_EmptySet DEF DashInit, Init, Finite
  <1>3. DashTypeOK /\ Len(figures) = 0
    <2>1. figures = <<>> /\ Len(<<>>) = 0 /\ <<>> \in Seq(Nat)
      BY DEF DashInit
    <2>2. figures \in Seq(Nat) /\ Len(figures) = 0
      BY <2>1
    <2>3. before \in [Queries -> Nat]
      BY DEF DashInit
    <2>4. sentTo \in [Turns -> Workspaces] /\ deep \subseteq ChatTurns /\ open \in BOOLEAN /\ scope \in Scope
      BY DEF DashInit
    <2>5. QED
      BY <2>2, <2>3, <2>4 DEF DashTypeOK
  <1>4. \A i \in Queries : before[i] = 0 /\ Figure(scope, i) \in Nat
    BY <1>1, <1>2, FiguresAgree DEF DashInit
  <1>5. 2 \in Queries /\ 3 \in Queries /\ 7 \in Queries
    BY DEF Queries
  <1>6. QED
    BY <1>1, <1>2, <1>3, <1>4, <1>5 DEF DashInv

\* A summary is asked for: nothing is counted yet.
LEMMA AskSummaryInv ==
  ASSUME DashInv, AskSummary
  PROVE  DashInv'
  <1>1. PICK s \in Scope : scope' = s /\ before' = [i \in Queries |-> Figure(s, i)]
    BY DEF AskSummary
  <1>2. open' = TRUE /\ figures' = <<>> /\ UNCHANGED <<vars, sentTo, deep>>
    BY DEF AskSummary
  <1>3. IInv' /\ Finite'
    <2>1. IInv /\ Finite
      BY DEF DashInv
    <2>2. IInv'
      BY <2>1, <1>2, NextIInv
    <2>3. QED
      BY <2>1, <2>2, <1>2, TablesGrow
  <1>4. /\ \A i \in Queries : Figure(s, i) \in Nat
        /\ Figure(s, 2) = 2 * Figure(s, 3) /\ Figure(s, 7) = Figure(s, 3)
    BY FiguresAgree DEF DashInv
  <1>5. \A i \in Queries : Figure(s, i)' = Figure(s, i)
    BY <1>2 DEF Figure, Counted, OwnConversations, OwnMessages, OwnQuestions, OwnRuns, OwnEvents, vars, Queries
  <1>6. \A i \in Queries : Figure(scope, i)' = Figure(s, i)
    BY <1>1, <1>2 DEF Figure, Counted, OwnConversations, OwnMessages, OwnQuestions, OwnRuns, OwnEvents, vars, Queries
  <1>7. 2 \in Queries /\ 3 \in Queries /\ 7 \in Queries
    BY DEF Queries
  <1>8. Len(figures') = 0
    BY <1>2
  <1>9. DashTypeOK'
    BY <1>1, <1>2, <1>4, <1>8 DEF DashTypeOK, DashInv
  <1>10. before'[2] = 2 * before'[3] /\ before'[7] = before'[3]
    BY <1>1, <1>4, <1>7
  <1>11. \A i \in Queries : before'[i] <= Figure(scope, i)'
    BY <1>1, <1>4, <1>6
  <1>12. QED
    BY <1>3, <1>8, <1>9, <1>10, <1>11 DEF DashInv

\* A query counts what is there now.
LEMMA QueryInv ==
  ASSUME DashInv, Query
  PROVE  DashInv'
  <1>0. PICK n : n = Len(figures) + 1
    OBVIOUS
  <1> DEFINE F == Figure(scope, n)
  <1>1. figures' = Append(figures, F) /\ open' = (n < 7) /\ UNCHANGED <<vars, sentTo, deep, scope, before>> /\ open
    BY <1>0 DEF Query
  <1>2. IInv /\ Finite /\ DashTypeOK /\ scope \in Scope
    BY DEF DashInv, DashTypeOK
  <1>3. /\ figures \in Seq(Nat) /\ Len(figures) \in Nat /\ n \in Nat /\ n >= 1 /\ n <= 7 /\ Len(figures) = n - 1
        /\ Queries = 1..7 /\ n \in Queries /\ before \in [Queries -> Nat]
        /\ \A i \in 1..n : i \in Queries /\ (i = n \/ i \in 1..Len(figures))
    <2>1. figures \in Seq(Nat) /\ Len(figures) < 7 /\ before \in [Queries -> Nat]
      BY <1>1, <1>2 DEF DashTypeOK
    <2>2. Len(figures) \in Nat
      BY <2>1
    <2>3. \A m \in Nat : m < 7 =>
            /\ m + 1 \in Nat /\ m + 1 >= 1 /\ m + 1 <= 7 /\ m = m + 1 - 1 /\ m + 1 \in 1..7
            /\ \A i \in 1..(m + 1) : i \in 1..7 /\ (i = m + 1 \/ i \in 1..m)
      OBVIOUS
    <2>4. /\ n \in Nat /\ n >= 1 /\ n <= 7 /\ Len(figures) = n - 1 /\ n \in 1..7
          /\ \A i \in 1..n : i \in 1..7 /\ (i = n \/ i \in 1..Len(figures))
      BY <1>0, <2>1, <2>2, <2>3
    <2>5. QED
      BY <2>1, <2>2, <2>4, Zenon DEF Queries
  <1>4. IInv' /\ Finite'
    BY <1>1, <1>2, NextIInv, TablesGrow
  <1>5. \A i \in Queries : Figure(scope, i)' = Figure(scope, i)
    BY <1>1 DEF Figure, Counted, OwnConversations, OwnMessages, OwnQuestions, OwnRuns, OwnEvents, vars, Queries
  <1> DEFINE G == [i \in Queries |-> Figure(scope, i)]
  <1>6. /\ \A i \in Queries : G[i] \in Nat
        /\ G[1] <= G[3] /\ G[2] = 2 * G[3] /\ G[5] = G[4] /\ G[7] = G[3]
    BY <1>2, <1>3, FiguresAgree
  <1>7. /\ \A i \in Queries : before[i] <= G[i]
        /\ \A i \in 1..Len(figures) : before[i] <= figures[i] /\ figures[i] <= G[i]
    <2>1. \A i \in 1..Len(figures) : i \in Queries
      BY <1>3
    <2>2. QED
      BY <2>1 DEF DashInv
  <1>8. F = G[n]
    BY <1>3
  <1> HIDE DEF F, G
  <1>9. /\ figures' \in Seq(Nat) /\ Len(figures') = n /\ figures'[n] = G[n]
        /\ \A i \in 1..Len(figures) : figures'[i] = figures[i]
    <2>1. figures' = Append(figures, G[n]) /\ G[n] \in Nat
      BY <1>1, <1>3, <1>6, <1>8
    <2>2. /\ figures' \in Seq(Nat) /\ Len(figures') = Len(figures) + 1
          /\ figures'[Len(figures) + 1] = G[n]
          /\ \A i \in 1..Len(figures) : figures'[i] = figures[i]
      BY <2>1, <1>3
    <2>3. QED
      BY <2>2, <1>0
  <1>10. DashTypeOK'
    <2>1. n <= 7 /\ (open' => n < 7) /\ open' \in BOOLEAN
      <3>1. n <= 7 /\ (n < 7) \in BOOLEAN /\ open' = (n < 7)
        BY <1>1, <1>3
      <3>2. QED
        BY <3>1, Zenon
    <2>2. sentTo' \in [Turns -> Workspaces] /\ deep' \subseteq ChatTurns /\ scope' \in Scope /\ before' \in [Queries -> Nat]
      BY <1>1, <1>2, <1>3 DEF DashTypeOK
    <2>3. QED
      BY <2>1, <2>2, <1>9 DEF DashTypeOK
  <1>11. \A i \in 1..n : before[i] <= figures'[i] /\ figures'[i] <= G[i]
    <2>1. before[n] <= G[n] /\ G[n] <= G[n]
      <3>1. n \in Queries
        BY <1>3
      <3>2. G[n] \in Nat /\ before[n] <= G[n]
        BY <3>1, <1>6, <1>7
      <3>3. QED
        BY <3>2
    <2>2. QED
      BY <2>1, <1>3, <1>7, <1>9
  <1>12. /\ n >= 3 => figures'[1] <= figures'[3] /\ figures'[2] <= 2 * figures'[3]
         /\ n >= 5 => figures'[4] <= figures'[5]
         /\ n >= 7 => figures'[3] <= figures'[7]
    <2>1. \A i \in 1..n : figures'[i] \in Nat
      BY <1>9
    <2> DEFINE g == figures'
    <2>0. /\ n - 1 >= 3 => g[1] <= g[3] /\ g[2] <= 2 * g[3]
          /\ n - 1 >= 5 => g[4] <= g[5]
      <3>1. /\ n - 1 >= 3 => figures[1] <= figures[3] /\ figures[2] <= 2 * figures[3]
            /\ n - 1 >= 5 => figures[4] <= figures[5]
        BY <1>3 DEF DashInv
      <3>2. /\ n - 1 >= 3 => {1, 2, 3} \subseteq 1..Len(figures)
            /\ n - 1 >= 5 => {4, 5} \subseteq 1..Len(figures)
        BY <1>3
      <3>3. /\ n - 1 >= 3 => g[1] = figures[1] /\ g[2] = figures[2] /\ g[3] = figures[3]
            /\ n - 1 >= 5 => g[4] = figures[4] /\ g[5] = figures[5]
        BY <3>2, <1>9
      <3>4. QED
        BY <3>1, <3>3
    <2> HIDE DEF g
    <2>2. CASE n = 3
      <3>1. g[1] <= G[1] /\ g[2] <= G[2] /\ g[3] = G[3] /\ {g[1], g[2], g[3]} \subseteq Nat
        BY <2>1, <2>2, <1>9, <1>11 DEF g
      <3>2. {G[1], G[2], G[3]} \subseteq Nat
        BY <1>3, <1>6
      <3>3. QED
        BY <2>2, <3>1, <3>2, <1>6 DEF g
    <2>3. CASE n = 5
      <3>1. g[4] <= G[4] /\ g[5] = G[5]
        BY <2>3, <1>9, <1>11 DEF g
      <3>2. QED
        BY <2>0, <2>3, <3>1, <1>6 DEF g
    <2>4. CASE n = 7
      <3>1. g[3] <= G[3] /\ g[7] = G[7]
        BY <2>4, <1>9, <1>11 DEF g
      <3>2. QED
        BY <2>0, <2>4, <3>1, <1>6 DEF g
    <2>5. CASE n \in {1, 2, 4, 6}
      BY <2>0, <2>5 DEF g
    <2>6. QED
      BY <1>3, <2>2, <2>3, <2>4, <2>5
  <1>13. \A i \in Queries : G[i] = Figure(scope, i)'
    BY <1>5 DEF G
  <1>14. before' = before /\ before[2] = 2 * before[3] /\ before[7] = before[3]
    BY <1>1 DEF DashInv
  <1>15. 1..Len(figures') \subseteq Queries
    BY <1>3, <1>9
  <1>16. /\ \A i \in Queries : before'[i] <= Figure(scope, i)'
         /\ \A i \in 1..Len(figures') : before'[i] <= figures'[i] /\ figures'[i] <= Figure(scope, i)'
    BY <1>7, <1>9, <1>11, <1>13, <1>14, <1>15
  <1>17. QED
    BY <1>4, <1>9, <1>10, <1>12, <1>14, <1>16 DEF DashInv

\* A turn adds to what is there, not to what is counted.
LEMMA TurnInv ==
  ASSUME DashInv, [Next]_vars, UNCHANGED dashVars
  PROVE  DashInv'
  <1>1. UNCHANGED <<sentTo, deep>> /\ open' = open /\ scope' = scope /\ figures' = figures /\ before' = before
    BY DEF dashVars
  <1>2. IInv /\ Finite /\ DashTypeOK
    BY DEF DashInv
  <1>3. IInv' /\ Finite'
    BY <1>2, NextIInv, TablesGrow
  <1>4. DashTypeOK'
    BY <1>1, <1>2 DEF DashTypeOK
  <1>5. PICK s \in Scope : s = scope
    BY <1>2 DEF DashTypeOK
  <1>6. \A i \in Queries : Figure(s, i) <= Figure(s, i)'
    BY <1>1, <1>2, FiguresGrow
  <1>7. \A i \in Queries : Figure(s, i) = Figure(scope, i) /\ Figure(s, i)' = Figure(scope, i)'
    BY <1>1, <1>5 DEF Figure, Counted, OwnConversations, OwnMessages, OwnQuestions, OwnRuns, OwnEvents
  <1>8. \A i \in Queries : Figure(scope, i) \in Nat
    BY <1>2, FiguresAgree
  <1>9. \A i \in Queries : Figure(scope, i)' \in Nat
    BY <1>1, <1>2, <1>7, FiguresGrow
  <1>10. before \in [Queries -> Nat] /\ figures \in Seq(Nat) /\ 1..Len(figures) \subseteq Queries
    <2>1. before \in [Queries -> Nat] /\ figures \in Seq(Nat) /\ Len(figures) <= 7
      BY <1>2 DEF DashTypeOK
    <2>2. Len(figures) \in Nat
      BY <2>1
    <2>3. 1..Len(figures) \subseteq 1..7
      BY <2>1, <2>2
    <2>4. QED
      BY <2>1, <2>3 DEF Queries
  <1>11. \A i \in Queries : before[i] <= Figure(scope, i) => before[i] <= Figure(scope, i)'
    BY <1>6, <1>7, <1>8, <1>9, <1>10
  <1>12. \A i \in 1..Len(figures) : figures[i] <= Figure(scope, i) => figures[i] <= Figure(scope, i)'
    BY <1>6, <1>7, <1>8, <1>9, <1>10
  <1>13. /\ \A i \in Queries : before'[i] <= Figure(scope, i)'
         /\ \A i \in 1..Len(figures') : before'[i] <= figures'[i] /\ figures'[i] <= Figure(scope, i)'
    BY <1>1, <1>11, <1>12 DEF DashInv
  <1>14. QED
    BY <1>1, <1>3, <1>4, <1>13 DEF DashInv

\* The figures of a summary keep the order in which they are counted.
LEMMA DashInvariant == DashSpec => []DashInv
  <1>1. DashInv /\ [DashNext]_<<vars, dashVars>> => DashInv'
    <2> SUFFICES ASSUME DashInv, [DashNext]_<<vars, dashVars>>
                 PROVE  DashInv'
      OBVIOUS
    <2>1. CASE AskSummary
      BY <2>1, AskSummaryInv
    <2>2. CASE Query
      BY <2>2, QueryInv
    <2>3. CASE Turn
      BY <2>3, TurnInv DEF Turn
    <2>4. CASE UNCHANGED <<vars, dashVars>>
      BY <2>4, TurnInv
    <2>5. QED
      BY <2>1, <2>2, <2>3, <2>4 DEF DashNext
  <1>2. QED
    BY <1>1, DashStarts, PTL DEF DashSpec

\* However turns are committed between the queries of a summary, it shows no
\* more conversations and no more answers than questions, and adds up if nobody
\* was answered meanwhile (analytics_service.py).
THEOREM SummariesAddUp == DashSpec => []SummaryAddsUp
  <1>1. DashInv => SummaryAddsUp
    <2> SUFFICES ASSUME DashInv, Shown
                 PROVE  /\ \A i \in Queries : before[i] <= figures[i] /\ figures[i] <= Figure(scope, i)
                        /\ figures[1] <= messagesUser
                        /\ messagesAssistant <= messagesUser
                        /\ agentRuns <= figures[5] /\ messagesUser <= figures[7]
                        /\ figures[7] = before[7] => messagesAssistant = messagesUser
      BY DEF SummaryAddsUp
    <2>1. Len(figures) = 7 /\ Queries = 1..7
      BY DEF Shown, Queries
    <2>2. figures \in Seq(Nat) /\ before \in [Queries -> Nat]
      BY DEF DashInv, DashTypeOK
    <2>3. \A i \in Queries : figures[i] \in Nat /\ before[i] \in Nat
      <3>1. \A i \in 1..Len(figures) : figures[i] \in Nat
        BY <2>2
      <3>2. QED
        BY <3>1, <2>1, <2>2
    <2>4. \A i \in Queries : before[i] <= figures[i] /\ figures[i] <= Figure(scope, i)
      BY <2>1 DEF DashInv
    <2>5. /\ before[2] = 2 * before[3] /\ before[7] = before[3]
          /\ figures[1] <= figures[3] /\ figures[2] <= 2 * figures[3]
          /\ figures[4] <= figures[5] /\ figures[3] <= figures[7]
      BY <2>1 DEF DashInv
    <2>6. /\ before[2] <= figures[2] /\ before[3] <= figures[3]
          /\ {figures[2], figures[3], figures[7], before[2], before[3], before[7]} \subseteq Nat
      BY <2>1, <2>3, <2>4
    <2>7. /\ figures[2] - figures[3] <= figures[3]
          /\ figures[7] = before[7] => figures[2] - figures[3] = figures[3]
      BY <2>5, <2>6
    <2>8. QED
      BY <2>4, <2>5, <2>7 DEF messagesUser, messagesAssistant, messagesTotal, agentRuns
  <1>2. QED
    BY <1>1, DashInvariant, PTL

=============================================================================
