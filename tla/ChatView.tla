------------------------------ MODULE ChatView ------------------------------
(***************************************************************************)
(* The chat of one signed-in browser (frontend/src/views/ChatView.tsx) and *)
(* the conversations the server keeps for it.                              *)
(*                                                                         *)
(* The view's handlers run one at a time, each up to its next await; what  *)
(* the server answers comes back in any order, and finds whatever state    *)
(* the user's other gestures have left.  A call is a record that is sent,  *)
(* then answered (the server has acted) or failed, then received.  React   *)
(* drops what an unmounted view sets, so Leave forgets the calls of the    *)
(* view but for those the server has yet to act on.                        *)
(*                                                                         *)
(* send appends the question and its empty answer in one handler, and a    *)
(* transcript holds whole turns (Conversations), so one entry of messages  *)
(* stands for both bubbles of a turn.                                      *)
(***************************************************************************)
EXTENDS Naturals, Sequences, FiniteSets

CONSTANTS
  MaxQuestions,  \* bound: questions asked
  ChatSlots,     \* bound: calls in flight
  Workspaces, Docs, None

VARIABLES
  current,         \* the workspace on the screen (auth.tsx)
  conversationId, messages, busy, uploading,
  conversations,   \* the list beside the chat
  chatCalls,
  turns, home,     \* server: the questions of every conversation, and its workspace
  \* history: questions asked; those of the mounted view that have not failed; those a guardrail refused
  \* without storing them; whether the user left a conversation while an answer was under
  \* way, or asked while one was being loaded
  asked, here, refused, crossed

screen   == <<conversationId, messages, busy, uploading, conversations, here, crossed>>
chatVars == <<screen, chatCalls, turns, home, asked, refused>>

Questions == 1..MaxQuestions
Ids       == 1..MaxQuestions     \* conversations, numbered as they begin

Turn == [of: Questions, own: BOOLEAN, shows: Questions \cup {None},
         st: {"streaming", "answered", "error"}]
Note == [of: {None}, own: {FALSE}, shows: {None}, st: {"system"}]
Call == [slot: ChatSlots, kind: {"chat", "agents", "open", "list", "attach"}, live: BOOLEAN,
         ws: Workspaces, conv: Ids \cup {None}, of: Questions \cup {None},
         doc: Docs \cup {None}, at: {"sent", "answered", "failed", "revealing"},
         log: Seq(Questions), seen: SUBSET Ids]

TypeOK ==
  /\ conversationId \in Ids \cup {None} /\ messages \in Seq(Turn \cup Note)
  /\ busy \in BOOLEAN /\ uploading \in BOOLEAN /\ conversations \subseteq Ids
  /\ chatCalls \subseteq Call
  /\ turns \in [Ids -> Seq(Questions)] /\ home \in [Ids -> Workspaces \cup {None}]
  /\ asked \in 0..MaxQuestions /\ here \subseteq Questions /\ refused \subseteq Questions
  /\ crossed \in BOOLEAN

Init ==
  /\ conversationId = None /\ messages = <<>> /\ busy = FALSE /\ uploading = FALSE
  /\ conversations = {} /\ chatCalls = {}
  /\ turns = [k \in Ids |-> <<>>] /\ home = [k \in Ids |-> None]
  /\ asked = 0 /\ here = {} /\ refused = {} /\ crossed = FALSE

-----------------------------------------------------------------------------
Free == {s \in ChatSlots : \A c \in chatCalls : c.slot # s}
Slot == CHOOSE s \in Free : \A t \in Free : s <= t

Request(s, kind, w, k, n, d) ==
  [slot |-> s, kind |-> kind, live |-> TRUE, ws |-> w, conv |-> k, of |-> n, doc |-> d,
   at |-> "sent", log |-> <<>>, seen |-> {}]

Replace(c, d) == (chatCalls \ {c}) \cup {d}
Drop(c)       == chatCalls \ {c}

\* A call whose answer the mounted view still waits for.
Awaited(kinds) == \E c \in chatCalls : c.live /\ c.kind \in kinds
Turning        == {"chat", "agents", "open"}

Sending(n) == [of |-> n, own |-> TRUE, shows |-> None, st |-> "streaming"]
System     == [of |-> None, own |-> FALSE, shows |-> None, st |-> "system"]

-----------------------------------------------------------------------------
(* Steps gone wrong, each the way a change of the code could.               *)

\* AnswersSettle: write the answer into the last bubble instead of the one with the id.
SettledLast(n, shown, st) ==
  [i \in DOMAIN messages |->
     IF i = Len(messages) THEN [messages[i] EXCEPT !.shows = shown, !.st = st] ELSE messages[i]]

\* ScreenIsContinued: start a new chat without forgetting the conversation.
NewChatKeeps ==
  /\ messages' = <<>> /\ crossed' = Awaited(Turning)
  /\ UNCHANGED <<conversationId, busy, uploading, conversations, here, chatCalls, turns, home, asked, refused>>

-----------------------------------------------------------------------------
(* Gestures *)

\* send: refused while busy.
Send ==
  \E kind \in {"chat", "agents"} :
    /\ ~busy /\ asked < MaxQuestions /\ Free # {}
    /\ asked' = asked + 1 /\ here' = here \cup {asked'}
    /\ messages' = Append(messages, Sending(asked')) /\ busy' = TRUE
    /\ chatCalls' = chatCalls \cup {Request(Slot, kind, current, conversationId, asked', None)}
    /\ crossed' = (crossed \/ Awaited({"open"}))
    /\ UNCHANGED <<conversationId, uploading, conversations, turns, home, refused>>

NewChat ==
  /\ messages' = <<>> /\ conversationId' = None /\ crossed' = Awaited(Turning)
  /\ UNCHANGED <<busy, uploading, conversations, here, chatCalls, turns, home, asked, refused>>

OpenConversation ==
  \E k \in conversations :
    /\ Free # {} /\ conversationId' = k /\ crossed' = Awaited(Turning)
    /\ chatCalls' = chatCalls \cup {Request(Slot, "open", current, k, None, None)}
    /\ UNCHANGED <<messages, busy, uploading, conversations, here, turns, home, asked, refused>>

\* onAttach: the button is disabled while a file is uploading.
Attach(d) ==
  /\ ~uploading /\ Free # {} /\ uploading' = TRUE
  /\ chatCalls' = chatCalls \cup {Request(Slot, "attach", current, None, None, d)}
  /\ UNCHANGED <<conversationId, messages, busy, conversations, here, crossed, turns, home, asked, refused>>

-----------------------------------------------------------------------------
(* The server.  A turn of a view that is gone is stored all the same.       *)

Answered(c, d) == IF c.live THEN Replace(c, [d EXCEPT !.at = "answered"]) ELSE Drop(c)

\* POST /chat and /agents/run, as Conversations models them.
ServeTurn(c) ==
  /\ c.kind \in {"chat", "agents"} /\ c.at = "sent"
  /\ \E k \in Ids :
       /\ IF c.conv # None THEN k = c.conv
          ELSE home[k] = None /\ \A j \in Ids : home[j] = None => k <= j
       /\ turns' = [turns EXCEPT ![k] = Append(@, c.of)]
       /\ home' = [home EXCEPT ![k] = IF c.conv = None THEN c.ws ELSE @]
       /\ chatCalls' = Answered(c, [c EXCEPT !.conv = k])
  /\ UNCHANGED <<screen, asked, refused>>

\* The agents' guardrail answers with the conversation it was given and stores nothing.
ServeRefusal(c) ==
  /\ c.kind = "agents" /\ c.at = "sent"
  /\ refused' = refused \cup {c.of} /\ chatCalls' = Answered(c, c)
  /\ UNCHANGED <<screen, turns, home, asked>>

ServeRead(c) ==
  /\ c.kind \in {"open", "list"} /\ c.at = "sent"
  /\ chatCalls' = Answered(c, IF c.kind = "open" THEN [c EXCEPT !.log = turns[c.conv]]
                              ELSE [c EXCEPT !.seen = {k \in Ids : home[k] = c.ws}])
  /\ UNCHANGED <<screen, turns, home, asked, refused>>

\* The upload itself is LibraryView's; Client joins the two.
ServeAttach(c) ==
  /\ c.kind = "attach" /\ c.at = "sent" /\ chatCalls' = Answered(c, c)
  /\ UNCHANGED <<screen, turns, home, asked, refused>>

\* The request or its answer is lost, or the server answers with an error; a connection
\* that breaks may leave the server at work on the request.
Fail(c) ==
  /\ c.at \in {"sent", "answered"}
  /\ \/ chatCalls' = IF c.live THEN Replace(c, [c EXCEPT !.at = "failed"]) ELSE Drop(c)
     \/ /\ c.live /\ c.at = "sent" /\ c.kind \in {"chat", "agents"} /\ Free # {}
        /\ chatCalls' = Replace(c, [c EXCEPT !.at = "failed"]) \cup
                          {[c EXCEPT !.live = FALSE, !.slot = Slot]}
  /\ UNCHANGED <<screen, turns, home, asked, refused>>

-----------------------------------------------------------------------------
(* What the handlers do after their await. *)

\* messages.map: only the bubble with the id of the answer.
Settled(n, shown, st) ==
  [i \in DOMAIN messages |->
     IF messages[i].own /\ messages[i].of = n
     THEN [messages[i] EXCEPT !.shows = shown, !.st = st] ELSE messages[i]]

\* setConversationId, then reveal: the typewriter runs between two receipts.
ReceiveTurn(c) ==
  /\ c.kind \in {"chat", "agents"} /\ c.at = "answered"
  /\ conversationId' = IF c.conv # None THEN c.conv ELSE conversationId
  /\ messages' = Settled(c.of, c.of, "streaming")
  /\ chatCalls' = Replace(c, [c EXCEPT !.at = "revealing"])
  /\ UNCHANGED <<busy, uploading, conversations, here, crossed, turns, home, asked, refused>>

\* The answer is whole: its citations are set, the list reloads, sending is allowed.
Revealed(c) ==
  /\ c.at = "revealing" /\ messages' = Settled(c.of, c.of, "answered") /\ busy' = FALSE
  /\ chatCalls' = Replace(c, Request(c.slot, "list", c.ws, None, None, None))
  /\ UNCHANGED <<conversationId, uploading, conversations, here, crossed, turns, home, asked, refused>>

ReceiveConversation(c) ==
  /\ c.kind = "open" /\ c.at = "answered" /\ chatCalls' = Drop(c)
  /\ messages' = [i \in DOMAIN c.log |->
                    [of |-> c.log[i], own |-> FALSE, shows |-> c.log[i], st |-> "answered"]]
  /\ UNCHANGED <<conversationId, busy, uploading, conversations, here, crossed, turns, home, asked, refused>>

ReceiveList(c) ==
  /\ c.kind = "list" /\ c.at = "answered" /\ chatCalls' = Drop(c) /\ conversations' = c.seen
  /\ UNCHANGED <<conversationId, messages, busy, uploading, here, crossed, turns, home, asked, refused>>

ReceiveAttach(c) ==
  /\ c.kind = "attach" /\ c.at = "answered" /\ chatCalls' = Drop(c)
  /\ messages' = Append(messages, System) /\ uploading' = FALSE
  /\ UNCHANGED <<conversationId, busy, conversations, here, crossed, turns, home, asked, refused>>

\* catch and finally: an error bubble for a turn, a toast or nothing for the others.
\* A conversation that cannot be loaded stays selected, over the messages there were.
ReceiveFailure(c) ==
  /\ c.at = "failed" /\ chatCalls' = Drop(c)
  /\ IF c.kind \in {"chat", "agents"}
     THEN messages' = Settled(c.of, None, "error") /\ busy' = FALSE /\ here' = here \ {c.of}
     ELSE UNCHANGED <<messages, busy, here>>
  /\ uploading' = (uploading /\ c.kind # "attach")
  /\ crossed' = (crossed \/ c.kind = "open")
  /\ UNCHANGED <<conversationId, conversations, turns, home, asked, refused>>

-----------------------------------------------------------------------------
(* Mounting and unmounting, by Client. *)

Reset ==
  /\ conversationId' = None /\ messages' = <<>> /\ busy' = FALSE /\ uploading' = FALSE
  /\ conversations' = {} /\ here' = {} /\ crossed' = FALSE
  /\ UNCHANGED <<turns, home, asked, refused>>

Orphans == {[c EXCEPT !.live = FALSE] :
              c \in {d \in chatCalls : d.at = "sent" /\ d.kind \in {"chat", "agents", "attach"}}}

Leave == Reset /\ chatCalls' = Orphans

\* The effect loads the list of the workspace that is on the screen from now on.
Enter == /\ Free # {} /\ Reset
         /\ chatCalls' = Orphans \cup {Request(Slot, "list", current', None, None, None)}

Gesture(d) == Send \/ NewChat \/ OpenConversation \/ Attach(d)
Answer(c) == ServeTurn(c) \/ ServeRefusal(c) \/ ServeRead(c)
Receive(c) == ReceiveTurn(c) \/ Revealed(c) \/ ReceiveConversation(c) \/ ReceiveList(c)
              \/ ReceiveAttach(c) \/ ReceiveFailure(c)

-----------------------------------------------------------------------------
(* Properties *)

Shown(st) == {i \in DOMAIN messages : messages[i].st = st}

\* An answer ends in the bubble of its own question, whatever was opened, cleared or
\* attached since; a bubble that still waits has its call under way, and sending is
\* locked as long as one waits (send, reveal, ChatView.tsx).
AnswersSettle ==
  /\ \A i \in Shown("answered") : messages[i].shows = messages[i].of
  /\ \A i \in Shown("streaming") :
       /\ busy /\ messages[i].shows \in {None, messages[i].of}
       /\ \E c \in chatCalls : c.live /\ c.kind \in {"chat", "agents"} /\ c.of = messages[i].of

\* The next question continues what is on the screen: the answered turns shown are turns
\* of the selected conversation, and every turn asked here and stored in it is shown,
\* unless the user left for another conversation while an answer was under way, asked while
\* one was being loaded, or it could not be loaded (conversationId and messages are set by different handlers).
ScreenIsContinued ==
  (~busy /\ ~Awaited({"open"}) /\ ~crossed) =>
    LET stored == IF conversationId = None THEN {}
                  ELSE {turns[conversationId][i] : i \in DOMAIN turns[conversationId]}
        shown  == {messages[i].of : i \in DOMAIN messages}
        done   == {messages[i].of : i \in Shown("answered")}
    IN  done \ refused \subseteq stored /\ stored \cap here \subseteq shown

\* A question continues conversations of the workspace it is sent to only, though the
\* server finds a conversation whatever its workspace (chat.py, get_conversation).
TurnsStayHome ==
  \A c \in chatCalls : c.kind \in {"chat", "agents"} /\ c.conv # None => home[c.conv] = c.ws

=============================================================================
