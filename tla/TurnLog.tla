------------------------------ MODULE TurnLog -------------------------------
(***************************************************************************)
(* What the chat history promises, whatever the handlers do in between: a  *)
(* conversation begins with a turn of its own, and every turn is recorded  *)
(* as a question and its answer together, once, in one conversation.       *)
(***************************************************************************)
CONSTANT Turns

VARIABLES
  threads,    \* conversations, each named by the turn that began it
  questions,  \* pairs <<turn, conversation>>
  answers     \* pairs <<turn, conversation>>

vars == <<threads, questions, answers>>

Fresh(t) == \A e \in questions \cup answers : e[1] # t

Init == threads = {} /\ questions = {} /\ answers = {}

\* The first turn of a conversation.
Begin(t) ==
  /\ Fresh(t) /\ t \notin threads
  /\ threads' = threads \cup {t}
  /\ questions' = questions \cup {<<t, t>>}
  /\ answers' = answers \cup {<<t, t>>}

\* A later turn of conversation c.
Continue(t, c) ==
  /\ Fresh(t)
  /\ questions' = questions \cup {<<t, c>>}
  /\ answers' = answers \cup {<<t, c>>}
  /\ UNCHANGED threads

Next == \E t \in Turns : Begin(t) \/ \E c \in threads : Continue(t, c)

Spec == Init /\ [][Next]_vars
=============================================================================
