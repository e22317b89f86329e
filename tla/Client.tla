------------------------------- MODULE Client -------------------------------
(***************************************************************************)
(* The browser client as a whole (frontend/src/App.tsx): the session       *)
(* decides what is on the screen, the views are mounted and unmounted by   *)
(* it, and what they upload reaches the notification feed that the bell    *)
(* shows.                                                                  *)
(*                                                                         *)
(* A view is keyed by its workspace: another tab, another workspace or     *)
(* another user mounts it anew, and the answers its handlers still wait    *)
(* for change nothing.                                                     *)
(***************************************************************************)
EXTENDS Naturals, Sequences, FiniteSets

CONSTANTS
  MaxQuestions, Users, Workspaces, Docs, None, First, Own,
  ChatSlots, LibSlots, BellSlots, FlowSlots,  \* bounds: calls in flight
  Focuses,        \* bound: the parts of the screen used together, and how many gestures
  MaxFailures     \* bound: requests that fail, where Spec is fair

ASSUME NoneAssumption ==
  None \notin Users /\ None \notin Workspaces /\ None \notin Docs /\ None \notin 1..MaxQuestions
ASSUME DocsAssumption == IsFiniteSet(Docs)
ASSUME BrowserAssumption == First \in Users /\ Own \in Workspaces
ASSUME BoundsAssumption ==
  /\ MaxQuestions \in Nat /\ MaxFailures \in Nat /\ \A f \in Focuses : f.gestures \in Nat
  /\ ChatSlots \subseteq Nat /\ LibSlots \subseteq Nat /\ BellSlots \subseteq Nat
  /\ FlowSlots \subseteq Nat /\ FlowSlots # {}

VARIABLES
  tab,            \* App's view
  ready, user, workspaces, current, token, saved, flows, accounts, owner, mixed,
  conversationId, messages, busy, chatUploading, conversations, chatCalls, turns, home,
  asked, here, refused, crossed,
  docs, loading, uploading, libCalls, place, used, overtaken,
  open, items, readItems, unread, bellCalls, feed, isRead,
  gestures, failures,
  focus           \* one of Focuses; the bell polls when it is in use

S == INSTANCE Session
V == INSTANCE ChatView WITH uploading <- chatUploading
L == INSTANCE LibraryView
B == INSTANCE NotificationBell WITH Notices <- Docs

sessionVars == <<ready, user, workspaces, current, token, saved, flows, accounts, owner, mixed>>
chatVars == <<conversationId, messages, busy, chatUploading, conversations, chatCalls, turns, home,
              asked, here, refused, crossed>>
libScreen  == <<docs, loading, uploading, overtaken>>
libVars    == <<libScreen, libCalls, place, used>>
bellScreen == <<open, items, readItems, unread>>
bellVars   == <<bellScreen, bellCalls, feed, isRead>>
vars == <<tab, sessionVars, chatVars, libVars, bellVars, gestures, failures, focus>>

TypeOK ==
  /\ tab \in {"chat", "library"} /\ gestures \in 0..focus.gestures /\ failures \in 0..MaxFailures
  /\ focus \in Focuses
  /\ S!TypeOK /\ V!TypeOK /\ L!TypeOK /\ B!TypeOK

Init ==
  /\ tab = "chat" /\ gestures = 0 /\ failures = 0 /\ focus \in Focuses
  /\ S!Init /\ V!Init /\ L!Init /\ B!Init

-----------------------------------------------------------------------------
(* What App renders *)

\* Sidebar and TopBar, for whoever is signed in.
Shell == ready /\ user # None

\* The view, keyed by the workspace.
Screen == IF Shell /\ current # None THEN <<tab, current>> ELSE <<"none", None>>
On(t)  == Screen[1] = t

\* Gone wrong (ListIsCurrent, TurnsStayHome): keep a view mounted when the workspace changes.
RemountUnkeyed ==
  /\ IF Screen'[1] = Screen[1] THEN UNCHANGED <<chatVars, libVars>>
     ELSE /\ IF Screen'[1] = "chat" THEN V!Enter ELSE V!Leave
          /\ IF Screen'[1] = "library" THEN L!Enter ELSE L!Leave
  /\ IF Shell' = Shell THEN UNCHANGED bellVars ELSE B!Leave

\* React unmounts what is no longer rendered and mounts what is new.
Remount ==
  /\ IF Screen' = Screen THEN UNCHANGED <<chatVars, libVars>>
     ELSE /\ IF Screen'[1] = "chat" THEN V!Enter ELSE V!Leave
          /\ IF Screen'[1] = "library" THEN L!Enter ELSE L!Leave
  /\ IF Shell' = Shell THEN UNCHANGED bellVars ELSE B!Leave

-----------------------------------------------------------------------------
(* Gestures *)

ShowView ==
  \E t \in {"chat", "library"} \ {tab} :
    /\ Shell /\ tab' = t /\ UNCHANGED sessionVars /\ Remount

\* The page is loaded again: App's tab is the chat, and no upload goes on.
ReloadPage ==
  /\ S!Reload /\ tab' = "chat" /\ V!Leave /\ L!Close /\ B!Leave

UseSession == UNCHANGED tab /\ S!Gesture /\ Remount

UseChat == /\ On("chat") /\ (V!Send \/ V!NewChat \/ V!OpenConversation)
           /\ UNCHANGED <<tab, sessionVars, libVars, bellVars>>

UseAttach ==
  \E d \in Docs \ used :
    /\ On("chat") /\ V!Attach(d) /\ used' = used \cup {d}
    /\ UNCHANGED <<tab, sessionVars, libScreen, libCalls, place, bellVars>>

UseLibrary == /\ On("library") /\ (L!Upload \/ L!Remove)
              /\ UNCHANGED <<tab, sessionVars, chatVars, bellVars>>

UseBell == /\ Shell /\ B!Gesture /\ UNCHANGED <<tab, sessionVars, chatVars, libVars>>

Uses(part) == part \in focus.uses

Gesture ==
  /\ gestures < focus.gestures /\ gestures' = gestures + 1 /\ UNCHANGED <<failures, focus>>
  /\ \/ Uses("session") /\ (UseSession \/ ReloadPage)
     \/ Uses("library") /\ (UseLibrary \/ ShowView)
     \/ Uses("chat") /\ UseChat
     \/ Uses("attach") /\ UseAttach
     \/ Uses("bell") /\ UseBell

-----------------------------------------------------------------------------
(* The server, the network and the handlers *)

\* The organization's feed gets a notice with every document stored.
Announce(d, w) == B!Announce(d, owner[w]) /\ UNCHANGED <<bellScreen, bellCalls, isRead>>

AnswerChat ==
  \E c \in chatCalls :
    /\ \/ (V!Answer(c) \/ V!Receive(c)) /\ UNCHANGED <<libVars, bellVars>>
       \/ /\ V!ServeAttach(c) /\ L!Store(c.doc, c.ws, FALSE) /\ libCalls' = L!Overtake(libCalls)
          /\ Announce(c.doc, c.ws) /\ UNCHANGED <<docs, loading, uploading, used>>
    /\ UNCHANGED <<tab, sessionVars, gestures, failures, focus>>

AnswerLibrary ==
  \E c \in libCalls :
    /\ \/ L!ServeUpload(c) /\ Announce(c.doc, c.ws)
       \/ (L!ServeList(c) \/ L!ServeRemove(c) \/ L!Receive(c, token = owner[c.ws]))
          /\ UNCHANGED bellVars
    /\ UNCHANGED <<tab, sessionVars, chatVars, gestures, failures, focus>>

AnswerBell(s) ==
  \E c \in bellCalls :
    /\ c.slot = s /\ (B!Serve(c) \/ B!Receive(c))
    /\ UNCHANGED <<tab, sessionVars, chatVars, libVars, gestures, failures, focus>>

Poll == Uses("bell") /\ Shell /\ B!Poll /\ UNCHANGED <<tab, sessionVars, chatVars, libVars, gestures, failures, focus>>

AnswerSession ==
  \E f \in flows : UNCHANGED <<tab, gestures, failures, focus>> /\ (S!Serve(f) \/ S!Receive(f)) /\ Remount

Fail ==
  /\ failures < MaxFailures /\ failures' = failures + 1 /\ UNCHANGED <<tab, gestures, focus>>
  /\ \/ \E c \in chatCalls : V!Fail(c) /\ UNCHANGED <<sessionVars, libVars, bellVars>>
     \/ \E c \in libCalls : L!Fail(c) /\ UNCHANGED <<sessionVars, chatVars, bellVars>>
     \/ \E c \in bellCalls : B!Fail(c) /\ UNCHANGED <<sessionVars, chatVars, libVars>>
     \/ \E f \in flows : S!Fail(f) /\ UNCHANGED <<chatVars, libVars, bellVars>>

Next == \/ Gesture \/ AnswerChat \/ AnswerLibrary \/ AnswerSession \/ Poll \/ Fail
        \/ \E s \in BellSlots : AnswerBell(s)

\* The timer fires and every poll is answered, but for MaxFailures requests.
Fairness == WF_vars(Poll) /\ \A s \in BellSlots : WF_vars(AnswerBell(s))

Spec == Init /\ [][Next]_vars /\ Fairness

-----------------------------------------------------------------------------
(* Properties of the parts, on the client as a whole *)

AnswersSettle     == V!AnswersSettle
ScreenIsContinued == V!ScreenIsContinued
TurnsStayHome     == V!TurnsStayHome
ListIsCurrent     == L!ListIsCurrent
SessionIsOnes     == S!SessionIsOnes

\* However polls, clicks and new notices interleave, the badge ends at the number of
\* unread notices: a double click or an old answer is put right by a later poll
\* (refreshCount, markAll and openItem of TopBar.tsx).
BadgeConverges == Uses("bell") => <>[](Shell => B!BadgeIsTrue)

=============================================================================
