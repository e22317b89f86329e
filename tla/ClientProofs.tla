---------------------------- MODULE ClientProofs ----------------------------
(***************************************************************************)
(* Theorems about Client for any users, workspaces and documents, any      *)
(* number of calls in flight and of gestures.                              *)
(***************************************************************************)
EXTENDS Client, LeastElement, SequenceTheorems, FiniteSetTheorems

-----------------------------------------------------------------------------
(* Types.                                                                   *)

\* A slot that is chosen is one of those to choose from.
LEMMA SlotChosen ==
  ASSUME NEW F \in SUBSET Nat, F # {}
  PROVE  (CHOOSE s \in F : \A t \in F : s <= t) \in F
  <1>1. PICK s \in F : \A t \in F : ~ (t < s)
    BY LeastNatural
  <1>2. \A t \in F : s <= t
    BY <1>1
  <1>3. QED
    BY <1>2

\* A field of a flow that changes keeps the flow's type.
LEMMA FlowTypes ==
  ASSUME NEW f \in S!Flow
  PROVE  /\ \A b \in BOOLEAN : [f EXCEPT !.ours = b] \in S!Flow
         /\ \A a \in {"sent", "answered", "failed"} : [f EXCEPT !.at = a] \in S!Flow
         /\ \A q \in SUBSET Workspaces : [f EXCEPT !.seen = q] \in S!Flow
         /\ \A w \in Workspaces : [f EXCEPT !.made = w] \in S!Flow
         /\ \A p \in {"register", "login", "me", "create", "list"}, u \in Users \cup {None} :
              [f EXCEPT !.step = p, !.who = u, !.at = "sent"] \in S!Flow
  BY DEF S!Flow

\* A flow that begins is well typed.
LEMMA BeginType ==
  ASSUME S!Free # {}, NEW kind \in {"open", "signin", "create"},
         NEW p \in {"register", "login", "me", "create", "list"}, NEW u \in Users \cup {None}
  PROVE  S!Begin(kind, p, u) \in S!Flow
  <1>1. S!Free \in SUBSET Nat /\ S!Free \subseteq FlowSlots
    BY BoundsAssumption DEF S!Free
  <1>2. S!Slot \in FlowSlots
    BY <1>1, SlotChosen DEF S!Slot
  <1>3. QED
    BY <1>2 DEF S!Begin, S!Flow

LEMMA OpenedType ==
  ASSUME NEW t \in Users \cup {None}
  PROVE  S!Opened(t) \subseteq S!Flow
  <1>1. (CHOOSE s \in FlowSlots : \A r \in FlowSlots : s <= r) \in FlowSlots
    BY BoundsAssumption, SlotChosen
  <1>2. PICK s \in FlowSlots : s = CHOOSE q \in FlowSlots : \A r \in FlowSlots : q <= r
    BY <1>1
  <1>3. [slot |-> s, kind |-> "open", ours |-> TRUE, step |-> "me", who |-> t, made |-> None,
         at |-> "sent", seen |-> {}] \in S!Flow
    BY DEF S!Flow
  <1>4. QED
    BY <1>2, <1>3 DEF S!Opened

\* One step of the session.
SessionNext ==
  \/ S!Gesture \/ S!Reload
  \/ \E f \in flows : S!Serve(f) \/ S!Receive(f) \/ S!Fail(f)

\* The session starts with the right types and keeps them.
LEMMA SessionTypeInit == Init => S!TypeOK
  <1> SUFFICES ASSUME Init PROVE S!TypeOK
    OBVIOUS
  <1>1. flows \subseteq S!Flow
    BY OpenedType, BrowserAssumption DEF Init, S!Init
  <1>2. QED
    BY <1>1, BrowserAssumption DEF Init, S!Init, S!TypeOK

LEMMA SessionTypeGesture ==
  ASSUME S!TypeOK, S!Gesture \/ S!Reload
  PROVE  S!TypeOK'
  <1> USE DEF S!TypeOK
  <1>1. CASE S!SignIn
    <2>1. flows' \subseteq S!Flow
      BY <1>1, BeginType DEF S!SignIn
    <2>2. QED
      BY <1>1, <2>1 DEF S!SignIn
  <1>2. CASE S!SignOut
    <2>1. flows' \subseteq S!Flow
      BY <1>2, FlowTypes DEF S!SignOut
    <2>2. QED
      BY <1>2, <2>1 DEF S!SignOut
  <1>3. CASE S!CreateWorkspace
    <2>1. flows' \subseteq S!Flow
      BY <1>3, BeginType DEF S!CreateWorkspace
    <2>2. QED
      BY <1>3, <2>1 DEF S!CreateWorkspace
  <1>4. CASE S!SwitchWorkspace
    BY <1>4 DEF S!SwitchWorkspace
  <1>5. CASE S!Reload
    <2>1. flows' \subseteq S!Flow
      BY <1>5, OpenedType DEF S!Reload
    <2>2. QED
      BY <1>5, <2>1 DEF S!Reload
  <1>6. QED
    BY <1>1, <1>2, <1>3, <1>4, <1>5 DEF S!Gesture

LEMMA SessionTypeServe ==
  ASSUME S!TypeOK, NEW f \in flows, f.step = "register" => f.who \in Users, S!Serve(f) \/ S!Fail(f)
  PROVE  S!TypeOK'
  <1> USE DEF S!TypeOK, S!Answered, S!Refused, S!Replace
  <1>1. CASE S!ServeAccount(f)
    <2>1. flows' \subseteq S!Flow
      BY <1>1, FlowTypes DEF S!ServeAccount
    <2>2. accounts' \subseteq Users
      BY <1>1 DEF S!ServeAccount
    <2>3. QED
      BY <1>1, <2>1, <2>2 DEF S!ServeAccount
  <1>2. CASE S!ServeList(f)
    <2>1. S!Held(f.who) \in SUBSET Workspaces
      BY DEF S!Held
    <2>2. flows' \subseteq S!Flow
      BY <1>2, <2>1, FlowTypes DEF S!ServeList
    <2>3. QED
      BY <1>2, <2>2 DEF S!ServeList
  <1>3. CASE S!ServeCreate(f)
    <2>1. flows' \subseteq S!Flow
      BY <1>3, FlowTypes DEF S!ServeCreate
    <2>2. owner' \in [Workspaces -> Users \cup {None}]
      BY <1>3 DEF S!ServeCreate, S!Flow
    <2>3. QED
      BY <1>3, <2>1, <2>2 DEF S!ServeCreate
  <1>4. CASE S!Fail(f)
    <2>1. flows' \subseteq S!Flow
      BY <1>4, FlowTypes DEF S!Fail
    <2>2. QED
      BY <1>4, <2>1 DEF S!Fail
  <1>5. QED
    BY <1>1, <1>2, <1>3, <1>4 DEF S!Serve

LEMMA SessionTypeReceive ==
  ASSUME S!TypeOK, NEW f \in flows, S!Receive(f)
  PROVE  S!TypeOK'
  <1> USE DEF S!TypeOK
  <1>1. f.who \in Users \cup {None} /\ f.made \in Workspaces \cup {None} /\ f.seen \subseteq Workspaces
    BY DEF S!Flow
  <1>2. \A p \in {"login", "me", "list"}, u \in Users \cup {None} : S!Proceed(f, p, u) \subseteq S!Flow
    <2> SUFFICES ASSUME NEW p \in {"login", "me", "list"}, NEW u \in Users \cup {None}
                 PROVE  S!Proceed(f, p, u) \subseteq S!Flow
      OBVIOUS
    <2>1. [f EXCEPT !.step = p, !.who = u, !.at = "sent"] \in S!Flow
      BY FlowTypes
    <2>2. QED
      BY <2>1 DEF S!Proceed, S!Replace
  <1>3. CASE S!Registered(f) \/ S!LoggedIn(f) \/ S!Known(f) \/ S!Created(f)
    <2>1. flows' \subseteq S!Flow
      BY <1>1, <1>2, <1>3 DEF S!Registered, S!LoggedIn, S!Known, S!Created
    <2>2. QED
      BY <1>1, <1>3, <2>1 DEF S!Registered, S!LoggedIn, S!Known, S!Created
  <1>4. CASE S!Listed(f)
    <2>1. current' \in Workspaces \cup {None} /\ saved' \in Workspaces \cup {None}
      BY <1>1, <1>4 DEF S!Listed, S!Chosen
    <2>2. QED
      BY <1>1, <1>4, <2>1 DEF S!Listed, S!Drop
  <1>5. CASE S!FlowFails(f)
    BY <1>5 DEF S!FlowFails, S!Drop
  <1>6. QED
    BY <1>3, <1>4, <1>5 DEF S!Receive

-----------------------------------------------------------------------------
(* Who is signed in.                                                        *)

\* What is true of a flow, whatever else the user has done meanwhile.  A flow
\* that is `ours` began under the sign-in that the screen shows.
FlowOK(f) ==
  /\ f.kind \in {"open", "signin", "create"} /\ f.ours \in BOOLEAN
  /\ f.step \in (IF f.kind = "open" THEN {"me", "list"}
                 ELSE IF f.kind = "signin" THEN {"register", "login", "me", "list"}
                 ELSE {"create", "list"})
  /\ f.kind = "open" =>
       flows = {f} /\ ~ready /\ f.ours /\ workspaces = {} /\ current = None /\ ~mixed
  /\ f.step \in {"register", "login", "me"} => f.ours /\ user = None /\ f.who \in Users /\ f.made = None
  /\ f.step = "me" => token = f.who
  /\ f.ours /\ f.step \in {"create", "list"} =>
       /\ user # None /\ f.who = user
       /\ f.made \in S!Held(user) \cup {None}
  /\ f.step = "list" /\ f.at = "answered" => f.who # None /\ f.seen \subseteq S!Held(f.who)

\* At most one form is under way, and whoever is on the screen sends their own
\* token and sees their own workspaces.
SessionInv ==
  /\ \A f \in flows : FlowOK(f)
  /\ \A f, g \in flows : f.kind = "signin" /\ f.ours /\ g.kind = "signin" /\ g.ours => f = g
  /\ user # None => token = user
  /\ \/ mixed
     \/ user = None /\ workspaces = {} /\ current = None
     \/ user # None /\ workspaces \subseteq S!Held(user) /\ current \in S!Held(user) \cup {None}
  /\ user \in Users \cup {None} /\ token \in Users \cup {None}

\* The types are kept.
LEMMA SessionTypeNext == S!TypeOK /\ SessionInv /\ (SessionNext \/ UNCHANGED sessionVars) => S!TypeOK'
  <1> SUFFICES ASSUME S!TypeOK, SessionInv, SessionNext \/ UNCHANGED sessionVars
               PROVE  S!TypeOK'
    OBVIOUS
  <1>1. CASE SessionNext
    <2>1. \A f \in flows : f.step = "register" => f.who \in Users
      BY DEF SessionInv, FlowOK
    <2>2. QED
      BY <1>1, <2>1, SessionTypeGesture, SessionTypeServe, SessionTypeReceive DEF SessionNext
  <1>2. CASE UNCHANGED sessionVars
    BY <1>2 DEF sessionVars, S!TypeOK
  <1>3. QED
    BY <1>1, <1>2

\* Every step of the client is one of the session or leaves it as it was.
LEMMA SessionSteps == [Next]_vars => SessionNext \/ UNCHANGED sessionVars
  <1> SUFFICES ASSUME [Next]_vars, ~UNCHANGED sessionVars
               PROVE  SessionNext
    OBVIOUS
  <1>1. CASE Gesture
    BY <1>1 DEF Gesture, UseSession, ReloadPage, UseLibrary, ShowView, UseChat, UseAttach, UseBell, SessionNext
  <1>2. CASE AnswerChat \/ AnswerLibrary \/ Poll \/ \E s \in BellSlots : AnswerBell(s)
    BY <1>2 DEF AnswerChat, AnswerLibrary, Poll, AnswerBell
  <1>3. CASE AnswerSession \/ Fail
    BY <1>3 DEF AnswerSession, Fail, SessionNext
  <1>4. QED
    BY <1>1, <1>2, <1>3 DEF Next, vars

\* The page opens with the stored token, if there is one.
LEMMA OpenedFlow ==
  ASSUME NEW t
  PROVE  /\ t = None => S!Opened(t) = {}
         /\ t # None => \E s : S!Opened(t) = {[slot |-> s, kind |-> "open", ours |-> TRUE, step |-> "me",
                                              who |-> t, made |-> None, at |-> "sent", seen |-> {}]}
  BY DEF S!Opened

\* It starts with nothing on the screen.
LEMMA SessionInit == Init => SessionInv
  <1> SUFFICES ASSUME Init PROVE SessionInv
    OBVIOUS
  <1>1. /\ token = First /\ ~ready /\ user = None /\ workspaces = {} /\ current = None /\ ~mixed
        /\ flows = S!Opened(First)
    BY DEF Init, S!Init
  <1>2. First \in Users /\ First # None
    BY BrowserAssumption, NoneAssumption
  <1>3. PICK s : flows = {[slot |-> s, kind |-> "open", ours |-> TRUE, step |-> "me", who |-> First,
                           made |-> None, at |-> "sent", seen |-> {}]}
    BY <1>1, <1>2, OpenedFlow
  <1>4. QED
    BY <1>1, <1>2, <1>3 DEF SessionInv, FlowOK

\* So does a page that is opened again.
LEMMA ReloadSession ==
  ASSUME SessionInv, S!Reload
  PROVE  SessionInv'
  <1>1. /\ ready' = (token = None) /\ user' = None /\ workspaces' = {} /\ current' = None
        /\ flows' = S!Opened(token) /\ ~mixed' /\ UNCHANGED <<token, saved, accounts, owner>>
    BY DEF S!Reload
  <1>2. CASE token = None
    BY <1>1, <1>2, OpenedFlow DEF SessionInv
  <1>3. CASE token # None
    <2>1. PICK s : flows' = {[slot |-> s, kind |-> "open", ours |-> TRUE, step |-> "me", who |-> token,
                              made |-> None, at |-> "sent", seen |-> {}]}
      BY <1>1, <1>3, OpenedFlow
    <2> DEFINE f == [slot |-> s, kind |-> "open", ours |-> TRUE, step |-> "me", who |-> token,
                     made |-> None, at |-> "sent", seen |-> {}]
    <2>2. token \in Users
      BY <1>3 DEF SessionInv
    <2>3. FlowOK(f)'
      BY <1>1, <1>3, <2>1, <2>2 DEF FlowOK
    <2>4. QED
      BY <1>1, <2>1, <2>2, <2>3 DEF SessionInv
  <1>4. QED
    BY <1>2, <1>3

\* Gestures: signing in, signing out, a new workspace, another workspace.
LEMMA SignInSession ==
  ASSUME SessionInv, S!SignIn
  PROVE  SessionInv'
  <1>1. PICK u \in Users, step \in {"login", "register"} :
          /\ ready /\ user = None
          /\ \A f \in flows : f.kind = "signin" => ~f.ours
          /\ flows' = flows \cup {S!Begin("signin", step, u)}
    BY DEF S!SignIn
  <1>2. UNCHANGED <<ready, user, workspaces, current, token, saved, accounts, owner, mixed>>
    BY DEF S!SignIn
  <1>3. PICK new : new = S!Begin("signin", step, u)
    OBVIOUS
  <1>4. /\ new.kind = "signin" /\ new.ours = TRUE /\ new.step = step /\ new.who = u
        /\ new.made = None /\ new.at = "sent"
    BY <1>3 DEF S!Begin
  <1>5. FlowOK(new)'
    BY <1>1, <1>2, <1>4 DEF FlowOK
  <1>6. ASSUME NEW f \in flows
        PROVE  FlowOK(f)'
    BY <1>1, <1>2 DEF SessionInv, FlowOK, S!Held
  <1>7. \A f, g \in flows' : f.kind = "signin" /\ f.ours /\ g.kind = "signin" /\ g.ours => f = g
    BY <1>1
  <1>8. \A f \in flows' : FlowOK(f)'
    BY <1>1, <1>3, <1>5, <1>6
  <1>9. \A v : S!Held(v)' = S!Held(v)
    BY <1>2 DEF S!Held
  <1>10. QED
    BY <1>2, <1>7, <1>8, <1>9 DEF SessionInv

LEMMA SignOutSession ==
  ASSUME SessionInv, S!SignOut
  PROVE  SessionInv'
  <1>1. /\ ready /\ user # None
        /\ token' = None /\ user' = None /\ workspaces' = {} /\ current' = None /\ ~mixed'
        /\ flows' = {[f EXCEPT !.ours = FALSE] : f \in flows}
        /\ UNCHANGED <<ready, accounts, owner>>
    BY DEF S!SignOut
  <1>2. ASSUME NEW g \in flows'
        PROVE  FlowOK(g)' /\ ~g.ours
    <2>1. PICK f \in flows : g = [f EXCEPT !.ours = FALSE]
      BY <1>1
    <2>2. FlowOK(f) /\ f.kind # "open" /\ f.step \notin {"register", "login", "me"}
      BY <1>1 DEF SessionInv, FlowOK
    <2>3. /\ g.kind = f.kind /\ g.ours = FALSE /\ g.step = f.step /\ g.at = f.at
          /\ g.who = f.who /\ g.seen = f.seen
      BY <2>1 DEF S!Held
    <2>4. \A v : S!Held(v)' = S!Held(v)
      BY <1>1 DEF S!Held
    <2>5. g.step = "list" /\ g.at = "answered" => g.who # None /\ g.seen \subseteq S!Held(g.who)'
      BY <2>2, <2>3, <2>4 DEF FlowOK
    <2>6. g.kind \in {"signin", "create"} /\ g.step \in (IF g.kind = "signin" THEN {"list"} ELSE {"create", "list"})
      BY <2>2, <2>3 DEF FlowOK
    <2>7. QED
      BY <2>3, <2>5, <2>6 DEF FlowOK
  <1>3. QED
    BY <1>1, <1>2 DEF SessionInv

LEMMA CreateSession ==
  ASSUME SessionInv, S!CreateWorkspace
  PROVE  SessionInv'
  <1>1. /\ ready /\ user # None
        /\ flows' = flows \cup {S!Begin("create", "create", token)}
        /\ UNCHANGED <<ready, user, workspaces, current, token, saved, accounts, owner, mixed>>
    BY DEF S!CreateWorkspace
  <1>2. PICK new : new = S!Begin("create", "create", token)
    OBVIOUS
  <1>3. /\ new.kind = "create" /\ new.ours = TRUE /\ new.step = "create" /\ new.who = token
        /\ new.made = None /\ new.at = "sent"
    BY <1>2 DEF S!Begin
  <1>4. FlowOK(new)'
    BY <1>1, <1>3 DEF SessionInv, FlowOK
  <1>5. ASSUME NEW f \in flows
        PROVE  FlowOK(f)'
    BY <1>1 DEF SessionInv, FlowOK, S!Held
  <1>6. \A f, g \in flows' : f.kind = "signin" /\ f.ours /\ g.kind = "signin" /\ g.ours => f = g
    BY <1>1, <1>2, <1>3 DEF SessionInv
  <1>7. \A f \in flows' : FlowOK(f)'
    BY <1>1, <1>2, <1>4, <1>5
  <1>8. \A v : S!Held(v)' = S!Held(v)
    BY <1>1 DEF S!Held
  <1>9. QED
    BY <1>1, <1>6, <1>7, <1>8 DEF SessionInv

LEMMA SwitchSession ==
  ASSUME SessionInv, S!SwitchWorkspace
  PROVE  SessionInv'
  <1>1. /\ ready /\ user # None /\ current' \in workspaces
        /\ UNCHANGED <<ready, user, workspaces, token, flows, accounts, owner, mixed>>
    BY DEF S!SwitchWorkspace
  <1>2. ASSUME NEW f \in flows
        PROVE  FlowOK(f)'
    BY <1>1 DEF SessionInv, FlowOK, S!Held
  <1>3. QED
    BY <1>1, <1>2 DEF SessionInv, S!Held

\* A flow that goes on as a flow which is fine keeps the invariant: the others
\* are as they were, if what they speak of is.
LEMMA OneFlow ==
  ASSUME SessionInv, NEW f \in flows, NEW g, flows' = (flows \ {f}) \cup {g},
         FlowOK(g)', g.kind = f.kind, g.ours = f.ours,
         UNCHANGED <<ready, workspaces, current, mixed>>,
         \A w \in Workspaces : owner[w] # None => owner'[w] = owner[w],
         \/ UNCHANGED <<user, token>>
         \/ f.step \in {"login", "me"} /\ f.kind \in {"signin", "open"}
  PROVE  /\ \A h \in flows' : FlowOK(h)'
         /\ \A h, k \in flows' : h.kind = "signin" /\ h.ours /\ k.kind = "signin" /\ k.ours => h = k
  <1>1. ASSUME NEW h \in flows, h # f
        PROVE  FlowOK(h)'
    <2>1. FlowOK(h) /\ FlowOK(f)
      BY DEF SessionInv
    <2>2. h.kind # "open" /\ f.kind # "open"
      BY <1>1, <2>1 DEF FlowOK
    <2>3. \A u : u # None => S!Held(u) \subseteq S!Held(u)'
      BY DEF S!Held
    <2>4. CASE UNCHANGED <<user, token>>
      BY <2>1, <2>2, <2>3, <2>4 DEF FlowOK
    <2>5. CASE f.step \in {"login", "me"} /\ f.kind \in {"signin", "open"}
      <3>1. f.kind = "signin" /\ f.ours /\ user = None
        BY <2>1, <2>2, <2>5 DEF FlowOK
      <3>2. ~ (h.kind = "signin" /\ h.ours)
        BY <1>1, <3>1 DEF SessionInv
      <3>3. h.step \notin {"register", "login", "me"} /\ ~h.ours
        BY <2>1, <2>2, <3>1, <3>2 DEF FlowOK
      <3>4. QED
        BY <2>1, <2>2, <2>3, <3>3 DEF FlowOK
    <2>6. QED
      BY <2>4, <2>5
  <1>2. QED
    BY <1>1 DEF SessionInv

\* The server answers a flow, or does not.
LEMMA ServeSession ==
  ASSUME SessionInv, S!TypeOK, NEW f \in flows, S!Serve(f) \/ S!Fail(f)
  PROVE  SessionInv'
  <1>1. PICK g : /\ flows' = (flows \ {f}) \cup {g}
                 /\ \/ g = [f EXCEPT !.at = "answered"] /\ f.step \in {"register", "login", "me"}
                    \/ g = [f EXCEPT !.at = "failed"]
                    \/ /\ g = [[f EXCEPT !.seen = S!Held(f.who)] EXCEPT !.at = "answered"]
                       /\ f.step = "list" /\ f.who # None /\ UNCHANGED owner
                    \/ /\ f.step = "create"
                       /\ \E w \in Workspaces :
                            /\ g = [[f EXCEPT !.made = w] EXCEPT !.at = "answered"]
                            /\ owner' = [owner EXCEPT ![w] = f.who] /\ owner[w] = None
    BY DEF S!Serve, S!ServeAccount, S!ServeList, S!ServeCreate, S!Fail, S!Answered, S!Refused, S!Replace
  <1>2. /\ UNCHANGED <<ready, user, workspaces, current, token, saved, mixed>>
        /\ UNCHANGED owner \/ \E w \in Workspaces : owner[w] = None /\ owner' = [owner EXCEPT ![w] = f.who]
    BY DEF S!Serve, S!ServeAccount, S!ServeList, S!ServeCreate, S!Fail
  <1>3. /\ g.kind = f.kind /\ g.ours = f.ours /\ g.step = f.step /\ g.who = f.who
        /\ g.step = "list" /\ g.at = "answered" => g.who # None /\ g.seen = S!Held(g.who) /\ UNCHANGED owner
        /\ \/ g.made = f.made
           \/ f.step = "create" /\ g.made \in Workspaces /\ owner' = [owner EXCEPT ![g.made] = f.who]
    BY <1>1 DEF S!TypeOK, S!Flow
  <1>4. \A w \in Workspaces : owner[w] # None => owner'[w] = owner[w]
    BY <1>2 DEF S!TypeOK
  <1>5. FlowOK(g)'
    <2>1. FlowOK(f)
      BY DEF SessionInv
    <2>2. f.kind = "open" => flows' = {g}
      BY <1>1, <2>1 DEF FlowOK
    <2>3. g.step = "list" /\ g.at = "answered" => g.who # None /\ g.seen \subseteq S!Held(g.who)'
      BY <1>3 DEF S!Held
    <2>4. f.ours /\ f.step \in {"create", "list"} => g.made \in S!Held(user)' \cup {None}
      <3>1. CASE g.made = f.made
        <4>1. user # None => S!Held(user) \subseteq S!Held(user)'
          BY <1>2, <1>4 DEF S!Held
        <4>2. QED
          BY <2>1, <3>1, <4>1 DEF FlowOK
      <3>2. CASE f.step = "create" /\ g.made \in Workspaces /\ owner' = [owner EXCEPT ![g.made] = f.who]
        BY <1>2, <2>1, <3>2 DEF FlowOK, S!Held, S!TypeOK
      <3>3. QED
        BY <1>3, <3>1, <3>2
    <2>5. QED
      BY <1>2, <1>3, <2>1, <2>2, <2>3, <2>4 DEF FlowOK
  <1>6. /\ \A h \in flows' : FlowOK(h)'
        /\ \A h, k \in flows' : h.kind = "signin" /\ h.ours /\ k.kind = "signin" /\ k.ours => h = k
    BY <1>1, <1>2, <1>3, <1>4, <1>5, OneFlow
  <1>7. user # None => S!Held(user) \subseteq S!Held(user)'
    BY <1>2, <1>4 DEF S!Held
  <1>8. QED
    BY <1>2, <1>6, <1>7 DEF SessionInv

\* A handler goes on after an await.
LEMMA ProceedSession ==
  ASSUME SessionInv, S!TypeOK, NEW f \in flows,
         S!Registered(f) \/ S!LoggedIn(f) \/ S!Known(f) \/ S!Created(f)
  PROVE  SessionInv'
  <1>1. PICK g : /\ flows' = (flows \ {f}) \cup {g}
                 /\ \/ /\ g = [f EXCEPT !.step = "login", !.who = f.who, !.at = "sent"]
                       /\ f.step = "register" /\ UNCHANGED <<token, user>>
                    \/ /\ g = [f EXCEPT !.step = "me", !.who = f.who, !.at = "sent"]
                       /\ f.step = "login" /\ token' = f.who /\ UNCHANGED user
                    \/ /\ g = [f EXCEPT !.step = "list", !.who = token, !.at = "sent"]
                       /\ f.step = "me" /\ user' = f.who /\ UNCHANGED token
                    \/ /\ g = [f EXCEPT !.step = "list", !.who = token, !.at = "sent"]
                       /\ f.step = "create" /\ UNCHANGED <<token, user>>
    BY DEF S!Registered, S!LoggedIn, S!Known, S!Created, S!Proceed, S!Replace
  <1>2. UNCHANGED <<ready, workspaces, current, saved, accounts, owner, mixed>>
    BY DEF S!Registered, S!LoggedIn, S!Known, S!Created
  <1>3. g.kind = f.kind /\ g.ours = f.ours /\ g.made = f.made /\ g.at = "sent"
    BY <1>1 DEF S!TypeOK, S!Flow
  <1>4. FlowOK(f) /\ None \notin Users
    BY NoneAssumption DEF SessionInv
  <1>5. f.kind = "open" => flows' = {g}
    BY <1>1, <1>4 DEF FlowOK
  <1>6. \A v : S!Held(v)' = S!Held(v)
    BY <1>2 DEF S!Held
  <1>7. CASE f.step = "register"
    <2>1. g.step = "login" /\ g.who = f.who /\ UNCHANGED <<token, user>>
      BY <1>1, <1>7 DEF S!TypeOK, S!Flow
    <2>2. FlowOK(g)'
      BY <1>2, <1>3, <1>4, <1>5, <1>7, <2>1 DEF FlowOK
    <2>3. QED
      BY <1>1, <1>2, <1>3, <1>6, <2>1, <2>2, OneFlow DEF SessionInv
  <1>8. CASE f.step = "login"
    <2>1. g.step = "me" /\ g.who = f.who /\ token' = f.who /\ UNCHANGED user
      BY <1>1, <1>8 DEF S!TypeOK, S!Flow
    <2>2. FlowOK(g)'
      BY <1>2, <1>3, <1>4, <1>5, <1>8, <2>1 DEF FlowOK
    <2>3. f.kind \in {"signin", "open"} /\ user = None /\ f.who \in Users
      BY <1>4, <1>8 DEF FlowOK
    <2>4. QED
      BY <1>1, <1>2, <1>3, <1>6, <1>8, <2>1, <2>2, <2>3, OneFlow DEF SessionInv
  <1>9. CASE f.step = "me"
    <2>1. g.step = "list" /\ g.who = token /\ user' = f.who /\ UNCHANGED token
      BY <1>1, <1>9 DEF S!TypeOK, S!Flow
    <2>2. f.kind \in {"signin", "open"} /\ user = None /\ f.who \in Users /\ token = f.who /\ f.made = None
      BY <1>4, <1>9 DEF FlowOK
    <2>3. FlowOK(g)'
      BY <1>2, <1>3, <1>4, <1>5, <1>6, <1>9, <2>1, <2>2 DEF FlowOK
    <2>4. QED
      BY <1>1, <1>2, <1>3, <1>4, <1>6, <1>9, <2>1, <2>2, <2>3, OneFlow DEF SessionInv
  <1>10. CASE f.step = "create"
    <2>1. g.step = "list" /\ g.who = token /\ UNCHANGED <<token, user>>
      BY <1>1, <1>10 DEF S!TypeOK, S!Flow
    <2>2. f.kind = "create"
      BY <1>4, <1>10 DEF FlowOK
    <2>3. f.ours => g.who = user /\ user # None
      BY <1>4, <1>10, <2>1 DEF FlowOK, SessionInv
    <2>4. FlowOK(g)'
      BY <1>2, <1>3, <1>4, <1>6, <1>10, <2>1, <2>2, <2>3 DEF FlowOK
    <2>5. QED
      BY <1>1, <1>2, <1>3, <1>6, <2>1, <2>4, OneFlow DEF SessionInv
  <1>11. QED
    BY <1>1, <1>7, <1>8, <1>9, <1>10

\* A flow ends: reloadWorkspaces shows what was listed, or an error is caught.
LEMMA EndSession ==
  ASSUME SessionInv, S!TypeOK, NEW f \in flows, S!Listed(f) \/ S!FlowFails(f)
  PROVE  SessionInv'
  <1>1. FlowOK(f) /\ flows' = flows \ {f} /\ UNCHANGED <<accounts, owner>>
    BY DEF S!Listed, S!FlowFails, S!Drop, SessionInv
  <1>2. \A v : S!Held(v)' = S!Held(v)
    BY <1>1 DEF S!Held
  <1>3. CASE f.kind = "open"
    <2>1. flows' = {}
      BY <1>1, <1>3 DEF FlowOK
    <2>2. CASE S!FlowFails(f)
      BY <1>1, <1>3, <2>1, <2>2 DEF S!FlowFails, FlowOK, SessionInv
    <2>3. CASE S!Listed(f)
      <3>1. user # None /\ f.seen \subseteq S!Held(user) /\ UNCHANGED <<user, token>>
        BY <1>1, <1>3, <2>3 DEF S!Listed, FlowOK
      <3>2. workspaces' = f.seen /\ current' \in S!Chosen(f.seen)
        BY <1>3, <2>3 DEF S!Listed
      <3>3. current' \in f.seen \cup {None}
        BY <3>2 DEF S!Chosen
      <3>4. QED
        BY <1>2, <2>1, <3>1, <3>2, <3>3 DEF SessionInv
    <2>4. QED
      BY <2>2, <2>3
  <1>4. CASE f.kind # "open"
    <2>1. ASSUME NEW g \in flows, g # f
          PROVE  FlowOK(g) /\ g.kind # "open"
      BY <2>1 DEF FlowOK, SessionInv
    <2>2. UNCHANGED <<user, token>>
      BY <1>4 DEF S!Listed, S!FlowFails
    <2>3. \A g \in flows' : FlowOK(g)'
      BY <1>1, <1>2, <2>1, <2>2 DEF FlowOK
    <2>4. CASE S!FlowFails(f)
      BY <1>1, <1>2, <1>4, <2>2, <2>3, <2>4 DEF S!FlowFails, SessionInv
    <2>5. CASE S!Listed(f)
      <3>1. workspaces' = f.seen /\ mixed' = (mixed \/ ~f.ours)
        BY <2>5 DEF S!Listed
      <3>2. current' \in f.seen \cup {None} \/ (f.kind = "create" /\ current' = f.made)
        BY <2>5 DEF S!Listed, S!Chosen
      <3>3. f.ours => /\ user # None /\ f.seen \subseteq S!Held(user)
                      /\ f.made \in S!Held(user) \cup {None}
        BY <1>1, <2>5 DEF S!Listed, FlowOK
      <3>4. QED
        BY <1>1, <1>2, <2>2, <2>3, <3>1, <3>2, <3>3 DEF SessionInv, FlowOK
    <2>6. QED
      BY <2>4, <2>5
  <1>5. QED
    BY <1>3, <1>4

\* Steps of the other parts do not touch the session.
LEMMA SameSession == SessionInv /\ UNCHANGED sessionVars => SessionInv'
  BY DEF SessionInv, FlowOK, S!Held, sessionVars

LEMMA SessionInvNext == SessionInv /\ S!TypeOK /\ [Next]_vars => SessionInv'
  <1> SUFFICES ASSUME SessionInv, S!TypeOK, [Next]_vars
               PROVE  SessionInv'
    OBVIOUS
  <1>1. CASE UNCHANGED sessionVars
    BY <1>1, SameSession
  <1>2. CASE S!Gesture \/ S!Reload
    BY <1>2, SignInSession, SignOutSession, CreateSession, SwitchSession, ReloadSession DEF S!Gesture
  <1>3. ASSUME NEW f \in flows, S!Serve(f) \/ S!Receive(f) \/ S!Fail(f)
        PROVE  SessionInv'
    BY <1>3, ServeSession, ProceedSession, EndSession DEF S!Receive
  <1>4. QED
    BY <1>1, <1>2, <1>3, SessionSteps DEF SessionNext

\* The invariant and the types of the session hold throughout.
LEMMA SessionAlways == Spec => [](SessionInv /\ S!TypeOK)
  <1>1. Init => SessionInv /\ S!TypeOK
    BY SessionInit, SessionTypeInit
  <1>2. SessionInv /\ S!TypeOK /\ [Next]_vars => (SessionInv /\ S!TypeOK)'
    BY SessionInvNext, SessionSteps, SessionTypeNext
  <1>3. QED
    BY <1>1, <1>2, PTL DEF Spec

\* Whoever is on the screen sends their own token and sees only workspaces of
\* their own, except after a request of an earlier sign-in came back.
THEOREM SessionsStayOnes == Spec => []SessionIsOnes
  <1>1. SessionInv => SessionIsOnes
    BY DEF SessionInv, SessionIsOnes, S!SessionIsOnes
  <1>2. QED
    BY <1>1, SessionAlways, PTL

-----------------------------------------------------------------------------
(* The chat: types.                                                         *)

TurnKinds == {"chat", "agents"}
LiveTurn(c) == c.live /\ c.kind \in TurnKinds

\* One step of the chat view, of its calls or of the server's conversations.
ChatNext ==
  \/ (V!Send \/ V!NewChat \/ V!OpenConversation \/ \E d \in Docs : V!Attach(d)) /\ current \in Workspaces
  \/ \E c \in chatCalls : V!Answer(c) \/ V!Receive(c) \/ V!ServeAttach(c) \/ V!Fail(c)
  \/ V!Leave
  \/ V!Enter /\ current' \in Workspaces

\* Every step of the client is one of the chat or leaves it as it was.
LEMMA ChatSteps == S!TypeOK /\ S!TypeOK' /\ [Next]_vars => ChatNext \/ UNCHANGED chatVars
  <1> SUFFICES ASSUME S!TypeOK, S!TypeOK', [Next]_vars, ~UNCHANGED chatVars
               PROVE  ChatNext
    OBVIOUS
  <1>1. On("chat") => current \in Workspaces
    BY DEF On, Screen, S!TypeOK
  <1>2. (Screen[1] = "chat")' => current' \in Workspaces
    BY DEF Screen, S!TypeOK
  <1>3. Remount => ChatNext
    BY <1>2 DEF Remount, ChatNext
  <1>4. CASE Gesture
    BY <1>1, <1>3, <1>4 DEF Gesture, UseSession, ReloadPage, UseLibrary, ShowView, UseChat, UseAttach, UseBell, ChatNext
  <1>5. CASE AnswerLibrary \/ Poll \/ \E s \in BellSlots : AnswerBell(s)
    BY <1>5 DEF AnswerLibrary, Poll, AnswerBell
  <1>6. CASE AnswerChat \/ Fail
    BY <1>6 DEF AnswerChat, Fail, ChatNext
  <1>7. CASE AnswerSession
    BY <1>3, <1>7 DEF AnswerSession
  <1>8. QED
    BY <1>4, <1>5, <1>6, <1>7 DEF Next, vars

\* What is true of a call of the chat view, and of the view's one open turn.
CallOK(c) ==
  /\ c.kind \in TurnKinds => c.of \in 1..asked
  /\ ~c.live => c.at = "sent" /\ c.kind \in {"chat", "agents", "attach"}
  /\ c.at = "revealing" => c.kind \in TurnKinds
  /\ c.kind = "open" => c.conv \in 1..MaxQuestions
  /\ LiveTurn(c) => busy

CallsInv ==
  /\ \A c \in chatCalls : CallOK(c)
  /\ \A c, d \in chatCalls : LiveTurn(c) /\ LiveTurn(d) => c = d

\* A field of a call that changes keeps the call's type.
LEMMA CallTypes ==
  ASSUME NEW c \in V!Call
  PROVE  /\ [c EXCEPT !.live = FALSE] \in V!Call
         /\ \A a \in {"sent", "answered", "failed", "revealing"} : [c EXCEPT !.at = a] \in V!Call
         /\ \A k \in 1..MaxQuestions : [c EXCEPT !.conv = k] \in V!Call
         /\ \A l \in Seq(1..MaxQuestions) : [c EXCEPT !.log = l] \in V!Call
         /\ \A q \in SUBSET (1..MaxQuestions) : [c EXCEPT !.seen = q] \in V!Call
         /\ \A s \in ChatSlots : [c EXCEPT !.live = FALSE, !.slot = s] \in V!Call
  BY DEF V!Call, V!Questions, V!Ids

LEMMA RequestType ==
  ASSUME NEW s \in ChatSlots, NEW kind \in {"chat", "agents", "open", "list", "attach"},
         NEW w \in Workspaces, NEW k \in (1..MaxQuestions) \cup {None},
         NEW n \in (1..MaxQuestions) \cup {None}, NEW d \in Docs \cup {None}
  PROVE  V!Request(s, kind, w, k, n, d) \in V!Call
  BY DEF V!Request, V!Call, V!Questions, V!Ids

LEMMA ChatSlot == V!Free # {} => V!Slot \in ChatSlots
  <1> SUFFICES ASSUME V!Free # {} PROVE V!Slot \in ChatSlots
    OBVIOUS
  <1>1. V!Free \in SUBSET Nat /\ V!Free \subseteq ChatSlots
    BY BoundsAssumption DEF V!Free
  <1>2. QED
    BY <1>1, SlotChosen DEF V!Slot

\* Settling a bubble keeps the sequence of bubbles.
LEMMA SettledType ==
  ASSUME V!TypeOK, NEW n, NEW shown \in (1..MaxQuestions) \cup {None},
         NEW st \in {"streaming", "answered", "error"}
  PROVE  /\ V!Settled(n, shown, st) \in Seq(V!Turn \cup V!Note)
         /\ DOMAIN V!Settled(n, shown, st) = DOMAIN messages
         /\ \A i \in DOMAIN messages :
              V!Settled(n, shown, st)[i] =
                IF messages[i].own /\ messages[i].of = n
                THEN [messages[i] EXCEPT !.shows = shown, !.st = st] ELSE messages[i]
  <1> DEFINE Bubble == V!Turn \cup V!Note
  <1>1. messages \in Seq(Bubble) /\ DOMAIN messages = 1..Len(messages) /\ Len(messages) \in Nat
    BY DEF V!TypeOK
  <1>2. ASSUME NEW i \in DOMAIN messages, messages[i].own
        PROVE  [messages[i] EXCEPT !.shows = shown, !.st = st] \in Bubble
    <2>1. messages[i] \in V!Turn \cup V!Note
      BY <1>1
    <2>2. messages[i] \in V!Turn
      BY <1>2, <2>1 DEF V!Note
    <2>3. QED
      BY <2>2 DEF V!Turn, V!Questions
  <1>3. \A i \in DOMAIN messages : messages[i] \in Bubble
    BY <1>1
  <1>4. V!Settled(n, shown, st) \in [1..Len(messages) -> Bubble]
    BY <1>1, <1>2, <1>3 DEF V!Settled
  <1>5. V!Settled(n, shown, st) \in Seq(Bubble)
    BY <1>1, <1>4, SeqDef
  <1>6. DOMAIN V!Settled(n, shown, st) = DOMAIN messages
    BY DEF V!Settled
  <1>7. ASSUME NEW i \in DOMAIN messages
        PROVE  V!Settled(n, shown, st)[i] =
                IF messages[i].own /\ messages[i].of = n
                THEN [messages[i] EXCEPT !.shows = shown, !.st = st] ELSE messages[i]
    BY DEF V!Settled
  <1>8. QED
    BY <1>5, <1>6, <1>7

\* The chat starts with the right types and keeps them.
LEMMA ChatTypeInit == Init => V!TypeOK
  <1> SUFFICES ASSUME Init PROVE V!TypeOK
    OBVIOUS
  <1> USE DEF V!Ids, V!Questions
  <1>1. V!Init
    BY DEF Init
  <1>2. messages \in Seq(V!Turn \cup V!Note)
    BY <1>1 DEF V!Init
  <1>3. turns \in [1..MaxQuestions -> Seq(1..MaxQuestions)] /\ asked \in 0..MaxQuestions
    BY <1>1, BoundsAssumption DEF V!Init
  <1>4. QED
    BY <1>1, <1>2, <1>3 DEF V!Init, V!TypeOK

LEMMA ChatTypeGesture ==
  ASSUME V!TypeOK, current \in Workspaces,
         V!Send \/ V!NewChat \/ V!OpenConversation \/ \E d \in Docs : V!Attach(d)
  PROVE  V!TypeOK'
  <1> USE DEF V!TypeOK, V!Ids, V!Questions, V!screen
  <1>1. CASE V!Send
    <2>1. PICK kind \in {"chat", "agents"} :
            /\ V!Free # {} /\ asked < MaxQuestions /\ asked' = asked + 1 /\ here' = here \cup {asked'}
            /\ messages' = Append(messages, V!Sending(asked')) /\ busy' = TRUE
            /\ chatCalls' = chatCalls \cup {V!Request(V!Slot, kind, current, conversationId, asked', None)}
            /\ crossed' = (crossed \/ V!Awaited({"open"}))
            /\ UNCHANGED <<conversationId, chatUploading, conversations, turns, home, refused>>
      BY <1>1 DEF V!Send
    <2>2. asked' \in 1..MaxQuestions
      BY <2>1, BoundsAssumption
    <2>3. V!Sending(asked') \in V!Turn
      BY <2>2 DEF V!Sending, V!Turn
    <2>4. messages' \in Seq(V!Turn \cup V!Note)
      BY <2>1, <2>3, AppendProperties
    <2>5. chatCalls' \subseteq V!Call
      BY <2>1, <2>2, ChatSlot, RequestType
    <2>6. crossed' \in BOOLEAN
      BY <2>1 DEF V!Awaited
    <2>7. QED
      BY <2>1, <2>2, <2>4, <2>5, <2>6
  <1>2. CASE V!NewChat
    BY <1>2 DEF V!NewChat, V!Awaited
  <1>3. CASE V!OpenConversation
    <2>1. PICK k \in conversations :
            /\ V!Free # {} /\ conversationId' = k
            /\ chatCalls' = chatCalls \cup {V!Request(V!Slot, "open", current, k, None, None)}
      BY <1>3 DEF V!OpenConversation
    <2>2. V!Request(V!Slot, "open", current, k, None, None) \in V!Call
      BY <2>1, ChatSlot, RequestType
    <2>3. chatCalls' \subseteq V!Call
      BY <2>1, <2>2
    <2>4. QED
      BY <1>3, <2>1, <2>3 DEF V!OpenConversation, V!Awaited
  <1>4. ASSUME NEW d \in Docs, V!Attach(d)
        PROVE  V!TypeOK'
    <2>1. V!Request(V!Slot, "attach", current, None, None, d) \in V!Call
      BY <1>4, ChatSlot, RequestType DEF V!Attach
    <2>2. chatCalls' \subseteq V!Call
      BY <1>4, <2>1 DEF V!Attach
    <2>3. QED
      BY <1>4, <2>2 DEF V!Attach
  <1>5. QED
    BY <1>1, <1>2, <1>3, <1>4

LEMMA ChatTypeServe ==
  ASSUME V!TypeOK, NEW c \in chatCalls, CallOK(c),
         V!Answer(c) \/ V!ServeAttach(c) \/ V!Fail(c)
  PROVE  V!TypeOK'
  <1> USE DEF V!TypeOK, V!Ids, V!Questions, V!screen
  <1>1. c \in V!Call
    OBVIOUS
  <1>2. \A d \in V!Call : V!Answered(c, d) \subseteq V!Call
    <2> SUFFICES ASSUME NEW d \in V!Call
                 PROVE  V!Answered(c, d) \subseteq V!Call
      OBVIOUS
    <2>1. [d EXCEPT !.at = "answered"] \in V!Call
      BY CallTypes
    <2>2. QED
      BY <2>1 DEF V!Answered, V!Replace, V!Drop
  <1>3. CASE V!ServeTurn(c)
    <2>1. PICK k \in 1..MaxQuestions :
            /\ turns' = [turns EXCEPT ![k] = Append(@, c.of)]
            /\ home' = [home EXCEPT ![k] = IF c.conv = None THEN c.ws ELSE @]
            /\ chatCalls' = V!Answered(c, [c EXCEPT !.conv = k])
      BY <1>3 DEF V!ServeTurn
    <2>2. c.of \in 1..MaxQuestions /\ c.ws \in Workspaces
      BY <1>1, <1>3, BoundsAssumption DEF V!ServeTurn, CallOK, TurnKinds, V!Call
    <2>3. Append(turns[k], c.of) \in Seq(1..MaxQuestions)
      BY <2>2, AppendProperties
    <2>4. turns' \in [1..MaxQuestions -> Seq(1..MaxQuestions)]
      BY <2>1, <2>3
    <2>5. home' \in [1..MaxQuestions -> Workspaces \cup {None}]
      BY <2>1, <2>2
    <2>6. chatCalls' \subseteq V!Call
      BY <1>1, <1>2, <2>1, CallTypes
    <2>7. QED
      BY <1>3, <2>4, <2>5, <2>6 DEF V!ServeTurn
  <1>4. CASE V!ServeRefusal(c)
    <2>1. chatCalls' \subseteq V!Call
      BY <1>1, <1>2, <1>4 DEF V!ServeRefusal
    <2>2. c.of \in 1..MaxQuestions
      BY <1>1, <1>4, BoundsAssumption DEF V!ServeRefusal, CallOK, TurnKinds
    <2>3. QED
      BY <1>4, <2>1, <2>2 DEF V!ServeRefusal
  <1>5. CASE V!ServeRead(c)
    <2>1. c.kind = "open" => turns[c.conv] \in Seq(1..MaxQuestions)
      BY DEF CallOK
    <2>2. {k \in 1..MaxQuestions : home[k] = c.ws} \in SUBSET (1..MaxQuestions)
      OBVIOUS
    <2>3. chatCalls' \subseteq V!Call
      <3>1. CASE c.kind = "open"
        BY <1>1, <1>2, <1>5, <2>1, <3>1, CallTypes DEF V!ServeRead
      <3>2. CASE c.kind # "open"
        BY <1>1, <1>2, <1>5, <2>2, <3>2, CallTypes DEF V!ServeRead
      <3>3. QED
        BY <3>1, <3>2
    <2>4. QED
      BY <1>5, <2>3 DEF V!ServeRead
  <1>6. CASE V!ServeAttach(c)
    <2>1. chatCalls' \subseteq V!Call
      BY <1>1, <1>2, <1>6 DEF V!ServeAttach
    <2>2. QED
      BY <1>6, <2>1 DEF V!ServeAttach
  <1>7. CASE V!Fail(c)
    <2>1. [c EXCEPT !.at = "failed"] \in V!Call
      BY <1>1, CallTypes
    <2>2. V!Free # {} => [c EXCEPT !.live = FALSE, !.slot = V!Slot] \in V!Call
      BY <1>1, ChatSlot, CallTypes
    <2>3. chatCalls' \subseteq V!Call
      BY <1>7, <2>1, <2>2 DEF V!Fail, V!Replace, V!Drop
    <2>4. QED
      BY <1>7, <2>3 DEF V!Fail
  <1>8. QED
    BY <1>3, <1>4, <1>5, <1>6, <1>7 DEF V!Answer

LEMMA ChatTypeReceive ==
  ASSUME V!TypeOK, NEW c \in chatCalls, CallOK(c), V!Receive(c)
  PROVE  V!TypeOK'
  <1> USE DEF V!TypeOK, V!Ids, V!Questions, V!screen
  <1>1. c \in V!Call /\ c.of \in (1..MaxQuestions) \cup {None} /\ c.conv \in (1..MaxQuestions) \cup {None}
    BY DEF V!Call
  <1>2. \A a \in {"sent", "answered", "failed", "revealing"} : V!Replace(c, [c EXCEPT !.at = a]) \subseteq V!Call
    BY <1>1, CallTypes DEF V!Replace
  <1>3. CASE V!ReceiveTurn(c)
    <2>1. messages' \in Seq(V!Turn \cup V!Note)
      BY <1>1, <1>3, SettledType DEF V!ReceiveTurn
    <2>2. chatCalls' \subseteq V!Call
      BY <1>2, <1>3 DEF V!ReceiveTurn
    <2>3. QED
      BY <1>1, <1>3, <2>1, <2>2 DEF V!ReceiveTurn
  <1>4. CASE V!Revealed(c)
    <2>1. messages' \in Seq(V!Turn \cup V!Note)
      BY <1>1, <1>4, SettledType DEF V!Revealed
    <2>2. V!Request(c.slot, "list", c.ws, None, None, None) \in V!Call
      BY <1>1, RequestType DEF V!Call
    <2>3. chatCalls' \subseteq V!Call
      BY <1>4, <2>2 DEF V!Revealed, V!Replace
    <2>4. QED
      BY <1>4, <2>1, <2>3 DEF V!Revealed
  <1>5. CASE V!ReceiveConversation(c)
    <2>1. PICK log \in Seq(1..MaxQuestions) : log = c.log
      BY <1>1 DEF V!Call
    <2>2. ASSUME NEW i \in 1..Len(log)
          PROVE  [of |-> log[i], own |-> FALSE, shows |-> log[i], st |-> "answered"] \in V!Turn
      <3>1. log[i] \in 1..MaxQuestions
        BY <2>1, ElementOfSeq
      <3>2. QED
        BY <3>1 DEF V!Turn
    <2>3. messages' \in [1..Len(log) -> V!Turn \cup V!Note]
      BY <1>5, <2>1, <2>2 DEF V!ReceiveConversation
    <2>4. messages' \in Seq(V!Turn \cup V!Note)
      <3>1. Len(log) \in Nat
        BY <2>1
      <3>2. QED
        BY <2>3, <3>1, SeqDef
    <2>5. QED
      BY <1>5, <2>4 DEF V!ReceiveConversation, V!Drop
  <1>6. CASE V!ReceiveList(c)
    BY <1>1, <1>6 DEF V!ReceiveList, V!Drop, V!Call
  <1>7. CASE V!ReceiveAttach(c)
    <2>1. V!System \in V!Note
      BY DEF V!System, V!Note
    <2>2. messages' \in Seq(V!Turn \cup V!Note)
      BY <1>7, <2>1, AppendProperties DEF V!ReceiveAttach
    <2>3. QED
      BY <1>7, <2>2 DEF V!ReceiveAttach, V!Drop
  <1>8. CASE V!ReceiveFailure(c)
    <2>1. messages' \in Seq(V!Turn \cup V!Note)
      <3>1. V!Settled(c.of, None, "error") \in Seq(V!Turn \cup V!Note)
        BY SettledType
      <3>2. QED
        BY <1>8, <3>1 DEF V!ReceiveFailure
    <2>2. QED
      BY <1>8, <2>1 DEF V!ReceiveFailure, V!Drop
  <1>9. QED
    BY <1>3, <1>4, <1>5, <1>6, <1>7, <1>8 DEF V!Receive

LEMMA ChatTypeMount ==
  ASSUME V!TypeOK, V!Leave \/ (V!Enter /\ current' \in Workspaces)
  PROVE  V!TypeOK'
  <1> USE DEF V!TypeOK, V!Ids, V!Questions, V!screen
  <1>1. V!Orphans \subseteq V!Call
    BY CallTypes DEF V!Orphans
  <1>2. chatCalls' \subseteq V!Call
    <2>1. CASE V!Leave
      BY <1>1, <2>1 DEF V!Leave
    <2>2. CASE V!Enter /\ current' \in Workspaces
      <3>1. V!Request(V!Slot, "list", current', None, None, None) \in V!Call
        BY <2>2, ChatSlot, RequestType DEF V!Enter
      <3>2. QED
        BY <1>1, <2>2, <3>1 DEF V!Enter
    <2>3. QED
      BY <2>1, <2>2
  <1>3. V!Reset
    BY DEF V!Leave, V!Enter
  <1>4. messages' \in Seq(V!Turn \cup V!Note)
    BY <1>3 DEF V!Reset
  <1>5. QED
    BY <1>2, <1>3, <1>4 DEF V!Reset

-----------------------------------------------------------------------------
(* The chat: answers find their bubbles.                                    *)

\* The view waits for the answer to question n.
Waiting(n) == \E c \in chatCalls : LiveTurn(c) /\ c.of = n

BubblesInv ==
  \A i \in DOMAIN messages :
    /\ messages[i].st = "answered" => messages[i].shows = messages[i].of
    /\ messages[i].st = "streaming" =>
         messages[i].own /\ messages[i].shows \in {None, messages[i].of} /\ Waiting(messages[i].of)

\* A call that goes on, or one that ends and is no turn of the view, changes
\* nothing for the others.
LEMMA CallReplaced ==
  ASSUME CallsInv, NEW c \in chatCalls, NEW g, chatCalls' = (chatCalls \ {c}) \cup {g},
         g.kind = c.kind, g.live = c.live, g.of = c.of, CallOK(g)', UNCHANGED <<busy, asked>>
  PROVE  CallsInv' /\ \A n : Waiting(n) => Waiting(n)'
  <1>1. \A d \in chatCalls' : CallOK(d)'
    BY DEF CallsInv, CallOK
  <1>2. LiveTurn(g) <=> LiveTurn(c)
    BY DEF LiveTurn
  <1>3. \A d, e \in chatCalls' : LiveTurn(d) /\ LiveTurn(e) => d = e
    BY <1>2 DEF CallsInv
  <1>4. \A n : Waiting(n) => Waiting(n)'
    BY <1>2 DEF Waiting
  <1>5. QED
    BY <1>1, <1>3, <1>4 DEF CallsInv

LEMMA CallDropped ==
  ASSUME CallsInv, NEW c \in chatCalls, chatCalls' = chatCalls \ {c}, ~LiveTurn(c),
         UNCHANGED <<busy, asked>>
  PROVE  CallsInv' /\ \A n : Waiting(n) => Waiting(n)'
  <1>1. \A d \in chatCalls' : CallOK(d)'
    BY DEF CallsInv, CallOK
  <1>2. QED
    BY <1>1 DEF CallsInv, Waiting

\* A new call that is no turn does not either.
LEMMA CallAdded ==
  ASSUME CallsInv, NEW g, chatCalls' = chatCalls \cup {g}, ~LiveTurn(g), CallOK(g)',
         UNCHANGED <<busy, asked>>
  PROVE  CallsInv' /\ \A n : Waiting(n) => Waiting(n)'
  <1>1. \A d \in chatCalls' : CallOK(d)'
    BY DEF CallsInv, CallOK
  <1>2. QED
    BY <1>1 DEF CallsInv, Waiting

LEMMA SameBubbles ==
  ASSUME BubblesInv, UNCHANGED messages, \A n : Waiting(n) => Waiting(n)'
  PROVE  BubblesInv'
  BY DEF BubblesInv

\* An answered call, if the view still waits for it, goes on with the answer.
LEMMA AnsweredCall ==
  ASSUME NEW c \in chatCalls, NEW d \in V!Call, chatCalls' = V!Answered(c, d)
  PROVE  /\ ~c.live => chatCalls' = chatCalls \ {c}
         /\ c.live => \E g : /\ chatCalls' = (chatCalls \ {c}) \cup {g} /\ g.at = "answered"
                             /\ g.kind = d.kind /\ g.live = d.live /\ g.of = d.of /\ g.ws = d.ws
                             /\ g.doc = d.doc /\ g.conv = d.conv /\ g.log = d.log /\ g.seen = d.seen
  <1>1. CASE c.live
    <2>1. PICK g : g = [d EXCEPT !.at = "answered"]
      OBVIOUS
    <2>2. /\ g.at = "answered" /\ g.kind = d.kind /\ g.live = d.live /\ g.of = d.of /\ g.ws = d.ws
          /\ g.doc = d.doc /\ g.conv = d.conv /\ g.log = d.log /\ g.seen = d.seen
      BY <2>1 DEF V!Call
    <2>3. chatCalls' = (chatCalls \ {c}) \cup {g}
      BY <1>1, <2>1 DEF V!Answered, V!Replace
    <2>4. QED
      BY <1>1, <2>2, <2>3
  <1>2. QED
    BY <1>1 DEF V!Answered, V!Drop

\* The server answers a call.
LEMMA ServedTurn ==
  ASSUME V!TypeOK, NEW c \in chatCalls, V!ServeTurn(c)
  PROVE  \E k \in 1..MaxQuestions :
           /\ c.conv # None => k = c.conv
           /\ c.conv = None => home[k] = None
           /\ turns' = [turns EXCEPT ![k] = Append(@, c.of)]
           /\ home' = [home EXCEPT ![k] = IF c.conv = None THEN c.ws ELSE @]
           /\ ~c.live => chatCalls' = chatCalls \ {c}
           /\ c.live => \E g : /\ chatCalls' = (chatCalls \ {c}) \cup {g} /\ g.at = "answered" /\ g.conv = k
                               /\ g.kind = c.kind /\ g.live = c.live /\ g.of = c.of /\ g.seen = c.seen
  <1> USE DEF V!Ids, V!Questions
  <1>1. PICK k \in 1..MaxQuestions :
          /\ IF c.conv # None THEN k = c.conv
             ELSE home[k] = None /\ \A j \in 1..MaxQuestions : home[j] = None => k <= j
          /\ turns' = [turns EXCEPT ![k] = Append(@, c.of)]
          /\ home' = [home EXCEPT ![k] = IF c.conv = None THEN c.ws ELSE @]
          /\ chatCalls' = V!Answered(c, [c EXCEPT !.conv = k])
    BY DEF V!ServeTurn
  <1>2. PICK d : d = [c EXCEPT !.conv = k]
    OBVIOUS
  <1>3. c \in V!Call
    BY DEF V!TypeOK
  <1>4. d \in V!Call /\ d.kind = c.kind /\ d.live = c.live /\ d.of = c.of /\ d.conv = k /\ d.seen = c.seen
    <2>1. d \in V!Call
      BY <1>2, <1>3, CallTypes
    <2>2. QED
      BY <1>2, <1>3, <2>1 DEF V!Call
  <1>5. chatCalls' = V!Answered(c, d)
    BY <1>1, <1>2
  <1>6. /\ ~c.live => chatCalls' = chatCalls \ {c}
        /\ c.live => \E g : /\ chatCalls' = (chatCalls \ {c}) \cup {g} /\ g.at = "answered"
                            /\ g.kind = d.kind /\ g.live = d.live /\ g.of = d.of /\ g.ws = d.ws
                            /\ g.doc = d.doc /\ g.conv = d.conv /\ g.log = d.log /\ g.seen = d.seen
    BY <1>4, <1>5, AnsweredCall
  <1>7. QED
    BY <1>1, <1>4, <1>6

LEMMA ServedRead ==
  ASSUME V!TypeOK, NEW c \in chatCalls, CallOK(c), V!ServeRead(c)
  PROVE  /\ c.live
         /\ \E g : /\ chatCalls' = (chatCalls \ {c}) \cup {g} /\ g.at = "answered" /\ g.conv = c.conv
                   /\ g.kind = c.kind /\ g.live = c.live /\ g.of = c.of
                   /\ c.kind = "open" => g.log = turns[c.conv] /\ g.seen = c.seen
                   /\ c.kind # "open" => g.seen = {k \in 1..MaxQuestions : home[k] = c.ws}
  <1> USE DEF V!Ids, V!Questions
  <1>1. c \in V!Call /\ c.live /\ c.kind \in {"open", "list"}
    BY DEF V!TypeOK, V!ServeRead, CallOK
  <1>2. PICK d : d = IF c.kind = "open" THEN [c EXCEPT !.log = turns[c.conv]]
                     ELSE [c EXCEPT !.seen = {k \in 1..MaxQuestions : home[k] = c.ws}]
    OBVIOUS
  <1>3. d \in V!Call
    <2>1. CASE c.kind = "open"
      <3>1. turns[c.conv] \in Seq(1..MaxQuestions)
        BY <2>1 DEF CallOK, V!TypeOK
      <3>2. QED
        BY <1>1, <1>2, <2>1, <3>1, CallTypes
    <2>2. CASE c.kind # "open"
      BY <1>1, <1>2, <2>2, CallTypes
    <2>3. QED
      BY <2>1, <2>2
  <1>4. /\ d.kind = c.kind /\ d.live = c.live /\ d.of = c.of /\ d.conv = c.conv
        /\ c.kind = "open" => d.log = turns[c.conv] /\ d.seen = c.seen
        /\ c.kind # "open" => d.seen = {k \in 1..MaxQuestions : home[k] = c.ws}
    BY <1>1, <1>2 DEF V!Call
  <1>5. chatCalls' = V!Answered(c, d)
    BY <1>2 DEF V!ServeRead
  <1>6. \E g : /\ chatCalls' = (chatCalls \ {c}) \cup {g} /\ g.at = "answered"
               /\ g.kind = d.kind /\ g.live = d.live /\ g.of = d.of /\ g.ws = d.ws
               /\ g.doc = d.doc /\ g.conv = d.conv /\ g.log = d.log /\ g.seen = d.seen
    BY <1>1, <1>3, <1>5, AnsweredCall
  <1>7. QED
    BY <1>1, <1>4, <1>6

LEMMA ServedAsIs ==
  ASSUME V!TypeOK, NEW c \in chatCalls, V!ServeRefusal(c) \/ V!ServeAttach(c)
  PROVE  /\ ~c.live => chatCalls' = chatCalls \ {c}
         /\ c.live => \E g : /\ chatCalls' = (chatCalls \ {c}) \cup {g} /\ g.at = "answered"
                             /\ g.conv = c.conv /\ g.kind = c.kind /\ g.live = c.live /\ g.of = c.of
                             /\ g.seen = c.seen
  BY AnsweredCall DEF V!ServeRefusal, V!ServeAttach, V!TypeOK

\* A call fails, or its answer is lost while the server goes on with an orphan.
LEMMA FailedCall ==
  ASSUME V!TypeOK, NEW c \in chatCalls, CallOK(c), V!Fail(c)
  PROVE  /\ ~c.live => chatCalls' = chatCalls \ {c}
         /\ c.live => \E g :
              /\ g.at = "failed" /\ g.conv = c.conv /\ g.kind = c.kind /\ g.live = c.live /\ g.of = c.of
              /\ g.seen = c.seen
              /\ \/ chatCalls' = (chatCalls \ {c}) \cup {g}
                 \/ \E o : /\ chatCalls' = ((chatCalls \ {c}) \cup {g}) \cup {o} /\ c.kind \in TurnKinds
                           /\ o.at = "sent" /\ ~o.live /\ o.kind = c.kind /\ o.of = c.of /\ o.conv = c.conv
                           /\ o.seen = c.seen
  <1>1. c \in V!Call
    BY DEF V!TypeOK
  <1>2. PICK g, o : g = [c EXCEPT !.at = "failed"] /\ o = [c EXCEPT !.live = FALSE, !.slot = V!Slot]
    OBVIOUS
  <1>3. /\ g.at = "failed" /\ g.conv = c.conv /\ g.kind = c.kind /\ g.live = c.live /\ g.of = c.of
        /\ o.at = c.at /\ ~o.live /\ o.kind = c.kind /\ o.of = c.of /\ o.conv = c.conv
        /\ g.seen = c.seen /\ o.seen = c.seen
    BY <1>1, <1>2 DEF V!Call
  <1>4. CASE ~c.live
    BY <1>4 DEF V!Fail, V!Drop
  <1>5. CASE c.live
    <2>1. \/ chatCalls' = (chatCalls \ {c}) \cup {g}
          \/ chatCalls' = ((chatCalls \ {c}) \cup {g}) \cup {o} /\ c.at = "sent" /\ c.kind \in TurnKinds
      BY <1>2, <1>5 DEF V!Fail, V!Replace, TurnKinds
    <2>2. QED
      BY <1>3, <1>5, <2>1
  <1>6. QED
    BY <1>4, <1>5

-----------------------------------------------------------------------------
(* The chat: what is continued is what is shown.                            *)

Stored(k) == IF k = None THEN {} ELSE {turns[k][i] : i \in DOMAIN turns[k]}
LogOf(c)  == {c.log[i] : i \in DOMAIN c.log}
ShownSet  == {messages[i].of : i \in DOMAIN messages}
DoneSet   == {messages[i].of : i \in V!Shown("answered")}

\* The screen shows conversation k, as far as its user knows.
Follows(k) == DoneSet \ refused \subseteq Stored(k) /\ Stored(k) \cap here \subseteq ShownSet

LiveOpen(c) == c.live /\ c.kind = "open"

\* What is true of a call whose answer the screen waits for, unless the user
\* has crossed it.
ScreenOK(c) ==
  /\ LiveOpen(c) =>
       /\ conversationId = c.conv
       /\ c.at = "answered" => LogOf(c) \subseteq Stored(c.conv) /\ Stored(c.conv) \cap here \subseteq LogOf(c)
  /\ LiveTurn(c) =>
       /\ c.of \in ShownSet
       /\ c.at = "sent" => c.conv = conversationId
       /\ c.at = "answered" =>
            /\ c.of \in refused \/ c.of \in Stored(c.conv)
            /\ c.conv # None => Follows(c.conv)
       /\ c.at = "revealing" => c.of \in refused \/ c.of \in Stored(conversationId)

Continued ==
  /\ \A c, d \in chatCalls : (LiveTurn(c) \/ LiveOpen(c)) /\ (LiveTurn(d) \/ LiveOpen(d)) => c = d
  /\ (\A c \in chatCalls : ~LiveOpen(c)) => Follows(conversationId)
  /\ \A c \in chatCalls : ScreenOK(c)

ScreenInv == ~crossed => Continued

\* An orphan's question is not one of the view's, or its failure is on the way.
OrphansInv ==
  \A c \in chatCalls : ~c.live /\ c.kind \in TurnKinds =>
    c.of \notin here \/ \E d \in chatCalls : LiveTurn(d) /\ d.at = "failed" /\ d.of = c.of

\* A conversation that nobody began is empty and known to nobody.
Begun(k) == k = None \/ home[k] # None
ThreadsInv ==
  /\ \A k \in 1..MaxQuestions : home[k] = None => turns[k] = <<>>
  /\ Begun(conversationId) /\ \A k \in conversations : Begun(k)
  /\ \A c \in chatCalls : Begun(c.conv) /\ \A k \in c.seen : Begun(k)

\* Calls that nobody waits for come and go without changing what is continued,
\* nor do bubbles that are added.
LEMMA ScreenBeside ==
  ASSUME ScreenInv, UNCHANGED <<conversationId, crossed, here, turns>>, refused \subseteq refused',
         ShownSet \subseteq ShownSet', DoneSet' \subseteq DoneSet,
         \A d \in chatCalls' : LiveTurn(d) \/ LiveOpen(d) => d \in chatCalls,
         \A d \in chatCalls : LiveOpen(d) => d \in chatCalls'
  PROVE  ScreenInv'
  <1>1. \A k : Follows(k) => Follows(k)'
    BY DEF Follows, Stored
  <1>2. ASSUME NEW d \in chatCalls, ScreenOK(d)
        PROVE  ScreenOK(d)'
    BY <1>1, <1>2 DEF ScreenOK, Stored
  <1>3. ASSUME NEW d \in chatCalls', ~ (LiveTurn(d) \/ LiveOpen(d))
        PROVE  ScreenOK(d)'
    BY <1>3 DEF ScreenOK
  <1>4. ~crossed => \A d \in chatCalls' : ScreenOK(d)'
    BY <1>2, <1>3 DEF ScreenInv, Continued
  <1>5. QED
    BY <1>1, <1>4 DEF ScreenInv, Continued

\* A call the screen waits for goes on.
LEMMA ScreenReplaced ==
  ASSUME ScreenInv, UNCHANGED <<messages, conversationId, crossed, here, turns>>,
         refused \subseteq refused',
         NEW c \in chatCalls, NEW g, chatCalls' = (chatCalls \ {c}) \cup {g},
         g.kind = c.kind, g.live = c.live, ~crossed => ScreenOK(g)'
  PROVE  ScreenInv'
  <1> USE DEF ScreenInv, Continued, Follows, Stored, ShownSet, DoneSet, V!Shown
  <1>1. ASSUME NEW d \in chatCalls, ScreenOK(d)
        PROVE  ScreenOK(d)'
    BY <1>1 DEF ScreenOK
  <1>2. ~crossed => \A d \in chatCalls' : ScreenOK(d)'
    BY <1>1
  <1>3. (LiveTurn(g) <=> LiveTurn(c)) /\ (LiveOpen(g) <=> LiveOpen(c))
    BY DEF LiveTurn, LiveOpen
  <1>4. QED
    BY <1>2, <1>3

\* Orphans come and go; the failures of the view's own turns stay.
LEMMA OrphansKept ==
  ASSUME OrphansInv, here' \subseteq here,
         \A o \in chatCalls' : ~o.live /\ o.kind \in TurnKinds => o \in chatCalls,
         \A d \in chatCalls : LiveTurn(d) /\ d.at = "failed" => d \in chatCalls'
  PROVE  OrphansInv'
  BY DEF OrphansInv

ChatInv == CallsInv /\ BubblesInv /\ OrphansInv /\ ThreadsInv /\ ScreenInv

-----------------------------------------------------------------------------
(* The user's gestures keep the invariant. *)

LEMMA SendKeeps ==
  ASSUME V!TypeOK, ChatInv, V!Send
  PROVE  ChatInv'
  <1> USE DEF ChatInv
  <1>1. PICK g :
          /\ ~busy /\ asked' = asked + 1 /\ here' = here \cup {asked'} /\ busy' = TRUE
          /\ messages' = Append(messages, V!Sending(asked'))
          /\ \E kind \in TurnKinds : g = V!Request(V!Slot, kind, current, conversationId, asked', None)
          /\ chatCalls' = chatCalls \cup {g} /\ crossed' = (crossed \/ V!Awaited({"open"}))
          /\ UNCHANGED <<conversationId, conversations, turns, home, refused>>
    BY DEF V!Send, TurnKinds
  <1>2. /\ g.live /\ g.kind \in TurnKinds /\ g.of = asked' /\ g.conv = conversationId /\ g.at = "sent"
        /\ g.seen = {}
    BY <1>1 DEF V!Request
  <1>3. \A d \in chatCalls : ~LiveTurn(d)
    BY <1>1 DEF CallsInv, CallOK
  <1>4. asked \in Nat /\ asked' \in Nat /\ asked < asked' /\ asked' \in 1..asked'
    BY <1>1, BoundsAssumption DEF V!TypeOK
  <1>5. /\ DOMAIN messages' = DOMAIN messages \cup {Len(messages) + 1}
        /\ \A i \in DOMAIN messages : messages'[i] = messages[i]
        /\ messages'[Len(messages) + 1] = V!Sending(asked')
    <2>1. messages \in Seq(V!Turn \cup V!Note) /\ V!Sending(asked') \in {V!Sending(asked')}
      BY DEF V!TypeOK
    <2>2. messages \in Seq((V!Turn \cup V!Note) \cup {V!Sending(asked')})
      BY <2>1
    <2>3. QED
      BY <1>1, <2>1, <2>2, AppendProperties
  <1>6. CallsInv'
    <2>1. ASSUME NEW d \in chatCalls PROVE CallOK(d)'
      BY <1>1, <1>3, <1>4 DEF CallsInv, CallOK, LiveTurn
    <2>2. CallOK(g)'
      BY <1>1, <1>2, <1>4 DEF CallOK, LiveTurn, TurnKinds
    <2>3. QED
      BY <1>1, <1>3, <2>1, <2>2 DEF CallsInv, LiveTurn
  <1>7. BubblesInv'
    <2>1. PICK n : n = asked'
      OBVIOUS
    <2>2. Waiting(n)'
      BY <1>1, <1>2, <2>1 DEF Waiting, LiveTurn
    <2>3. \A i \in DOMAIN messages : messages[i].st # "streaming"
      BY <1>3 DEF BubblesInv, Waiting
    <2>4. \A i \in DOMAIN messages :
            messages'[i].st = "answered" => messages'[i].shows = messages'[i].of
      BY <1>5 DEF BubblesInv
    <2>5. messages'[Len(messages) + 1] = [of |-> n, own |-> TRUE, shows |-> None, st |-> "streaming"]
      BY <1>5, <2>1 DEF V!Sending
    <2>6. QED
      BY <1>5, <2>2, <2>3, <2>4, <2>5 DEF BubblesInv
  <1>8. OrphansInv'
    <2>1. ASSUME NEW d \in chatCalls', ~d.live, d.kind \in TurnKinds
          PROVE  d.of \notin here'
      <3>1. d \in chatCalls /\ d.of \notin here
        BY <1>1, <1>2, <1>3, <2>1 DEF OrphansInv
      <3>2. d.of \in 1..asked
        BY <2>1, <3>1 DEF CallsInv, CallOK
      <3>3. QED
        BY <1>1, <1>4, <3>1, <3>2
    <2>2. QED
      BY <2>1 DEF OrphansInv
  <1>9. ThreadsInv'
    BY <1>1, <1>2 DEF ThreadsInv, Begun
  <1>10. ScreenInv'
    <2> SUFFICES ASSUME ~crossed' PROVE Continued'
      BY DEF ScreenInv
    <2>1. ~crossed /\ \A d \in chatCalls : ~LiveOpen(d) /\ ~LiveTurn(d)
      BY <1>1, <1>3 DEF V!Awaited, LiveOpen
    <2>2. \A d \in chatCalls' : LiveTurn(d) \/ LiveOpen(d) => d = g
      BY <1>1, <2>1
    <2>3. ShownSet' = ShownSet \cup {asked'} /\ DoneSet' = DoneSet
      BY <1>5 DEF ShownSet, DoneSet, V!Shown, V!Sending
    <2>4. Follows(conversationId)'
      BY <1>1, <2>1, <2>3 DEF ScreenInv, Continued, Follows, Stored
    <2>5. ScreenOK(g)'
      BY <1>1, <1>2, <2>3 DEF ScreenOK, LiveOpen, TurnKinds
    <2>6. \A d \in chatCalls' : ScreenOK(d)'
      BY <2>2, <2>5 DEF ScreenOK
    <2>7. QED
      BY <2>2, <2>4, <2>6 DEF Continued
  <1>11. QED
    BY <1>6, <1>7, <1>8, <1>9, <1>10

LEMMA NewChatKeeps ==
  ASSUME ChatInv, V!NewChat
  PROVE  ChatInv'
  <1> USE DEF ChatInv
  <1>1. /\ messages' = <<>> /\ conversationId' = None /\ crossed' = V!Awaited(V!Turning)
        /\ UNCHANGED <<busy, conversations, here, chatCalls, turns, home, asked, refused>>
    BY DEF V!NewChat
  <1>2. CallsInv' /\ OrphansInv' /\ ThreadsInv'
    BY <1>1 DEF CallsInv, CallOK, OrphansInv, ThreadsInv, Begun
  <1>3. BubblesInv'
    BY <1>1 DEF BubblesInv
  <1>4. ScreenInv'
    <2> SUFFICES ASSUME ~crossed' PROVE Continued'
      BY DEF ScreenInv
    <2>1. \A d \in chatCalls' : ~LiveTurn(d) /\ ~LiveOpen(d)
      BY <1>1 DEF V!Awaited, V!Turning, LiveTurn, LiveOpen, TurnKinds
    <2>2. Follows(conversationId)'
      BY <1>1 DEF Follows, Stored, DoneSet, V!Shown
    <2>3. QED
      BY <2>1, <2>2 DEF ScreenOK, Continued
  <1>5. QED
    BY <1>2, <1>3, <1>4

LEMMA OpenKeeps ==
  ASSUME V!TypeOK, ChatInv, V!OpenConversation
  PROVE  ChatInv'
  <1> USE DEF ChatInv
  <1>1. PICK k \in conversations :
          /\ conversationId' = k /\ crossed' = V!Awaited(V!Turning)
          /\ chatCalls' = chatCalls \cup {V!Request(V!Slot, "open", current, k, None, None)}
          /\ UNCHANGED <<messages, busy, conversations, here, turns, home, asked, refused>>
    BY DEF V!OpenConversation
  <1>2. PICK g :
          /\ conversationId' = k /\ crossed' = V!Awaited(V!Turning)
          /\ g = V!Request(V!Slot, "open", current, k, None, None) /\ chatCalls' = chatCalls \cup {g}
          /\ UNCHANGED <<messages, busy, conversations, here, turns, home, asked, refused>>
    BY <1>1
  <1>3. /\ g.live /\ g.kind = "open" /\ g.conv = k /\ g.at = "sent" /\ g.seen = {}
        /\ k \in 1..MaxQuestions /\ ~LiveTurn(g)
    BY <1>2 DEF V!Request, V!TypeOK, V!Ids, LiveTurn, TurnKinds
  <1>4. CallOK(g)'
    BY <1>2, <1>3 DEF CallOK, TurnKinds, LiveTurn
  <1>5. CallsInv' /\ \A n : Waiting(n) => Waiting(n)'
    BY <1>2, <1>3, <1>4, CallAdded
  <1>6. BubblesInv'
    BY <1>2, <1>5, SameBubbles
  <1>7. OrphansInv'
    BY <1>2, <1>3, OrphansKept
  <1>8. ThreadsInv'
    BY <1>2, <1>3 DEF ThreadsInv, Begun
  <1>9. ScreenInv'
    <2> SUFFICES ASSUME ~crossed' PROVE Continued'
      BY DEF ScreenInv
    <2>1. \A d \in chatCalls' : LiveTurn(d) \/ LiveOpen(d) => d = g
      BY <1>2 DEF V!Awaited, V!Turning, LiveTurn, LiveOpen, TurnKinds
    <2>2. ScreenOK(g)' /\ LiveOpen(g)
      BY <1>2, <1>3 DEF ScreenOK, LiveOpen
    <2>3. \A d \in chatCalls' : ScreenOK(d)'
      BY <2>1, <2>2 DEF ScreenOK
    <2>4. QED
      BY <1>2, <2>1, <2>2, <2>3 DEF Continued
  <1>10. QED
    BY <1>5, <1>6, <1>7, <1>8, <1>9

LEMMA AttachKeeps ==
  ASSUME ChatInv, NEW d \in Docs, V!Attach(d)
  PROVE  ChatInv'
  <1> USE DEF ChatInv
  <1>1. PICK g : g = V!Request(V!Slot, "attach", current, None, None, d) /\ chatCalls' = chatCalls \cup {g}
    BY DEF V!Attach
  <1>2. UNCHANGED <<conversationId, messages, busy, conversations, here, crossed, turns, home, asked, refused>>
    BY DEF V!Attach
  <1>3. /\ g.live /\ g.kind = "attach" /\ g.conv = None /\ g.at = "sent" /\ g.seen = {}
        /\ ~LiveTurn(g) /\ ~LiveOpen(g)
    BY <1>1 DEF V!Request, LiveTurn, LiveOpen, TurnKinds
  <1>4. CallOK(g)'
    BY <1>2, <1>3 DEF CallOK, TurnKinds, LiveTurn
  <1>5. CallsInv' /\ \A n : Waiting(n) => Waiting(n)'
    BY <1>1, <1>2, <1>3, <1>4, CallAdded
  <1>6. BubblesInv'
    BY <1>2, <1>5, SameBubbles
  <1>7. OrphansInv'
    BY <1>1, <1>2, <1>3, OrphansKept
  <1>8. ThreadsInv'
    BY <1>1, <1>2, <1>3 DEF ThreadsInv, Begun
  <1>9. ScreenInv'
    <2>1. ShownSet' = ShownSet /\ DoneSet' = DoneSet
      BY <1>2 DEF ShownSet, DoneSet, V!Shown
    <2>2. QED
      BY <1>1, <1>2, <1>3, <2>1, ScreenBeside
  <1>10. QED
    BY <1>5, <1>6, <1>7, <1>8, <1>9

-----------------------------------------------------------------------------
(* The server's steps keep the invariant. *)

\* What the view or the server does for one call, which is of no turn that
\* has failed, leaves the other calls as they are.
LEMMA OneCall ==
  ASSUME ChatInv, NEW c \in chatCalls, UNCHANGED <<messages, busy, asked, here>>,
         \/ chatCalls' = chatCalls \ {c} /\ ~LiveTurn(c)
         \/ \E g : /\ chatCalls' = (chatCalls \ {c}) \cup {g} /\ g.kind = c.kind /\ g.live = c.live
                   /\ g.of = c.of /\ CallOK(g)' /\ c.live /\ c.at # "failed"
  PROVE  CallsInv' /\ BubblesInv' /\ OrphansInv'
  <1> USE DEF ChatInv
  <1>1. CASE chatCalls' = chatCalls \ {c} /\ ~LiveTurn(c)
    <2>1. CallsInv' /\ \A n : Waiting(n) => Waiting(n)'
      BY <1>1, CallDropped
    <2>2. QED
      BY <1>1, <2>1, SameBubbles, OrphansKept
  <1>2. ASSUME NEW g, chatCalls' = (chatCalls \ {c}) \cup {g}, g.kind = c.kind, g.live = c.live,
               g.of = c.of, CallOK(g)', c.live, c.at # "failed"
        PROVE  CallsInv' /\ BubblesInv' /\ OrphansInv'
    <2>1. CallsInv' /\ \A n : Waiting(n) => Waiting(n)'
      BY <1>2, CallReplaced
    <2>2. OrphansInv'
      BY <1>2, OrphansKept
    <2>3. QED
      BY <2>1, <2>2, SameBubbles
  <1>3. QED
    BY <1>1, <1>2

\* A turn is stored in one conversation, and in no other.
LEMMA StoredTurn ==
  ASSUME V!TypeOK, NEW k \in 1..MaxQuestions, NEW n \in 1..MaxQuestions,
         turns' = [turns EXCEPT ![k] = Append(@, n)]
  PROVE  /\ Stored(k)' = Stored(k) \cup {n}
         /\ \A j \in (1..MaxQuestions) \cup {None} : j # k => Stored(j)' = Stored(j)
  <1> USE DEF V!TypeOK, V!Ids, V!Questions
  <1>1. turns[k] \in Seq(1..MaxQuestions)
    OBVIOUS
  <1>2. PICK s : s = turns[k]
    OBVIOUS
  <1>3. /\ DOMAIN Append(s, n) = DOMAIN s \cup {Len(s) + 1}
        /\ \A i \in DOMAIN s : Append(s, n)[i] = s[i]
        /\ Append(s, n)[Len(s) + 1] = n
    BY <1>1, <1>2, AppendProperties
  <1>4. {Append(s, n)[i] : i \in DOMAIN Append(s, n)} = {s[i] : i \in DOMAIN s} \cup {n}
    BY <1>3
  <1>5. turns'[k] = Append(s, n) /\ \A j \in 1..MaxQuestions : j # k => turns'[j] = turns[j]
    BY <1>2
  <1>6. k # None
    BY NoneAssumption
  <1>7. Stored(k)' = Stored(k) \cup {n}
    <2>1. Stored(k) = {s[i] : i \in DOMAIN s}
      BY <1>2, <1>6 DEF Stored
    <2>2. PICK a : a = Append(s, n)
      OBVIOUS
    <2>3. Stored(k)' = {a[i] : i \in DOMAIN a}
      BY <1>5, <1>6, <2>2 DEF Stored
    <2>4. QED
      BY <1>4, <2>1, <2>2, <2>3
  <1>8. \A j \in (1..MaxQuestions) \cup {None} : j # k => Stored(j)' = Stored(j)
    BY <1>5 DEF Stored
  <1>9. QED
    BY <1>7, <1>8

LEMMA ServeTurnKeeps ==
  ASSUME V!TypeOK, ChatInv, NEW c \in chatCalls, V!ServeTurn(c)
  PROVE  ChatInv'
  <1> USE DEF ChatInv
  <1>1. c.kind \in TurnKinds /\ c.at = "sent" /\ UNCHANGED <<conversationId, messages, busy, conversations, here, crossed, asked, refused>>
    BY DEF V!ServeTurn, V!screen, TurnKinds
  <1>2. PICK k \in 1..MaxQuestions :
          /\ c.conv # None => k = c.conv
          /\ c.conv = None => home[k] = None
          /\ turns' = [turns EXCEPT ![k] = Append(@, c.of)]
          /\ home' = [home EXCEPT ![k] = IF c.conv = None THEN c.ws ELSE @]
          /\ ~c.live => chatCalls' = chatCalls \ {c}
          /\ c.live => \E g : /\ chatCalls' = (chatCalls \ {c}) \cup {g} /\ g.at = "answered" /\ g.conv = k
                              /\ g.kind = c.kind /\ g.live = c.live /\ g.of = c.of /\ g.seen = c.seen
    BY ServedTurn
  <1>3. /\ c.of \in 1..MaxQuestions /\ c.ws # None /\ c.conv \in (1..MaxQuestions) \cup {None}
        /\ conversationId \in (1..MaxQuestions) \cup {None}
        /\ \A d \in chatCalls : d.conv \in (1..MaxQuestions) \cup {None}
    BY <1>1, BoundsAssumption, NoneAssumption DEF CallsInv, CallOK, V!TypeOK, V!Call, V!Ids, V!Questions, TurnKinds
  <1>4. /\ Stored(k)' = Stored(k) \cup {c.of}
        /\ \A j \in (1..MaxQuestions) \cup {None} : j # k => Stored(j)' = Stored(j)
    BY <1>2, <1>3, StoredTurn
  <1>5. /\ \A j \in 1..MaxQuestions : home'[j] = None => home[j] = None /\ j # k
        /\ \A j \in 1..MaxQuestions : j # k => turns'[j] = turns[j]
        /\ home'[k] # None
    <2>1. home[k] # None \/ c.conv = None
      BY <1>2 DEF ThreadsInv, Begun
    <2>2. QED
      BY <1>2, <1>3, <2>1 DEF V!TypeOK, V!Ids
  <1>6. \A j \in (1..MaxQuestions) \cup {None} : Begun(j) => Begun(j)'
    BY <1>5 DEF Begun
  <1>7. CASE ~c.live
    <2>1. CallsInv' /\ BubblesInv' /\ OrphansInv'
      BY <1>1, <1>2, <1>7, OneCall DEF LiveTurn
    <2>2. ThreadsInv'
      BY <1>1, <1>2, <1>3, <1>5, <1>6, <1>7 DEF ThreadsInv, V!TypeOK, V!Call, V!Ids
    <2>3. ScreenInv'
      <3> SUFFICES ASSUME ~crossed' PROVE Continued'
        BY DEF ScreenInv
      <3>1. c.of \notin here \/ \E d \in chatCalls : LiveTurn(d) /\ d.of = c.of
        BY <1>1, <1>7 DEF OrphansInv
      <3>2. Continued /\ ShownSet' = ShownSet /\ DoneSet' = DoneSet
        BY <1>1 DEF ScreenInv, ShownSet, DoneSet, V!Shown
      <3>3. c.of \notin here \/ c.of \in ShownSet
        BY <3>1, <3>2 DEF Continued, ScreenOK
      <3>4. \A j \in (1..MaxQuestions) \cup {None} : Follows(j) => Follows(j)'
        BY <1>1, <1>4, <3>2, <3>3 DEF Follows
      <3>5. ASSUME NEW d \in chatCalls'
            PROVE  ScreenOK(d)'
        <4>1. d \in chatCalls /\ ScreenOK(d) /\ d.conv \in (1..MaxQuestions) \cup {None}
          BY <1>2, <1>3, <1>7, <3>2, <3>5 DEF Continued
        <4>2. LiveOpen(d) => c.of \notin here
          BY <3>1, <3>2, <4>1 DEF Continued, LiveOpen, LiveTurn, TurnKinds
        <4>3. LiveOpen(d) => conversationId' = d.conv /\
                 (d.at = "answered" => LogOf(d) \subseteq Stored(d.conv)' /\ Stored(d.conv)' \cap here' \subseteq LogOf(d))
          BY <1>1, <1>4, <4>1, <4>2 DEF ScreenOK
        <4>4. Stored(d.conv) \subseteq Stored(d.conv)' /\ Stored(conversationId) \subseteq Stored(conversationId)'
          BY <1>1, <1>3, <1>4, <4>1
        <4>5. QED
          BY <1>1, <3>2, <3>4, <4>1, <4>3, <4>4 DEF ScreenOK
      <3>6. QED
        BY <1>1, <1>2, <1>3, <1>7, <3>2, <3>4, <3>5 DEF Continued, LiveOpen
    <2>4. QED
      BY <2>1, <2>2, <2>3
  <1>8. CASE c.live
    <2>1. PICK g : /\ chatCalls' = (chatCalls \ {c}) \cup {g} /\ g.at = "answered" /\ g.conv = k
                   /\ g.kind = c.kind /\ g.live = c.live /\ g.of = c.of /\ g.seen = c.seen
      BY <1>2, <1>8
    <2>2. CallOK(g)'
      BY <1>1, <1>8, <2>1 DEF CallsInv, CallOK, LiveTurn, TurnKinds
    <2>3. CallsInv' /\ BubblesInv' /\ OrphansInv'
      BY <1>1, <1>8, <2>1, <2>2, OneCall
    <2>4. ThreadsInv'
      <3>1. Begun(g.conv)' /\ \A j \in g.seen : Begun(j)'
        BY <1>2, <1>5, <1>6, <2>1 DEF ThreadsInv, Begun, V!TypeOK, V!Call, V!Ids
      <3>2. \A d \in chatCalls : Begun(d.conv)' /\ \A j \in d.seen : Begun(j)'
        BY <1>3, <1>6 DEF ThreadsInv, V!TypeOK, V!Call, V!Ids
      <3>3. Begun(conversationId)' /\ \A j \in conversations' : Begun(j)'
        BY <1>1, <1>3, <1>6 DEF ThreadsInv, V!TypeOK, V!Ids
      <3>4. \A j \in 1..MaxQuestions : home'[j] = None => turns'[j] = <<>>
        BY <1>5 DEF ThreadsInv
      <3>5. QED
        BY <2>1, <3>1, <3>2, <3>3, <3>4 DEF ThreadsInv
    <2>5. ScreenInv'
      <3> SUFFICES ASSUME ~crossed' PROVE Continued'
        BY DEF ScreenInv
      <3>1. Continued /\ ShownSet' = ShownSet /\ DoneSet' = DoneSet /\ LiveTurn(c)
        BY <1>1, <1>8 DEF ScreenInv, ShownSet, DoneSet, V!Shown, LiveTurn
      <3>2. /\ c.of \in ShownSet /\ c.conv = conversationId /\ Follows(conversationId)
            /\ \A d \in chatCalls : LiveTurn(d) \/ LiveOpen(d) => d = c
        BY <1>1, <3>1 DEF Continued, ScreenOK, LiveOpen, LiveTurn, TurnKinds
      <3>3. Follows(k)'
        <4>1. CASE c.conv = None
          <5>1. Stored(k) = {} /\ DoneSet \ refused = {}
            BY <1>2, <3>2, <4>1 DEF ThreadsInv, Follows, Stored
          <5>2. QED
            BY <1>1, <1>4, <3>1, <3>2, <5>1 DEF Follows
        <4>2. CASE c.conv # None
          BY <1>1, <1>2, <1>4, <3>1, <3>2, <4>2 DEF Follows
        <4>3. QED
          BY <4>1, <4>2
      <3>4. Follows(conversationId)'
        BY <1>1, <1>2, <1>4, <3>1, <3>2, <3>3 DEF Follows, Stored
      <3>5. ScreenOK(g)'
        BY <1>1, <1>4, <2>1, <3>1, <3>2, <3>3 DEF ScreenOK, LiveOpen, LiveTurn, TurnKinds
      <3>6. (LiveTurn(g) /\ ~LiveOpen(g)) /\ \A d \in chatCalls' : LiveTurn(d) \/ LiveOpen(d) => d = g
        BY <2>1, <3>1, <3>2 DEF LiveTurn, LiveOpen, TurnKinds
      <3>7. \A d \in chatCalls' : ScreenOK(d)'
        BY <3>5, <3>6 DEF ScreenOK
      <3>8. QED
        BY <3>4, <3>6, <3>7 DEF Continued
    <2>6. QED
      BY <2>3, <2>4, <2>5
  <1>9. QED
    BY <1>7, <1>8

LEMMA ServeRefusalKeeps ==
  ASSUME V!TypeOK, ChatInv, NEW c \in chatCalls, V!ServeRefusal(c)
  PROVE  ChatInv'
  <1> USE DEF ChatInv
  <1>1. /\ c.kind = "agents" /\ c.at = "sent" /\ refused' = refused \cup {c.of}
        /\ UNCHANGED <<conversationId, messages, busy, conversations, here, crossed, turns, home, asked>>
    BY DEF V!ServeRefusal, V!screen
  <1>2. ShownSet' = ShownSet /\ DoneSet' = DoneSet
    BY <1>1 DEF ShownSet, DoneSet, V!Shown
  <1>4. CASE ~c.live
    <2>1. chatCalls' = chatCalls \ {c} /\ ~LiveTurn(c) /\ ~LiveOpen(c)
      BY <1>4, ServedAsIs DEF LiveTurn, LiveOpen
    <2>2. CallsInv' /\ BubblesInv' /\ OrphansInv'
      BY <1>1, <2>1, OneCall
    <2>3. ThreadsInv'
      BY <1>1, <2>1 DEF ThreadsInv, Begun
    <2>4. ScreenInv'
      BY <1>1, <1>2, <2>1, ScreenBeside
    <2>5. QED
      BY <2>2, <2>3, <2>4
  <1>5. CASE c.live
    <2>1. PICK g : /\ chatCalls' = (chatCalls \ {c}) \cup {g} /\ g.at = "answered"
                   /\ g.conv = c.conv /\ g.kind = c.kind /\ g.live = c.live /\ g.of = c.of
                   /\ g.seen = c.seen
      BY <1>5, ServedAsIs
    <2>2. CallOK(g)'
      BY <1>1, <1>5, <2>1 DEF CallsInv, CallOK, LiveTurn, TurnKinds
    <2>3. CallsInv' /\ BubblesInv' /\ OrphansInv'
      BY <1>1, <1>5, <2>1, <2>2, OneCall
    <2>4. ThreadsInv'
      BY <1>1, <2>1 DEF ThreadsInv, Begun
    <2>5. ASSUME ~crossed
          PROVE  ScreenOK(g)'
      <3>1. LiveTurn(c) /\ ~LiveOpen(c)
        BY <1>1, <1>5 DEF LiveTurn, LiveOpen, TurnKinds
      <3>2. ScreenOK(c) /\ Follows(conversationId)
        BY <2>5, <3>1 DEF ScreenInv, Continued
      <3>3. c.of \in ShownSet /\ c.conv = conversationId /\ Follows(conversationId)'
        BY <1>1, <1>2, <3>1, <3>2 DEF ScreenOK, Follows, Stored
      <3>4. QED
        BY <1>1, <1>2, <2>1, <3>1, <3>3 DEF ScreenOK, LiveOpen, LiveTurn
    <2>6. ScreenInv'
      BY <1>1, <2>1, <2>5, ScreenReplaced
    <2>7. QED
      BY <2>3, <2>4, <2>6
  <1>6. QED
    BY <1>4, <1>5

LEMMA ServeReadKeeps ==
  ASSUME V!TypeOK, ChatInv, NEW c \in chatCalls, V!ServeRead(c)
  PROVE  ChatInv'
  <1> USE DEF ChatInv
  <1>1. /\ c.kind \in {"open", "list"} /\ c.at = "sent" /\ CallOK(c) /\ c.ws # None
        /\ UNCHANGED <<conversationId, messages, busy, conversations, here, crossed, turns, home, asked, refused>>
    BY NoneAssumption DEF V!ServeRead, V!screen, CallsInv, V!TypeOK, V!Call
  <1>2. PICK g : /\ chatCalls' = (chatCalls \ {c}) \cup {g} /\ g.at = "answered" /\ g.conv = c.conv
                 /\ g.kind = c.kind /\ g.live = c.live /\ g.of = c.of
                 /\ c.kind = "open" => g.log = turns[c.conv] /\ g.seen = c.seen
                 /\ c.kind # "open" => g.seen = {k \in 1..MaxQuestions : home[k] = c.ws}
    BY <1>1, ServedRead
  <1>3. c.live
    BY <1>1, ServedRead
  <1>4. CallOK(g)'
    BY <1>1, <1>2, <1>3 DEF CallOK, LiveTurn, TurnKinds
  <1>5. CallsInv' /\ BubblesInv' /\ OrphansInv'
    BY <1>1, <1>2, <1>3, <1>4, OneCall
  <1>6. ThreadsInv'
    <2>1. Begun(g.conv)' /\ \A k \in g.seen : Begun(k)'
      BY <1>1, <1>2 DEF ThreadsInv, Begun
    <2>2. QED
      BY <1>1, <1>2, <2>1 DEF ThreadsInv, Begun
  <1>7. ASSUME ~crossed
        PROVE  ScreenOK(g)'
    <2>1. ScreenOK(c) /\ ~LiveTurn(g)
      BY <1>1, <1>2, <1>7 DEF ScreenInv, Continued, LiveTurn, TurnKinds
    <2>2. CASE c.kind = "open"
      <3>1. c.conv \in 1..MaxQuestions /\ c.conv # None
        BY <1>1, <2>2, NoneAssumption DEF CallOK
      <3>2. LogOf(g) = Stored(c.conv)'
        BY <1>1, <1>2, <2>2, <3>1 DEF LogOf, Stored
      <3>3. conversationId = c.conv
        BY <1>3, <2>1, <2>2 DEF ScreenOK, LiveOpen
      <3>4. QED
        BY <1>1, <1>2, <2>1, <3>2, <3>3 DEF ScreenOK
    <2>3. CASE c.kind # "open"
      BY <1>2, <2>1, <2>3 DEF ScreenOK, LiveOpen
    <2>4. QED
      BY <2>2, <2>3
  <1>8. ScreenInv'
    BY <1>1, <1>2, <1>7, ScreenReplaced
  <1>9. QED
    BY <1>5, <1>6, <1>8

LEMMA ServeAttachKeeps ==
  ASSUME V!TypeOK, ChatInv, NEW c \in chatCalls, V!ServeAttach(c)
  PROVE  ChatInv'
  <1> USE DEF ChatInv
  <1>1. /\ c.kind = "attach" /\ c.at = "sent" /\ ~LiveTurn(c) /\ ~LiveOpen(c)
        /\ UNCHANGED <<conversationId, messages, busy, conversations, here, crossed, turns, home, asked, refused>>
    BY DEF V!ServeAttach, V!screen, LiveTurn, LiveOpen, TurnKinds
  <1>3. CASE ~c.live
    <2>1. chatCalls' = chatCalls \ {c} /\ ShownSet' = ShownSet /\ DoneSet' = DoneSet
      BY <1>1, <1>3, ServedAsIs DEF ShownSet, DoneSet, V!Shown
    <2>2. CallsInv' /\ BubblesInv' /\ OrphansInv'
      BY <1>1, <2>1, OneCall
    <2>3. ThreadsInv'
      BY <1>1, <2>1 DEF ThreadsInv, Begun
    <2>4. ScreenInv'
      BY <1>1, <2>1, ScreenBeside
    <2>5. QED
      BY <2>2, <2>3, <2>4
  <1>4. CASE c.live
    <2>1. PICK g : /\ chatCalls' = (chatCalls \ {c}) \cup {g} /\ g.at = "answered"
                   /\ g.conv = c.conv /\ g.kind = c.kind /\ g.live = c.live /\ g.of = c.of
                   /\ g.seen = c.seen
      BY <1>4, ServedAsIs
    <2>2. CallOK(g)' /\ ScreenOK(g)'
      BY <1>1, <1>4, <2>1 DEF CallsInv, CallOK, ScreenOK, LiveTurn, LiveOpen, TurnKinds
    <2>3. CallsInv' /\ BubblesInv' /\ OrphansInv'
      BY <1>1, <1>4, <2>1, <2>2, OneCall
    <2>4. ThreadsInv'
      BY <1>1, <2>1 DEF ThreadsInv, Begun
    <2>5. ScreenInv'
      BY <1>1, <2>1, <2>2, ScreenReplaced
    <2>6. QED
      BY <2>3, <2>4, <2>5
  <1>5. QED
    BY <1>3, <1>4

\* A request fails; the server may go on with it all the same.
LEMMA FailKeeps ==
  ASSUME V!TypeOK, ChatInv, NEW c \in chatCalls, V!Fail(c)
  PROVE  ChatInv'
  <1> USE DEF ChatInv
  <1>1. /\ c.at \in {"sent", "answered"} /\ CallOK(c)
        /\ UNCHANGED <<conversationId, messages, busy, conversations, here, crossed, turns, home, asked, refused>>
    BY DEF V!Fail, V!screen, CallsInv
  <1>2. ShownSet' = ShownSet /\ DoneSet' = DoneSet
    BY <1>1 DEF ShownSet, DoneSet, V!Shown
  <1>4. CASE ~c.live
    <2>1. chatCalls' = chatCalls \ {c} /\ ~LiveTurn(c) /\ ~LiveOpen(c)
      BY <1>1, <1>4, FailedCall DEF LiveTurn, LiveOpen
    <2>2. CallsInv' /\ BubblesInv' /\ OrphansInv'
      BY <1>1, <2>1, OneCall
    <2>3. ThreadsInv'
      BY <1>1, <2>1 DEF ThreadsInv, Begun
    <2>4. ScreenInv'
      BY <1>1, <1>2, <2>1, ScreenBeside
    <2>5. QED
      BY <2>2, <2>3, <2>4
  <1>5. CASE c.live
    <2>1. PICK g :
            /\ g.at = "failed" /\ g.conv = c.conv /\ g.kind = c.kind /\ g.live = c.live /\ g.of = c.of
            /\ g.seen = c.seen
            /\ \/ chatCalls' = (chatCalls \ {c}) \cup {g}
               \/ \E o : /\ chatCalls' = ((chatCalls \ {c}) \cup {g}) \cup {o} /\ c.kind \in TurnKinds
                         /\ o.at = "sent" /\ ~o.live /\ o.kind = c.kind /\ o.of = c.of /\ o.conv = c.conv
                         /\ o.seen = c.seen
      BY <1>1, <1>5, FailedCall
    <2>2. CallOK(g)' /\ (LiveTurn(g) <=> LiveTurn(c)) /\ (LiveOpen(g) <=> LiveOpen(c))
      BY <1>1, <1>5, <2>1 DEF CallOK, LiveTurn, LiveOpen
    <2>3. ASSUME NEW o \in chatCalls', o # g, o \notin chatCalls \ {c}
          PROVE  /\ CallOK(o)' /\ ~LiveTurn(o) /\ ~LiveOpen(o) /\ o.conv = c.conv /\ o.seen = c.seen
                 /\ o.of = c.of /\ LiveTurn(g)
      BY <1>1, <1>5, <2>1, <2>3 DEF CallOK, LiveTurn, LiveOpen, TurnKinds
    <2>4. g \in chatCalls' /\ chatCalls \ {c} \subseteq chatCalls'
      BY <2>1
    <2>5. CallsInv'
      <3>1. \A d \in chatCalls' : CallOK(d)'
        BY <1>1, <2>2, <2>3 DEF CallsInv, CallOK
      <3>2. \A d \in chatCalls' : LiveTurn(d) => d = g \/ (d \in chatCalls /\ d # c)
        BY <2>1, <2>3
      <3>3. QED
        BY <2>2, <3>1, <3>2 DEF CallsInv
    <2>6. \A n : Waiting(n) => Waiting(n)'
      BY <2>1, <2>2, <2>4 DEF Waiting
    <2>7. BubblesInv'
      BY <1>1, <2>6, SameBubbles
    <2>8. OrphansInv'
      <3>1. ASSUME NEW d \in chatCalls', ~d.live, d.kind \in TurnKinds
            PROVE  d.of \notin here' \/ \E e \in chatCalls' : LiveTurn(e) /\ e.at = "failed" /\ e.of = d.of
        <4>1. CASE d \in chatCalls
          BY <1>1, <2>4, <3>1, <4>1 DEF OrphansInv
        <4>2. CASE d \notin chatCalls
          BY <1>5, <2>1, <2>3, <2>4, <3>1, <4>2
        <4>3. QED
          BY <4>1, <4>2
      <3>2. QED
        BY <3>1 DEF OrphansInv
    <2>9. ThreadsInv'
      <3>1. ASSUME NEW d \in chatCalls'
            PROVE  Begun(d.conv)' /\ \A k \in d.seen : Begun(k)'
        BY <1>1, <2>1, <2>3, <3>1 DEF ThreadsInv, Begun
      <3>2. QED
        BY <1>1, <3>1 DEF ThreadsInv, Begun
    <2>10. ScreenInv'
      <3> SUFFICES ASSUME ~crossed' PROVE Continued'
        BY DEF ScreenInv
      <3>1. Continued
        BY <1>1 DEF ScreenInv
      <3>2. \A k : Follows(k) => Follows(k)'
        BY <1>1, <1>2 DEF Follows, Stored
      <3>3. ScreenOK(g)'
        BY <1>1, <1>2, <2>1, <2>2, <3>1 DEF Continued, ScreenOK
      <3>4. ASSUME NEW d \in chatCalls' PROVE ScreenOK(d)'
        <4>1. CASE d \in chatCalls \ {c}
          <5>1. ScreenOK(d)
            BY <3>1, <4>1 DEF Continued
          <5>2. QED
            BY <1>1, <1>2, <3>2, <5>1 DEF ScreenOK, Stored
        <4>2. CASE d \notin chatCalls \ {c}
          BY <2>3, <3>3, <4>2 DEF ScreenOK
        <4>3. QED
          BY <4>1, <4>2
      <3>5. \A d \in chatCalls' : LiveTurn(d) \/ LiveOpen(d) => d = g \/ (d \in chatCalls /\ d # c)
        BY <2>1, <2>3
      <3>6. (\A d \in chatCalls' : ~LiveOpen(d)) => \A d \in chatCalls : ~LiveOpen(d)
        BY <2>2, <2>4
      <3>7. QED
        BY <1>1, <2>2, <3>1, <3>2, <3>4, <3>5, <3>6 DEF Continued
    <2>11. QED
      BY <2>5, <2>7, <2>8, <2>9, <2>10
  <1>6. QED
    BY <1>4, <1>5

-----------------------------------------------------------------------------
(* What the handlers do after their await keeps the invariant. *)

\* Settling a bubble changes neither the questions on the screen nor, but for
\* that bubble, what has been answered.
LEMMA SettledShows ==
  ASSUME V!TypeOK, NEW n \in 1..MaxQuestions, NEW shown \in (1..MaxQuestions) \cup {None},
         NEW st \in {"streaming", "answered", "error"}, messages' = V!Settled(n, shown, st)
  PROVE  /\ DOMAIN messages' = DOMAIN messages
         /\ \A i \in DOMAIN messages :
              /\ messages'[i].of = messages[i].of /\ messages'[i].own = messages[i].own
              /\ messages[i].own /\ messages[i].of = n => messages'[i].shows = shown /\ messages'[i].st = st
              /\ ~ (messages[i].own /\ messages[i].of = n) => messages'[i] = messages[i]
         /\ ShownSet' = ShownSet
         /\ DoneSet' \subseteq DoneSet \cup (IF st = "answered" THEN {n} ELSE {})
  <1>1. /\ DOMAIN messages' = DOMAIN messages
        /\ \A i \in DOMAIN messages :
             messages'[i] = IF messages[i].own /\ messages[i].of = n
                            THEN [messages[i] EXCEPT !.shows = shown, !.st = st] ELSE messages[i]
    BY DEF V!Settled
  <1>2. ASSUME NEW i \in DOMAIN messages
        PROVE  /\ messages'[i].of = messages[i].of /\ messages'[i].own = messages[i].own
               /\ messages[i].own /\ messages[i].of = n => messages'[i].shows = shown /\ messages'[i].st = st
               /\ ~ (messages[i].own /\ messages[i].of = n) => messages'[i] = messages[i]
    <2>1. messages[i] \in V!Turn \cup V!Note
      BY DEF V!TypeOK
    <2>2. PICK m \in V!Turn \cup V!Note : m = messages[i]
      BY <2>1
    <2>3. [m EXCEPT !.shows = shown, !.st = st].of = m.of /\ [m EXCEPT !.shows = shown, !.st = st].own = m.own
      BY <2>2 DEF V!Turn, V!Note
    <2>4. [m EXCEPT !.shows = shown, !.st = st].shows = shown /\ [m EXCEPT !.shows = shown, !.st = st].st = st
      BY <2>2 DEF V!Turn, V!Note
    <2>5. QED
      BY <1>1, <2>2, <2>3, <2>4
  <1>3. ShownSet' = ShownSet
    <2>1. \A i \in DOMAIN messages : messages'[i].of = messages[i].of
      BY <1>2
    <2>2. QED
      BY <1>1, <2>1 DEF ShownSet
  <1>4. DoneSet' \subseteq DoneSet \cup (IF st = "answered" THEN {n} ELSE {})
    <2>1. ASSUME NEW i \in DOMAIN messages, messages'[i].st = "answered"
          PROVE  messages'[i].of \in DoneSet \cup (IF st = "answered" THEN {n} ELSE {})
      <3>1. CASE messages[i].own /\ messages[i].of = n
        BY <1>2, <2>1, <3>1
      <3>2. CASE ~ (messages[i].own /\ messages[i].of = n)
        BY <1>2, <2>1, <3>2 DEF DoneSet, V!Shown
      <3>3. QED
        BY <3>1, <3>2
    <2>2. ASSUME NEW x \in DoneSet'
          PROVE  x \in DoneSet \cup (IF st = "answered" THEN {n} ELSE {})
      <3>1. PICK i \in DOMAIN messages : messages'[i].st = "answered" /\ x = messages'[i].of
        BY <1>1, <2>2 DEF DoneSet, V!Shown
      <3>2. QED
        BY <2>1, <3>1
    <2>3. QED
      BY <2>2
  <1>5. QED
    BY <1>1, <1>2, <1>3, <1>4

LEMMA ReceiveTurnKeeps ==
  ASSUME V!TypeOK, ChatInv, NEW c \in chatCalls, V!ReceiveTurn(c)
  PROVE  ChatInv'
  <1> USE DEF ChatInv
  <1>1. /\ c.kind \in TurnKinds /\ c.at = "answered" /\ CallOK(c) /\ c.live /\ LiveTurn(c)
        /\ conversationId' = IF c.conv # None THEN c.conv ELSE conversationId
        /\ messages' = V!Settled(c.of, c.of, "streaming")
        /\ UNCHANGED <<busy, conversations, here, crossed, turns, home, asked, refused>>
    BY DEF V!ReceiveTurn, CallsInv, CallOK, LiveTurn, TurnKinds
  <1>2. PICK g : g = [c EXCEPT !.at = "revealing"] /\ chatCalls' = (chatCalls \ {c}) \cup {g}
    BY DEF V!ReceiveTurn, V!Replace
  <1>3. /\ g.at = "revealing" /\ g.kind = c.kind /\ g.live = c.live /\ g.of = c.of /\ g.conv = c.conv
        /\ g.seen = c.seen /\ c.of \in 1..MaxQuestions
    <2>1. c \in V!Call /\ c.of \in 1..asked /\ asked \in 0..MaxQuestions
      BY <1>1 DEF V!TypeOK, CallOK
    <2>2. c.of \in 1..MaxQuestions
      BY <2>1, BoundsAssumption
    <2>3. QED
      BY <1>2, <2>1, <2>2 DEF V!Call
  <1>4. CallOK(g)'
    BY <1>1, <1>3 DEF CallOK, LiveTurn, TurnKinds
  <1>5. CallsInv' /\ \A n : Waiting(n) => Waiting(n)'
    BY <1>1, <1>2, <1>3, <1>4, CallReplaced
  <1>6. /\ DOMAIN messages' = DOMAIN messages
        /\ \A i \in DOMAIN messages :
             /\ messages'[i].of = messages[i].of /\ messages'[i].own = messages[i].own
             /\ messages[i].own /\ messages[i].of = c.of =>
                  messages'[i].shows = c.of /\ messages'[i].st = "streaming"
             /\ ~ (messages[i].own /\ messages[i].of = c.of) => messages'[i] = messages[i]
        /\ ShownSet' = ShownSet /\ DoneSet' \subseteq DoneSet
    BY <1>1, <1>3, SettledShows
  <1>7. BubblesInv'
    <2>1. Waiting(c.of)
      BY <1>1 DEF Waiting
    <2>2. QED
      BY <1>5, <1>6, <2>1 DEF BubblesInv
  <1>8. OrphansInv'
    BY <1>1, <1>2, <1>3, OrphansKept
  <1>9. ThreadsInv'
    <2>1. \A d \in chatCalls' : Begun(d.conv) /\ \A k \in d.seen : Begun(k)
      BY <1>2, <1>3 DEF ThreadsInv
    <2>2. conversationId' = None \/ home'[conversationId'] # None
      BY <1>1 DEF ThreadsInv, Begun
    <2>3. QED
      BY <1>1, <2>1, <2>2 DEF ThreadsInv, Begun
  <1>10. ScreenInv'
    <2> SUFFICES ASSUME ~crossed' PROVE Continued'
      BY DEF ScreenInv
    <2>1. Continued /\ ScreenOK(c) /\ \A d \in chatCalls : LiveTurn(d) \/ LiveOpen(d) => d = c
      BY <1>1 DEF ScreenInv, Continued
    <2>2. \A d \in chatCalls : ~LiveOpen(d)
      BY <1>1, <2>1 DEF LiveOpen, TurnKinds
    <2>3. PICK k : k = IF c.conv # None THEN c.conv ELSE conversationId
      OBVIOUS
    <2>4. Follows(k) /\ (c.of \in refused \/ c.of \in Stored(k))
      <3>1. c.conv # None => Follows(c.conv)
        BY <1>1, <2>1 DEF ScreenOK
      <3>2. c.conv = None => Follows(conversationId)
        BY <2>1, <2>2 DEF Continued
      <3>3. c.of \in refused \/ c.of \in Stored(c.conv)
        BY <1>1, <2>1 DEF ScreenOK
      <3>4. c.conv = None => c.of \in refused
        BY <3>3 DEF Stored
      <3>5. QED
        BY <2>3, <3>1, <3>2, <3>3, <3>4
    <2>5. Follows(k)' /\ Stored(k)' = Stored(k) /\ conversationId' = k
      BY <1>1, <1>6, <2>3, <2>4 DEF Follows, Stored
    <2>6. ScreenOK(g)'
      BY <1>1, <1>3, <1>6, <2>1, <2>4, <2>5 DEF ScreenOK, LiveOpen, LiveTurn, TurnKinds
    <2>7. \A d \in chatCalls' : LiveTurn(d) \/ LiveOpen(d) => d = g
      BY <1>2, <2>1
    <2>8. \A d \in chatCalls' : ScreenOK(d)'
      BY <2>6, <2>7 DEF ScreenOK
    <2>9. QED
      BY <2>5, <2>7, <2>8 DEF Continued
  <1>11. QED
    BY <1>5, <1>7, <1>8, <1>9, <1>10

\* A turn ends, answered or failed: nothing streams any more.
LEMMA EndedTurn ==
  ASSUME V!TypeOK, ChatInv, NEW c \in chatCalls, LiveTurn(c),
         NEW shown \in {c.of, None}, NEW st \in {"answered", "error"},
         messages' = V!Settled(c.of, shown, st), st = "answered" => shown = c.of,
         UNCHANGED asked,
         \A d \in chatCalls' : d \in chatCalls \ {c} \/ (CallOK(d)' /\ ~LiveTurn(d))
  PROVE  /\ BubblesInv' /\ CallsInv' /\ \A d \in chatCalls' : ~LiveTurn(d)
         /\ ShownSet' = ShownSet /\ DoneSet' \subseteq DoneSet \cup (IF st = "answered" THEN {c.of} ELSE {})
  <1> USE DEF ChatInv
  <1>1. /\ c.of \in 1..MaxQuestions /\ shown \in (1..MaxQuestions) \cup {None}
        /\ st \in {"streaming", "answered", "error"}
    BY BoundsAssumption DEF V!TypeOK, CallsInv, CallOK, LiveTurn
  <1>2. /\ DOMAIN messages' = DOMAIN messages
        /\ \A i \in DOMAIN messages :
             /\ messages'[i].of = messages[i].of /\ messages'[i].own = messages[i].own
             /\ messages[i].own /\ messages[i].of = c.of => messages'[i].shows = shown /\ messages'[i].st = st
             /\ ~ (messages[i].own /\ messages[i].of = c.of) => messages'[i] = messages[i]
        /\ ShownSet' = ShownSet /\ DoneSet' \subseteq DoneSet \cup (IF st = "answered" THEN {c.of} ELSE {})
    BY <1>1, SettledShows, Zenon
  <1>3. \A n : Waiting(n) => n = c.of
    BY DEF Waiting, CallsInv
  <1>4. BubblesInv'
    BY <1>2, <1>3 DEF BubblesInv
  <1>5. \A d \in chatCalls' : ~LiveTurn(d)
    BY DEF CallsInv
  <1>6. CallsInv'
    BY <1>5 DEF CallsInv, CallOK
  <1>7. QED
    BY <1>2, <1>4, <1>5, <1>6

LEMMA RevealedKeeps ==
  ASSUME V!TypeOK, ChatInv, NEW c \in chatCalls, V!Revealed(c)
  PROVE  ChatInv'
  <1> USE DEF ChatInv
  <1>1. /\ c.at = "revealing" /\ CallOK(c) /\ LiveTurn(c)
        /\ messages' = V!Settled(c.of, c.of, "answered")
        /\ UNCHANGED <<conversationId, conversations, here, crossed, turns, home, asked, refused>>
    BY DEF V!Revealed, CallsInv, CallOK, LiveTurn, TurnKinds
  <1>2. PICK g : /\ g = V!Request(c.slot, "list", c.ws, None, None, None)
                 /\ chatCalls' = (chatCalls \ {c}) \cup {g}
    BY DEF V!Revealed, V!Replace
  <1>3. /\ g.live /\ g.kind = "list" /\ g.conv = None /\ g.at = "sent" /\ g.seen = {}
        /\ ~LiveTurn(g) /\ ~LiveOpen(g)
    BY <1>2 DEF V!Request, LiveTurn, LiveOpen, TurnKinds
  <1>4. CallOK(g)'
    BY <1>3 DEF CallOK, TurnKinds, LiveTurn
  <1>5. /\ BubblesInv' /\ CallsInv' /\ \A d \in chatCalls' : ~LiveTurn(d)
        /\ ShownSet' = ShownSet /\ DoneSet' \subseteq DoneSet \cup {c.of}
    BY <1>1, <1>2, <1>3, <1>4, EndedTurn
  <1>6. OrphansInv'
    <2>1. \A d \in chatCalls : LiveTurn(d) => d.at # "failed"
      BY <1>1 DEF CallsInv
    <2>2. QED
      BY <1>1, <1>2, <1>3, <2>1, OrphansKept
  <1>7. ThreadsInv'
    BY <1>1, <1>2, <1>3 DEF ThreadsInv, Begun
  <1>8. ScreenInv'
    <2> SUFFICES ASSUME ~crossed' PROVE Continued'
      BY DEF ScreenInv
    <2>1. Continued /\ ScreenOK(c) /\ \A d \in chatCalls : LiveTurn(d) \/ LiveOpen(d) => d = c
      BY <1>1 DEF ScreenInv, Continued
    <2>2. Follows(conversationId) /\ (c.of \in refused \/ c.of \in Stored(conversationId))
      BY <1>1, <2>1 DEF Continued, ScreenOK, LiveOpen, LiveTurn, TurnKinds
    <2>3. Follows(conversationId)'
      BY <1>1, <1>5, <2>2 DEF Follows, Stored
    <2>4. \A d \in chatCalls' : ~LiveTurn(d) /\ ~LiveOpen(d)
      BY <1>2, <1>3, <2>1
    <2>5. QED
      BY <2>3, <2>4 DEF Continued, ScreenOK
  <1>9. QED
    BY <1>5, <1>6, <1>7, <1>8

LEMMA ReceiveConversationKeeps ==
  ASSUME V!TypeOK, ChatInv, NEW c \in chatCalls, V!ReceiveConversation(c)
  PROVE  ChatInv'
  <1> USE DEF ChatInv
  <1>1. /\ c.kind = "open" /\ c.at = "answered" /\ c.live /\ chatCalls' = chatCalls \ {c}
        /\ messages' = [i \in DOMAIN c.log |->
                          [of |-> c.log[i], own |-> FALSE, shows |-> c.log[i], st |-> "answered"]]
        /\ UNCHANGED <<conversationId, busy, conversations, here, crossed, turns, home, asked, refused>>
    BY DEF V!ReceiveConversation, V!Drop, CallsInv, CallOK
  <1>2. ~LiveTurn(c) /\ LiveOpen(c)
    BY <1>1 DEF LiveTurn, LiveOpen, TurnKinds
  <1>3. CallsInv'
    BY <1>1, <1>2, CallDropped
  <1>4. BubblesInv'
    BY <1>1 DEF BubblesInv
  <1>5. OrphansInv'
    BY <1>1, <1>2, OrphansKept
  <1>6. ThreadsInv'
    BY <1>1 DEF ThreadsInv, Begun
  <1>7. ScreenInv'
    <2> SUFFICES ASSUME ~crossed' PROVE Continued'
      BY DEF ScreenInv
    <2>1. Continued /\ ScreenOK(c) /\ \A d \in chatCalls : LiveTurn(d) \/ LiveOpen(d) => d = c
      BY <1>1, <1>2 DEF ScreenInv, Continued
    <2>2. /\ conversationId = c.conv
          /\ LogOf(c) \subseteq Stored(c.conv) /\ Stored(c.conv) \cap here \subseteq LogOf(c)
      BY <1>1, <1>2, <2>1 DEF ScreenOK
    <2>3. ShownSet' = LogOf(c) /\ DoneSet' \subseteq LogOf(c)
      BY <1>1 DEF ShownSet, DoneSet, V!Shown, LogOf
    <2>4. Follows(conversationId)'
      BY <1>1, <2>2, <2>3 DEF Follows, Stored
    <2>5. \A d \in chatCalls' : ~LiveTurn(d) /\ ~LiveOpen(d)
      BY <1>1, <2>1
    <2>6. QED
      BY <2>4, <2>5 DEF Continued, ScreenOK
  <1>8. QED
    BY <1>3, <1>4, <1>5, <1>6, <1>7

LEMMA ReceiveListKeeps ==
  ASSUME ChatInv, NEW c \in chatCalls, V!ReceiveList(c)
  PROVE  ChatInv'
  <1> USE DEF ChatInv
  <1>1. /\ c.kind = "list" /\ chatCalls' = chatCalls \ {c} /\ conversations' = c.seen
        /\ ~LiveTurn(c) /\ ~LiveOpen(c)
        /\ UNCHANGED <<conversationId, messages, busy, here, crossed, turns, home, asked, refused>>
    BY DEF V!ReceiveList, V!Drop, LiveTurn, LiveOpen, TurnKinds
  <1>2. ShownSet' = ShownSet /\ DoneSet' = DoneSet
    BY <1>1 DEF ShownSet, DoneSet, V!Shown
  <1>3. CallsInv' /\ BubblesInv' /\ OrphansInv'
    BY <1>1, OneCall
  <1>4. ThreadsInv'
    BY <1>1 DEF ThreadsInv, Begun
  <1>5. ScreenInv'
    BY <1>1, <1>2, ScreenBeside
  <1>6. QED
    BY <1>3, <1>4, <1>5

LEMMA ReceiveAttachKeeps ==
  ASSUME V!TypeOK, ChatInv, NEW c \in chatCalls, V!ReceiveAttach(c)
  PROVE  ChatInv'
  <1> USE DEF ChatInv
  <1>1. /\ c.kind = "attach" /\ chatCalls' = chatCalls \ {c} /\ messages' = Append(messages, V!System)
        /\ ~LiveTurn(c) /\ ~LiveOpen(c)
        /\ UNCHANGED <<conversationId, busy, conversations, here, crossed, turns, home, asked, refused>>
    BY DEF V!ReceiveAttach, V!Drop, LiveTurn, LiveOpen, TurnKinds
  <1>2. PICK m : m = messages'
    OBVIOUS
  <1>3. /\ DOMAIN m = DOMAIN messages \cup {Len(messages) + 1}
        /\ \A i \in DOMAIN messages : m[i] = messages[i]
        /\ m[Len(messages) + 1].st = "system"
    <2>1. V!System \in V!Note /\ V!System.st = "system"
      BY DEF V!System, V!Note
    <2>2. messages \in Seq(V!Turn \cup V!Note) /\ V!System \in V!Turn \cup V!Note
      BY <2>1 DEF V!TypeOK
    <2>3. QED
      BY <1>1, <1>2, <2>1, <2>2, AppendProperties
  <1>4. ShownSet \subseteq ShownSet' /\ DoneSet' \subseteq DoneSet
    BY <1>2, <1>3 DEF ShownSet, DoneSet, V!Shown
  <1>5. CallsInv' /\ \A n : Waiting(n) => Waiting(n)'
    BY <1>1, CallDropped
  <1>6. BubblesInv'
    BY <1>2, <1>3, <1>5 DEF BubblesInv
  <1>7. OrphansInv'
    BY <1>1, OrphansKept
  <1>8. ThreadsInv'
    BY <1>1 DEF ThreadsInv, Begun
  <1>9. ScreenInv'
    BY <1>1, <1>4, ScreenBeside
  <1>10. QED
    BY <1>5, <1>6, <1>7, <1>8, <1>9

LEMMA ReceiveFailureKeeps ==
  ASSUME V!TypeOK, ChatInv, NEW c \in chatCalls, V!ReceiveFailure(c)
  PROVE  ChatInv'
  <1> USE DEF ChatInv
  <1>1. /\ c.at = "failed" /\ c.live /\ chatCalls' = chatCalls \ {c}
        /\ crossed' = (crossed \/ c.kind = "open")
        /\ UNCHANGED <<conversationId, conversations, turns, home, asked, refused>>
    BY DEF V!ReceiveFailure, V!Drop, CallsInv, CallOK
  <1>2. ThreadsInv'
    BY <1>1 DEF ThreadsInv, Begun
  <1>3. CASE c.kind \in TurnKinds
    <2>1. /\ LiveTurn(c) /\ ~LiveOpen(c) /\ messages' = V!Settled(c.of, None, "error")
          /\ here' = here \ {c.of} /\ (crossed' <=> crossed)
      BY <1>1, <1>3 DEF V!ReceiveFailure, LiveTurn, LiveOpen, TurnKinds
    <2>2. /\ BubblesInv' /\ CallsInv' /\ \A d \in chatCalls' : ~LiveTurn(d)
          /\ ShownSet' = ShownSet /\ DoneSet' \subseteq DoneSet
      BY <1>1, <2>1, EndedTurn
    <2>3. OrphansInv'
      <3>1. \A d \in chatCalls : LiveTurn(d) => d.of = c.of
        BY <2>1 DEF CallsInv
      <3>2. QED
        BY <1>1, <2>1, <3>1 DEF OrphansInv
    <2>4. ScreenInv'
      <3> SUFFICES ASSUME ~crossed' PROVE Continued'
        BY DEF ScreenInv
      <3>1. Continued /\ \A d \in chatCalls : LiveTurn(d) \/ LiveOpen(d) => d = c
        BY <2>1 DEF ScreenInv, Continued
      <3>2. Follows(conversationId)
        BY <2>1, <3>1 DEF Continued
      <3>3. Follows(conversationId)'
        BY <1>1, <2>1, <2>2, <3>2 DEF Follows, Stored
      <3>4. \A d \in chatCalls' : ~LiveTurn(d) /\ ~LiveOpen(d)
        BY <1>1, <3>1
      <3>5. QED
        BY <3>3, <3>4 DEF Continued, ScreenOK
    <2>5. QED
      BY <1>2, <2>2, <2>3, <2>4
  <1>4. CASE c.kind \notin TurnKinds
    <2>1. UNCHANGED <<messages, busy, here>> /\ ~LiveTurn(c)
      BY <1>4 DEF V!ReceiveFailure, LiveTurn, TurnKinds
    <2>2. CallsInv' /\ BubblesInv' /\ OrphansInv'
      BY <1>1, <2>1, OneCall
    <2>3. ScreenInv'
      <3>1. CASE c.kind = "open"
        BY <1>1, <3>1 DEF ScreenInv
      <3>2. CASE c.kind # "open"
        <4>1. ShownSet' = ShownSet /\ DoneSet' = DoneSet /\ ~LiveOpen(c)
          BY <2>1, <3>2 DEF ShownSet, DoneSet, V!Shown, LiveOpen
        <4>2. crossed' = crossed
          BY <1>1, <3>2 DEF V!TypeOK
        <4>3. QED
          BY <1>1, <2>1, <4>1, <4>2, ScreenBeside
      <3>3. QED
        BY <3>1, <3>2
    <2>4. QED
      BY <1>2, <2>2, <2>3
  <1>5. QED
    BY <1>3, <1>4

-----------------------------------------------------------------------------
(* Mounting and unmounting. *)

LEMMA MountKeeps ==
  ASSUME V!TypeOK, ChatInv, V!Leave \/ V!Enter
  PROVE  ChatInv'
  <1> USE DEF ChatInv
  <1>1. /\ conversationId' = None /\ messages' = <<>> /\ conversations' = {} /\ here' = {}
        /\ UNCHANGED <<turns, home, asked>>
    BY DEF V!Leave, V!Enter, V!Reset
  <1>2. ASSUME NEW d \in chatCalls'
        PROVE  /\ CallOK(d)' /\ ~LiveTurn(d) /\ ~LiveOpen(d)
               /\ Begun(d.conv)' /\ \A k \in d.seen : Begun(k)'
    <2>1. CASE d \in V!Orphans
      <3>1. PICK c \in chatCalls : /\ c.at = "sent" /\ c.kind \in {"chat", "agents", "attach"}
                                   /\ d = [c EXCEPT !.live = FALSE]
        BY <2>1 DEF V!Orphans
      <3>2. /\ d.at = "sent" /\ d.kind = c.kind /\ ~d.live /\ d.of = c.of /\ d.conv = c.conv
            /\ d.seen = c.seen
        BY <3>1 DEF V!TypeOK, V!Call
      <3>3. Begun(d.conv)' /\ \A k \in d.seen : Begun(k)'
        BY <1>1, <3>2 DEF ThreadsInv, Begun
      <3>4. CallOK(d)' /\ ~LiveTurn(d) /\ ~LiveOpen(d)
        BY <1>1, <3>1, <3>2 DEF CallsInv, CallOK, LiveTurn, LiveOpen, TurnKinds
      <3>5. QED
        BY <3>3, <3>4
    <2>2. CASE d \notin V!Orphans
      <3>1. PICK s, w : d = V!Request(s, "list", w, None, None, None)
        BY <1>2, <2>2 DEF V!Leave, V!Enter
      <3>2. d.live /\ d.kind = "list" /\ d.conv = None /\ d.at = "sent" /\ d.seen = {}
        BY <3>1 DEF V!Request
      <3>3. QED
        BY <3>2 DEF CallOK, LiveTurn, LiveOpen, TurnKinds, Begun
    <2>3. QED
      BY <2>1, <2>2
  <1>3. CallsInv' /\ BubblesInv' /\ OrphansInv'
    BY <1>1, <1>2 DEF CallsInv, BubblesInv, OrphansInv
  <1>4. ThreadsInv'
    BY <1>1, <1>2 DEF ThreadsInv, Begun
  <1>5. ScreenInv'
    <2>1. Follows(conversationId)'
      BY <1>1 DEF Follows, Stored, DoneSet, V!Shown
    <2>2. QED
      BY <1>2, <2>1 DEF ScreenInv, Continued, ScreenOK
  <1>6. QED
    BY <1>3, <1>4, <1>5

LEMMA ChatInit == Init => ChatInv
  <1> SUFFICES ASSUME Init PROVE ChatInv
    OBVIOUS
  <1>1. /\ conversationId = None /\ messages = <<>> /\ conversations = {} /\ chatCalls = {}
        /\ turns = [k \in 1..MaxQuestions |-> <<>>]
    BY DEF Init, V!Init, V!Ids
  <1>2. QED
    BY <1>1 DEF ChatInv, CallsInv, BubblesInv, OrphansInv, ThreadsInv, Begun, ScreenInv, Continued,
                Follows, Stored, DoneSet, V!Shown

LEMMA SameChat == ChatInv /\ UNCHANGED chatVars => ChatInv'
  <1> SUFFICES ASSUME ChatInv, UNCHANGED chatVars PROVE ChatInv'
    OBVIOUS
  <1> USE DEF ChatInv, chatVars
  <1>1. CallsInv' /\ BubblesInv' /\ OrphansInv'
    BY DEF CallsInv, CallOK, BubblesInv, Waiting, OrphansInv
  <1>2. ThreadsInv'
    BY DEF ThreadsInv, Begun
  <1>3. ShownSet' = ShownSet /\ DoneSet' = DoneSet
    BY DEF ShownSet, DoneSet, V!Shown
  <1>4. ScreenInv'
    BY <1>3, ScreenBeside
  <1>5. QED
    BY <1>1, <1>2, <1>4

LEMMA ChatInvNext == V!TypeOK /\ ChatInv /\ ChatNext => ChatInv' /\ V!TypeOK'
  <1> SUFFICES ASSUME V!TypeOK, ChatInv, ChatNext PROVE ChatInv' /\ V!TypeOK'
    OBVIOUS
  <1>1. CASE (V!Send \/ V!NewChat \/ V!OpenConversation \/ \E d \in Docs : V!Attach(d)) /\ current \in Workspaces
    BY <1>1, ChatTypeGesture, SendKeeps, NewChatKeeps, OpenKeeps, AttachKeeps
  <1>2. ASSUME NEW c \in chatCalls, V!Answer(c) \/ V!ServeAttach(c) \/ V!Fail(c)
        PROVE  ChatInv' /\ V!TypeOK'
    <2>1. CallOK(c)
      BY DEF ChatInv, CallsInv
    <2>2. QED
      BY <1>2, <2>1, ChatTypeServe, ServeTurnKeeps, ServeRefusalKeeps, ServeReadKeeps, ServeAttachKeeps,
         FailKeeps DEF V!Answer
  <1>3. ASSUME NEW c \in chatCalls, V!Receive(c)
        PROVE  ChatInv' /\ V!TypeOK'
    <2>1. CallOK(c)
      BY DEF ChatInv, CallsInv
    <2>2. QED
      BY <1>3, <2>1, ChatTypeReceive, ReceiveTurnKeeps, RevealedKeeps, ReceiveConversationKeeps,
         ReceiveListKeeps, ReceiveAttachKeeps, ReceiveFailureKeeps DEF V!Receive
  <1>4. CASE V!Leave \/ (V!Enter /\ current' \in Workspaces)
    BY <1>4, ChatTypeMount, MountKeeps
  <1>5. QED
    BY <1>1, <1>2, <1>3, <1>4 DEF ChatNext

\* The invariant and the types of the chat hold throughout.
LEMMA ChatAlways == Spec => [](ChatInv /\ V!TypeOK)
  <1>1. Init => ChatInv /\ V!TypeOK
    BY ChatInit, ChatTypeInit
  <1>2. /\ ChatInv /\ V!TypeOK /\ S!TypeOK /\ S!TypeOK' /\ [Next]_vars
        => (ChatInv /\ V!TypeOK)'
    <2>1. V!TypeOK /\ UNCHANGED chatVars => V!TypeOK'
      BY DEF V!TypeOK, chatVars
    <2>2. QED
      BY <2>1, ChatSteps, ChatInvNext, SameChat
  <1>3. QED
    BY <1>1, <1>2, SessionAlways, PTL DEF Spec

\* An answer ends in the bubble of its own question, a bubble that waits has its
\* call under way, and while one waits nothing is sent: whatever the user opens,
\* clears, attaches or leaves meanwhile.
THEOREM AnswersStaySettled == Spec => []AnswersSettle
  <1>1. ChatInv => AnswersSettle
    BY DEF ChatInv, CallsInv, CallOK, BubblesInv, Waiting, LiveTurn, TurnKinds, AnswersSettle, V!AnswersSettle, V!Shown
  <1>2. QED
    BY <1>1, ChatAlways, PTL

\* What is asked next continues the conversation that is on the screen, unless the
\* user crossed an answer or a transcript under way.
THEOREM ScreenStaysContinued == Spec => []ScreenIsContinued
  <1>1. ChatInv => ScreenIsContinued
    BY DEF ChatInv, ScreenInv, Continued, Follows, Stored, ShownSet, DoneSet, LiveOpen, ScreenIsContinued,
           V!ScreenIsContinued, V!Awaited
  <1>2. QED
    BY <1>1, ChatAlways, PTL

-----------------------------------------------------------------------------
(* The chat: the workspace of a conversation.                               *)

InChat == On("chat")

\* What a call names and has seen is of its workspace, the one on the screen while
\* the view waits for it.
HomeCall(c) ==
  /\ c.conv # None => home[c.conv] = c.ws
  /\ \A k \in c.seen : home[k] = c.ws
  /\ c.live => InChat /\ c.ws = current

HomeInv ==
  /\ \A c \in chatCalls : HomeCall(c)
  /\ conversationId # None => InChat /\ home[conversationId] = current
  /\ \A k \in conversations : InChat /\ home[k] = current

HomeStep ==
  \/ /\ InChat /\ (V!Send \/ V!NewChat \/ V!OpenConversation \/ \E d \in Docs : V!Attach(d))
     /\ Screen' = Screen
  \/ /\ \E c \in chatCalls : V!Answer(c) \/ V!Receive(c) \/ V!ServeAttach(c) \/ V!Fail(c)
     /\ Screen' = Screen
  \/ V!Leave
  \/ V!Enter /\ InChat'
  \/ UNCHANGED chatVars /\ Screen' = Screen

LEMMA HomeSteps == [Next]_vars => HomeStep
  <1> SUFFICES ASSUME [Next]_vars PROVE HomeStep
    OBVIOUS
  <1>1. UNCHANGED <<tab, sessionVars>> => Screen' = Screen
    BY DEF sessionVars, Screen, Shell
  <1>2. Remount => HomeStep
    BY DEF Remount, HomeStep, InChat, On
  <1>3. CASE Gesture
    <2>1. CASE UseSession \/ ShowView
      BY <1>2, <2>1 DEF UseSession, ShowView
    <2>2. CASE ReloadPage
      BY <2>2 DEF ReloadPage, HomeStep
    <2>3. CASE UseLibrary \/ UseBell
      BY <1>1, <2>3 DEF UseLibrary, UseBell, HomeStep
    <2>4. CASE UseChat \/ UseAttach
      BY <1>1, <2>4 DEF UseChat, UseAttach, HomeStep, InChat
    <2>5. QED
      BY <1>3, <2>1, <2>2, <2>3, <2>4 DEF Gesture
  <1>4. CASE AnswerChat
    BY <1>1, <1>4 DEF AnswerChat, HomeStep
  <1>5. CASE AnswerLibrary \/ Poll \/ \E s \in BellSlots : AnswerBell(s)
    BY <1>1, <1>5 DEF AnswerLibrary, Poll, AnswerBell, HomeStep
  <1>6. CASE AnswerSession
    BY <1>2, <1>6 DEF AnswerSession
  <1>7. CASE Fail
    <2>1. CASE \E f \in flows : S!Fail(f) /\ UNCHANGED chatVars
      <3>1. UNCHANGED <<tab, ready, user, current>>
        BY <1>7, <2>1 DEF Fail, S!Fail
      <3>2. QED
        BY <2>1, <3>1 DEF HomeStep, Screen, Shell
    <2>2. CASE UNCHANGED sessionVars /\ (UNCHANGED chatVars \/ \E c \in chatCalls : V!Fail(c))
      BY <1>1, <1>7, <2>2 DEF Fail, HomeStep
    <2>3. QED
      BY <1>7, <2>1, <2>2 DEF Fail
  <1>8. CASE UNCHANGED vars
    BY <1>1, <1>8 DEF vars, HomeStep
  <1>9. QED
    BY <1>3, <1>4, <1>5, <1>6, <1>7, <1>8 DEF Next

\* A conversation never moves.
Settles == \A k \in 1..MaxQuestions : home[k] # None => home'[k] = home[k]

LEMMA SameScreen ==
  ASSUME Screen' = Screen
  PROVE  (InChat' <=> InChat) /\ (InChat => current' = current)
  BY DEF InChat, On, Screen

LEMMA HomeStays ==
  ASSUME V!TypeOK, HomeInv, Screen' = Screen, Settles
  PROVE  /\ \A c \in chatCalls : HomeCall(c)'
         /\ conversationId # None => InChat' /\ home'[conversationId] = current'
         /\ \A k \in conversations : InChat' /\ home'[k] = current'
  <1>1. InChat => current # None
    BY NoneAssumption DEF InChat, On, Screen
  <1>2. /\ conversationId \in (1..MaxQuestions) \cup {None} /\ conversations \subseteq 1..MaxQuestions
        /\ \A c \in chatCalls : /\ c.conv \in (1..MaxQuestions) \cup {None} /\ c.ws # None
                                /\ c.seen \subseteq 1..MaxQuestions
    BY NoneAssumption DEF V!TypeOK, V!Call, V!Ids, V!Questions
  <1>3. ASSUME NEW c \in chatCalls PROVE HomeCall(c)'
    BY <1>2, SameScreen DEF HomeInv, HomeCall, Settles
  <1>4. QED
    BY <1>1, <1>2, <1>3, SameScreen DEF HomeInv, Settles

\* Calls that stay and one that is at home; what is selected and listed stays.
LEMMA HomeBeside ==
  ASSUME V!TypeOK, HomeInv, Screen' = Screen, Settles, NEW d,
         chatCalls' \subseteq chatCalls \cup {d}, d \in chatCalls' => d \in chatCalls \/ HomeCall(d)',
         conversationId' = conversationId, conversations' = conversations
  PROVE  HomeInv'
  <1>1. \A c \in chatCalls' : HomeCall(c)'
    BY HomeStays
  <1>2. QED
    BY <1>1, HomeStays DEF HomeInv

LEMMA HomeGesture ==
  ASSUME V!TypeOK, HomeInv, InChat, Screen' = Screen,
         V!Send \/ V!NewChat \/ V!OpenConversation \/ \E d \in Docs : V!Attach(d)
  PROVE  HomeInv'
  <1>1. Settles
    BY DEF Settles, V!Send, V!NewChat, V!OpenConversation, V!Attach
  <1>2. ASSUME NEW d, d.ws = current, d.seen = {}, d.conv # None => home'[d.conv] = current'
        PROVE  HomeCall(d)'
    BY <1>2, SameScreen DEF HomeCall
  <1>3. \A s, kind, k, n, f : LET d == V!Request(s, kind, current, k, n, f)
                            IN  d.ws = current /\ d.seen = {} /\ d.conv = k
    BY DEF V!Request
  <1>4. CASE V!Send
    <2>1. PICK d : /\ chatCalls' = chatCalls \cup {d}
                   /\ d.ws = current /\ d.seen = {} /\ d.conv = conversationId
                   /\ conversationId' = conversationId /\ conversations' = conversations
      BY <1>3, <1>4 DEF V!Send
    <2>2. HomeCall(d)'
      BY <1>1, <1>2, <2>1, HomeStays
    <2>3. QED
      BY <1>1, <2>1, <2>2, HomeBeside
  <1>5. CASE V!NewChat
    <2>1. conversationId' = None /\ UNCHANGED <<conversations, chatCalls>>
      BY <1>5 DEF V!NewChat
    <2>2. QED
      BY <1>1, <2>1, HomeStays DEF HomeInv
  <1>6. CASE V!OpenConversation
    <2>1. PICK k, d :
            /\ k \in conversations /\ chatCalls' = chatCalls \cup {d}
            /\ d.ws = current /\ d.seen = {} /\ d.conv = k
            /\ conversationId' = k /\ conversations' = conversations
      BY <1>3, <1>6 DEF V!OpenConversation
    <2>2. InChat' /\ home'[k] = current'
      BY <1>1, <2>1, HomeStays
    <2>3. HomeCall(d)'
      BY <1>2, <2>1, <2>2
    <2>4. \A c \in chatCalls' : HomeCall(c)'
      BY <1>1, <2>1, <2>3, HomeStays
    <2>5. QED
      BY <1>1, <2>1, <2>2, <2>4, HomeStays DEF HomeInv
  <1>7. CASE \E f \in Docs : V!Attach(f)
    <2>1. PICK d : /\ chatCalls' = chatCalls \cup {d}
                   /\ d.ws = current /\ d.seen = {} /\ d.conv = None
                   /\ conversationId' = conversationId /\ conversations' = conversations
      BY <1>3, <1>7 DEF V!Attach
    <2>2. HomeCall(d)'
      BY <1>2, <2>1
    <2>3. QED
      BY <1>1, <2>1, <2>2, HomeBeside
  <1>8. QED
    BY <1>4, <1>5, <1>6, <1>7

\* A call that the server has answered, that has failed or that nobody waits for.
LEMMA HomeMoved ==
  ASSUME V!TypeOK, HomeInv, Screen' = Screen, Settles, NEW c \in chatCalls, NEW d,
         /\ d.conv = c.conv /\ d.ws = c.ws /\ d.seen = c.seen /\ d.live \in {c.live, FALSE}
  PROVE  HomeCall(d)'
  <1>1. HomeCall(c)'
    BY HomeStays
  <1>2. QED
    BY <1>1 DEF HomeCall

LEMMA HomeServe ==
  ASSUME V!TypeOK, HomeInv, Screen' = Screen, NEW c \in chatCalls,
         V!Answer(c) \/ V!ServeAttach(c)
  PROVE  HomeInv'
  <1>1. c \in V!Call /\ c.ws \in Workspaces
    BY DEF V!TypeOK, V!Call
  <1>3. CASE V!ServeTurn(c)
    <2>1. PICK k \in 1..MaxQuestions :
            /\ IF c.conv # None THEN k = c.conv ELSE home[k] = None
            /\ home' = [home EXCEPT ![k] = IF c.conv = None THEN c.ws ELSE @]
            /\ chatCalls' = V!Answered(c, [c EXCEPT !.conv = k])
      BY <1>3 DEF V!ServeTurn, V!Ids
    <2>2. home \in [1..MaxQuestions -> Workspaces \cup {None}]
      BY DEF V!TypeOK, V!Ids
    <2>3. Settles
      BY <2>1, <2>2 DEF Settles
    <2>4. home'[k] = c.ws
      BY <2>1, <2>2 DEF HomeInv, HomeCall
    <2>5. UNCHANGED <<conversationId, conversations>>
      BY <1>3 DEF V!ServeTurn, V!screen
    <2>6. DEFINE d == [[c EXCEPT !.conv = k] EXCEPT !.at = "answered"]
    <2>7. HomeCall(d)'
      <3>1. d.conv = k /\ d.ws = c.ws /\ d.seen = c.seen /\ d.live = c.live
        BY <1>1 DEF V!Call
      <3>2. HomeCall(c)'
        BY <2>3, HomeStays
      <3>3. QED
        BY <2>4, <3>1, <3>2 DEF HomeCall
    <2>8. chatCalls' \subseteq chatCalls \cup {d}
      BY <2>1 DEF V!Answered, V!Replace, V!Drop
    <2>9. QED
      BY <2>3, <2>5, <2>7, <2>8, HomeBeside
  <1>4. CASE V!ServeRefusal(c) \/ V!ServeAttach(c)
    <2>1. /\ UNCHANGED <<home, conversationId, conversations>>
          /\ chatCalls' = V!Answered(c, c)
      BY <1>4 DEF V!ServeRefusal, V!ServeAttach, V!screen
    <2>2. Settles
      BY <2>1 DEF Settles
    <2>3. HomeCall([c EXCEPT !.at = "answered"])'
      BY <1>1, <2>2, HomeMoved DEF V!Call
    <2>4. chatCalls' \subseteq chatCalls \cup {[c EXCEPT !.at = "answered"]}
      BY <2>1 DEF V!Answered, V!Replace, V!Drop
    <2>5. QED
      BY <2>1, <2>2, <2>3, <2>4, HomeBeside
  <1>5. CASE V!ServeRead(c)
    <2>1. UNCHANGED <<home, conversationId, conversations>>
      BY <1>5 DEF V!ServeRead, V!screen
    <2>2. Settles
      BY <2>1 DEF Settles
    <2>3. PICK d : /\ chatCalls' \subseteq chatCalls \cup {d}
                   /\ d.conv = c.conv /\ d.ws = c.ws /\ d.live = c.live
                   /\ d.seen = c.seen \/ d.seen = {k \in V!Ids : home[k] = c.ws}
      <3>1. CASE c.kind = "open"
        <4>1. DEFINE d == [[c EXCEPT !.log = turns[c.conv]] EXCEPT !.at = "answered"]
        <4>2. chatCalls' \subseteq chatCalls \cup {d}
          BY <1>5, <3>1 DEF V!ServeRead, V!Answered, V!Replace, V!Drop
        <4>3. d.conv = c.conv /\ d.ws = c.ws /\ d.live = c.live /\ d.seen = c.seen
          BY <1>1 DEF V!Call
        <4>4. QED
          BY <4>2, <4>3
      <3>2. CASE c.kind # "open"
        <4>1. PICK q : /\ q = {k \in V!Ids : home[k] = c.ws}
                       /\ chatCalls' = V!Answered(c, [c EXCEPT !.seen = q])
          BY <1>5, <3>2 DEF V!ServeRead
        <4>2. PICK b : b = [c EXCEPT !.seen = q]
          OBVIOUS
        <4>3. PICK d : d = [b EXCEPT !.at = "answered"]
          OBVIOUS
        <4>4. chatCalls' \subseteq chatCalls \cup {d}
          <5>1. chatCalls' = V!Answered(c, b)
            BY <4>1, <4>2
          <5>2. QED
            BY <4>3, <5>1 DEF V!Answered, V!Replace, V!Drop
        <4>5. d.conv = c.conv /\ d.ws = c.ws /\ d.live = c.live /\ d.seen = q
          BY <1>1, <4>2, <4>3 DEF V!Call
        <4>6. QED
          BY <4>1, <4>4, <4>5
      <3>3. QED
        BY <3>1, <3>2
    <2>4. HomeCall(d)'
      <3>1. HomeCall(c)'
        BY <2>2, HomeStays
      <3>2. QED
        BY <2>1, <2>3, <3>1 DEF HomeCall
    <2>5. QED
      BY <2>1, <2>2, <2>3, <2>4, HomeBeside
  <1>6. QED
    BY <1>3, <1>4, <1>5 DEF V!Answer

LEMMA HomeFail ==
  ASSUME V!TypeOK, HomeInv, Screen' = Screen, NEW c \in chatCalls, V!Fail(c)
  PROVE  HomeInv'
  <1>1. c \in V!Call
    BY DEF V!TypeOK
  <1>2. UNCHANGED <<home, conversationId, conversations>>
    BY DEF V!Fail, V!screen
  <1>3. Settles
    BY <1>2 DEF Settles
  <1>4. PICK s : s = V!Slot
    OBVIOUS
  <1>5. PICK d : d = [c EXCEPT !.at = "failed"]
    OBVIOUS
  <1>6. PICK e : e = [c EXCEPT !.live = FALSE, !.slot = s]
    OBVIOUS
  <1>7. HomeCall(d)' /\ HomeCall(e)'
    BY <1>1, <1>3, <1>5, <1>6, HomeMoved DEF V!Call
  <1>8. chatCalls' \subseteq (chatCalls \cup {d}) \cup {e}
    BY <1>4, <1>5, <1>6 DEF V!Fail, V!Replace, V!Drop
  <1>9. \A b \in chatCalls' : HomeCall(b)'
    BY <1>3, <1>7, <1>8, HomeStays
  <1>10. QED
    BY <1>2, <1>3, <1>9, HomeStays DEF HomeInv

LEMMA HomeReceive ==
  ASSUME V!TypeOK, HomeInv, Screen' = Screen, NEW c \in chatCalls, CallOK(c), V!Receive(c)
  PROVE  HomeInv'
  <1>1. c \in V!Call
    BY DEF V!TypeOK
  <1>2. UNCHANGED home
    BY DEF V!Receive, V!ReceiveTurn, V!Revealed, V!ReceiveConversation, V!ReceiveList, V!ReceiveAttach,
           V!ReceiveFailure
  <1>3. Settles
    BY <1>2 DEF Settles
  <1>4. HomeCall(c)'
    BY <1>3, HomeStays
  <1>5. CASE V!ReceiveTurn(c)
    <2>1. c.live
      BY <1>5 DEF CallOK, V!ReceiveTurn
    <2>2. HomeCall([c EXCEPT !.at = "revealing"])'
      BY <1>1, <1>3, HomeMoved DEF V!Call
    <2>3. /\ chatCalls' \subseteq chatCalls \cup {[c EXCEPT !.at = "revealing"]}
          /\ conversations' = conversations /\ conversationId' \in {c.conv, conversationId}
      BY <1>5 DEF V!ReceiveTurn, V!Replace
    <2>4. \A b \in chatCalls' : HomeCall(b)'
      BY <1>3, <2>2, <2>3, HomeStays
    <2>5. c.conv # None => InChat' /\ home'[c.conv] = current'
      BY <1>4, <2>1 DEF HomeCall
    <2>6. QED
      BY <1>3, <2>3, <2>4, <2>5, HomeStays DEF HomeInv
  <1>6. CASE V!Revealed(c)
    <2>1. c.live
      BY <1>6 DEF CallOK, V!Revealed
    <2>2. DEFINE d == V!Request(c.slot, "list", c.ws, None, None, None)
    <2>3. HomeCall(d)'
      BY <1>4, <2>1 DEF HomeCall, V!Request
    <2>4. /\ chatCalls' \subseteq chatCalls \cup {d}
          /\ conversations' = conversations /\ conversationId' = conversationId
      BY <1>6 DEF V!Revealed, V!Replace
    <2>5. QED
      BY <1>3, <2>3, <2>4, HomeBeside
  <1>7. CASE V!ReceiveList(c)
    <2>1. c.live
      BY <1>7 DEF CallOK, V!ReceiveList
    <2>2. /\ chatCalls' \subseteq chatCalls
          /\ conversations' = c.seen /\ conversationId' = conversationId
      BY <1>7 DEF V!ReceiveList, V!Drop
    <2>3. \A k \in c.seen : InChat' /\ home'[k] = current'
      BY <1>4, <2>1 DEF HomeCall
    <2>4. QED
      BY <1>3, <2>2, <2>3, HomeStays DEF HomeInv
  <1>8. CASE V!ReceiveConversation(c) \/ V!ReceiveAttach(c) \/ V!ReceiveFailure(c)
    <2>1. /\ chatCalls' \subseteq chatCalls
          /\ conversations' = conversations /\ conversationId' = conversationId
      BY <1>8 DEF V!ReceiveConversation, V!ReceiveAttach, V!ReceiveFailure, V!Drop
    <2>2. QED
      BY <1>3, <2>1, HomeBeside
  <1>9. QED
    BY <1>5, <1>6, <1>7, <1>8 DEF V!Receive

LEMMA HomeMount ==
  ASSUME V!TypeOK, HomeInv, V!Leave \/ (V!Enter /\ InChat')
  PROVE  HomeInv'
  <1>1. /\ conversationId' = None /\ conversations' = {} /\ UNCHANGED home
    BY DEF V!Leave, V!Enter, V!Reset
  <1>2. ASSUME NEW d \in V!Orphans PROVE HomeCall(d)'
    <2>1. PICK c \in chatCalls : d = [c EXCEPT !.live = FALSE]
      BY DEF V!Orphans
    <2>2. c \in V!Call
      BY DEF V!TypeOK
    <2>3. d.conv = c.conv /\ d.ws = c.ws /\ d.seen = c.seen /\ ~d.live
      BY <2>1, <2>2 DEF V!Call
    <2>4. QED
      BY <1>1, <2>3 DEF HomeInv, HomeCall
  <1>3. CASE V!Leave
    BY <1>1, <1>2, <1>3 DEF V!Leave, HomeInv
  <1>4. CASE V!Enter /\ InChat'
    <2>1. PICK d : /\ chatCalls' = V!Orphans \cup {d}
                   /\ d.conv = None /\ d.seen = {} /\ d.ws = current'
      <3>1. \A q, w : LET d == V!Request(q, "list", w, None, None, None)
                     IN  d.conv = None /\ d.seen = {} /\ d.ws = w
        BY DEF V!Request
      <3>2. QED
        BY <1>4, <3>1 DEF V!Enter
    <2>2. HomeCall(d)'
      BY <1>4, <2>1 DEF HomeCall
    <2>3. QED
      BY <1>1, <1>2, <2>1, <2>2 DEF HomeInv
  <1>5. QED
    BY <1>3, <1>4

LEMMA HomeNext == V!TypeOK /\ ChatInv /\ HomeInv /\ HomeStep => HomeInv'
  <1> SUFFICES ASSUME V!TypeOK, ChatInv, HomeInv, HomeStep PROVE HomeInv'
    OBVIOUS
  <1>1. CASE UNCHANGED chatVars /\ Screen' = Screen
    <2>1. Settles /\ UNCHANGED <<chatCalls, conversationId, conversations>>
      BY <1>1 DEF Settles, chatVars
    <2>2. QED
      BY <1>1, <2>1, HomeStays DEF HomeInv
  <1>2. ASSUME NEW c \in chatCalls, V!Answer(c) \/ V!Receive(c) \/ V!ServeAttach(c) \/ V!Fail(c),
               Screen' = Screen
        PROVE  HomeInv'
    <2>1. CallOK(c)
      BY DEF ChatInv, CallsInv
    <2>2. QED
      BY <1>2, <2>1, HomeServe, HomeFail, HomeReceive
  <1>3. QED
    BY <1>1, <1>2, HomeGesture, HomeMount DEF HomeStep

\* A question is sent to the workspace of the conversation it continues, whatever the
\* user switches, opens or leaves while answers are under way: nothing else keeps the
\* turns of two workspaces apart.
THEOREM TurnsAreAtHome == Spec => []TurnsStayHome
  <1>1. Init => HomeInv
    BY DEF Init, V!Init, HomeInv
  <1>2. ChatInv /\ V!TypeOK /\ HomeInv /\ [Next]_vars => HomeInv'
    BY HomeSteps, HomeNext
  <1>3. HomeInv => TurnsStayHome
    BY DEF HomeInv, HomeCall, TurnsStayHome, V!TurnsStayHome
  <1>4. QED
    BY <1>1, <1>2, <1>3, ChatAlways, PTL DEF Spec

-----------------------------------------------------------------------------
(* The library: types. *)

\* No file is left.
LEMMA NoFiles == <<>> \in Seq(Docs)
  OBVIOUS

\* A field of a call that changes keeps the call's type.
LEMMA LibCallTypes ==
  ASSUME NEW c \in L!Call
  PROVE  /\ [c EXCEPT !.live = FALSE] \in L!Call
         /\ \A a \in {"sent", "answered", "failed"} : [c EXCEPT !.at = a] \in L!Call
         /\ \A q \in SUBSET Docs : [c EXCEPT !.seen = q] \in L!Call
         /\ [c EXCEPT !.late = TRUE] \in L!Call
         /\ [c EXCEPT !.rest = <<>>] \in L!Call
         /\ \A s \in LibSlots : [c EXCEPT !.live = FALSE, !.slot = s, !.rest = <<>>] \in L!Call
         /\ \A d \in Docs, a \in {"sent", "failed"} : [c EXCEPT !.doc = d, !.rest = <<>>, !.at = a] \in L!Call
  <1>1. PICK r \in Seq(Docs) : r = <<>>
    BY NoFiles
  <1>2. [c EXCEPT !.rest = r] \in L!Call
    BY DEF L!Call
  <1>3. \A s \in LibSlots : [c EXCEPT !.live = FALSE, !.slot = s, !.rest = r] \in L!Call
    BY DEF L!Call
  <1>4. \A d \in Docs, a \in {"sent", "failed"} : [c EXCEPT !.doc = d, !.rest = r, !.at = a] \in L!Call
    BY DEF L!Call
  <1>5. /\ [c EXCEPT !.live = FALSE] \in L!Call
        /\ \A a \in {"sent", "answered", "failed"} : [c EXCEPT !.at = a] \in L!Call
        /\ \A q \in SUBSET Docs : [c EXCEPT !.seen = q] \in L!Call
        /\ [c EXCEPT !.late = TRUE] \in L!Call
    BY DEF L!Call
  <1>6. QED
    BY <1>1, <1>2, <1>3, <1>4, <1>5

LEMMA LibSlot == L!Free # {} => L!Slot \in LibSlots
  <1> SUFFICES ASSUME L!Free # {} PROVE L!Slot \in LibSlots
    OBVIOUS
  <1>1. L!Free \in SUBSET Nat /\ L!Free \subseteq LibSlots
    BY BoundsAssumption DEF L!Free
  <1>2. QED
    BY <1>1, SlotChosen DEF L!Slot

LEMMA LibRequestType ==
  ASSUME NEW s \in LibSlots, NEW kind \in {"list", "upload", "remove"}, NEW w \in Workspaces,
         NEW d \in Docs \cup {None}, NEW rest \in Seq(Docs)
  PROVE  L!Request(s, kind, w, d, rest) \in L!Call
  BY DEF L!Request, L!Call

LEMMA OvertakeType ==
  ASSUME NEW C \in SUBSET L!Call
  PROVE  L!Overtake(C) \subseteq L!Call
  BY LibCallTypes DEF L!Overtake

LEMMA LibOrphansType == libCalls \subseteq L!Call => L!Orphans \subseteq L!Call
  BY LibCallTypes DEF L!Orphans

\* One step of the library view, of its calls or of the server's documents.
LibNext ==
  \/ (L!Upload \/ L!Remove) /\ current \in Workspaces
  \/ \E d \in Docs \ used : UNCHANGED <<libScreen, libCalls, place>> /\ used' = used \cup {d}
  \/ \E c \in chatCalls :
       /\ c.kind = "attach" /\ L!Store(c.doc, c.ws, FALSE) /\ libCalls' = L!Overtake(libCalls)
       /\ UNCHANGED <<docs, loading, uploading, used>>
  \/ \E c \in libCalls : \/ L!ServeUpload(c) \/ L!ServeList(c) \/ L!ServeRemove(c) \/ L!Fail(c)
                         \/ \E may \in BOOLEAN : L!Receive(c, may)
  \/ L!Leave \/ L!Close
  \/ L!Enter /\ current' \in Workspaces

LEMMA LibTypeInit == Init => L!TypeOK
  BY DEF Init, L!Init, L!TypeOK

LEMMA LibTypeGesture ==
  ASSUME L!TypeOK, (L!Upload \/ L!Remove) /\ current \in Workspaces
  PROVE  L!TypeOK'
  <1> USE DEF L!TypeOK, L!libScreen
  <1>1. CASE L!Upload
    <2>1. PICK d \in Docs \ used, e \in Docs \ used :
            /\ L!Free # {} /\ uploading' = TRUE /\ used' = used \cup {d, e}
            /\ libCalls' = libCalls \cup
                 {L!Request(L!Slot, "upload", current, d, IF d = e THEN <<>> ELSE <<e>>)}
            /\ UNCHANGED <<docs, loading, overtaken, place>>
      BY <1>1 DEF L!Upload
    <2>2. (IF d = e THEN <<>> ELSE <<e>>) \in Seq(Docs)
      OBVIOUS
    <2>3. L!Request(L!Slot, "upload", current, d, IF d = e THEN <<>> ELSE <<e>>) \in L!Call
      BY <2>1, <2>2, LibSlot, LibRequestType
    <2>4. QED
      BY <2>1, <2>3
  <1>2. CASE L!Remove
    <2>1. PICK d \in docs : /\ L!Free # {} /\ UNCHANGED <<docs, loading, uploading, overtaken, place, used>>
                            /\ libCalls' = libCalls \cup {L!Request(L!Slot, "remove", current, d, <<>>)}
      BY <1>2 DEF L!Remove
    <2>2. L!Request(L!Slot, "remove", current, d, <<>>) \in L!Call
      BY <2>1, LibSlot, LibRequestType, NoFiles
    <2>3. QED
      BY <2>1, <2>2
  <1>3. QED
    BY <1>1, <1>2

LEMMA LibTypeServe ==
  ASSUME L!TypeOK, NEW c \in libCalls,
         L!ServeUpload(c) \/ L!ServeList(c) \/ L!ServeRemove(c) \/ L!Fail(c)
  PROVE  L!TypeOK'
  <1> USE DEF L!TypeOK, L!libScreen
  <1>1. c \in L!Call /\ c.ws \in Workspaces
    BY DEF L!Call
  <1>2. \A d \in L!Call : L!Answered(c, d) \in SUBSET L!Call
    BY LibCallTypes DEF L!Answered, L!Replace
  <1>3. L!Answered(c, c) \in SUBSET L!Call /\ L!Drop(c) \in SUBSET L!Call
    BY <1>1, <1>2 DEF L!Drop
  <1>4. CASE L!ServeUpload(c)
    <2>1. libCalls' \subseteq L!Call
      BY <1>3, <1>4, OvertakeType DEF L!ServeUpload
    <2>2. QED
      BY <1>1, <1>4, <2>1 DEF L!ServeUpload, L!Store
  <1>5. CASE L!ServeList(c)
    <2>1. L!Held(c.ws) \in SUBSET Docs
      BY DEF L!Held
    <2>2. [c EXCEPT !.seen = L!Held(c.ws)] \in L!Call
      BY <1>1, <2>1, LibCallTypes
    <2>3. libCalls' \subseteq L!Call
      BY <1>2, <1>5, <2>2 DEF L!ServeList
    <2>4. QED
      BY <1>5, <2>3 DEF L!ServeList
  <1>6. CASE L!ServeRemove(c)
    <2>1. [c EXCEPT !.at = "failed"] \in L!Call
      BY <1>1, LibCallTypes
    <2>2. libCalls' \subseteq L!Call
      BY <1>3, <1>6, <2>1, OvertakeType DEF L!ServeRemove, L!Replace
    <2>3. QED
      BY <1>6, <2>2 DEF L!ServeRemove
  <1>7. CASE L!Fail(c)
    <2>1. [c EXCEPT !.at = "failed"] \in L!Call
      BY <1>1, LibCallTypes
    <2>2. L!Free # {} => [c EXCEPT !.live = FALSE, !.slot = L!Slot, !.rest = <<>>] \in L!Call
      BY <1>1, LibSlot, LibCallTypes
    <2>3. libCalls' \subseteq L!Call
      BY <1>7, <2>1, <2>2 DEF L!Fail, L!Replace
    <2>4. QED
      BY <1>7, <2>3 DEF L!Fail
  <1>8. QED
    BY <1>4, <1>5, <1>6, <1>7

LEMMA LibTypeReceive ==
  ASSUME L!TypeOK, NEW c \in libCalls, NEW may \in BOOLEAN, L!Receive(c, may)
  PROVE  L!TypeOK'
  <1> USE DEF L!TypeOK
  <1>1. c \in L!Call /\ c.seen \subseteq Docs /\ c.late \in BOOLEAN /\ c.ws \in Workspaces /\ c.slot \in LibSlots
    BY DEF L!Call
  <1>2. CASE L!ReceiveList(c)
    BY <1>1, <1>2 DEF L!ReceiveList, L!Drop
  <1>3. CASE L!ReceiveUpload(c, may)
    <2>1. c.rest \in Seq(Docs)
      BY DEF L!Call
    <2>2. c.rest # <<>> => Head(c.rest) \in Docs
      BY <2>1
    <2>3. c.rest # <<>> =>
            [c EXCEPT !.doc = Head(c.rest), !.rest = <<>>, !.at = IF may THEN "sent" ELSE "failed"] \in L!Call
      BY <1>1, <2>2, LibCallTypes
    <2>4. L!Request(c.slot, "list", c.ws, None, <<>>) \in L!Call
      BY <1>1, LibRequestType, NoFiles
    <2>5. libCalls' \subseteq L!Call
      BY <1>3, <2>3, <2>4 DEF L!ReceiveUpload, L!Replace, L!Drop
    <2>6. QED
      BY <1>3, <2>5 DEF L!ReceiveUpload
  <1>4. CASE L!ReceiveRemove(c)
    BY <1>4 DEF L!ReceiveRemove, L!Drop
  <1>5. QED
    BY <1>2, <1>3, <1>4 DEF L!Receive

LEMMA LibTypeMount ==
  ASSUME L!TypeOK, L!Leave \/ L!Close \/ (L!Enter /\ current' \in Workspaces)
  PROVE  L!TypeOK'
  <1> USE DEF L!TypeOK
  <1>1. L!Orphans \subseteq L!Call
    BY LibOrphansType
  <1>2. CASE L!Leave
    BY <1>1, <1>2 DEF L!Leave, L!Reset
  <1>3. CASE L!Close
    <2>1. libCalls' \subseteq L!Call
      BY <1>1, <1>3, LibCallTypes DEF L!Close
    <2>2. QED
      BY <1>3, <2>1 DEF L!Close, L!Reset
  <1>4. CASE L!Enter /\ current' \in Workspaces
    <2>1. L!Request(L!Slot, "list", current', None, <<>>) \in L!Call
      BY <1>4, LibSlot, LibRequestType, NoFiles DEF L!Enter
    <2>2. QED
      BY <1>1, <1>4, <2>1 DEF L!Enter, L!Reset
  <1>5. QED
    BY <1>2, <1>3, <1>4

LEMMA LibTypeNext == L!TypeOK /\ V!TypeOK /\ LibNext => L!TypeOK'
  <1> SUFFICES ASSUME L!TypeOK, V!TypeOK, LibNext PROVE L!TypeOK'
    OBVIOUS
  <1>1. ASSUME NEW d \in Docs, UNCHANGED <<libScreen, libCalls, place>>, used' = used \cup {d}
        PROVE  L!TypeOK'
    BY <1>1 DEF L!TypeOK, libScreen
  <1>2. ASSUME NEW c \in chatCalls, L!Store(c.doc, c.ws, FALSE), libCalls' = L!Overtake(libCalls),
               UNCHANGED <<docs, loading, uploading, used>>
        PROVE  L!TypeOK'
    <2>1. c.ws \in Workspaces
      BY DEF V!TypeOK, V!Call
    <2>2. libCalls' \subseteq L!Call
      BY <1>2, OvertakeType DEF L!TypeOK
    <2>3. QED
      BY <1>2, <2>1, <2>2 DEF L!TypeOK, L!Store
  <1>3. QED
    BY <1>1, <1>2, LibTypeGesture, LibTypeServe, LibTypeReceive, LibTypeMount DEF LibNext

-----------------------------------------------------------------------------
(* The library: files on their way, and what the list misses. *)

\* A file attached to the chat, still on its way.
Attached     == {c \in chatCalls : c.kind = "attach" /\ c.at = "sent"}
Attaching(d) == \E c \in Attached : c.doc = d
OneAttach    == \A c, e \in Attached : c.doc = e.doc => c = e

\* The files an upload has yet to store.
Rest(c)  == {c.rest[i] : i \in DOMAIN c.rest}
Files(c) == IF c.kind = "upload" THEN Rest(c) \cup (IF c.at = "sent" THEN {c.doc} ELSE {}) ELSE {}

Coming(d) == Attaching(d) \/ \E c \in libCalls : d \in Files(c)
Known(d)  == d \in docs \/ \E c \in libCalls : d \in c.seen \/ (c.kind = "remove" /\ d = c.doc)

\* A file is on its way once, and nobody has seen it before it is stored.
PendingInv ==
  /\ OneAttach
  /\ \A c, e \in libCalls : c # e => Files(c) \cap Files(e) = {}
  /\ \A c \in libCalls : /\ c.kind = "upload" /\ c.at = "sent" => c.doc \notin Rest(c)
                         /\ \A d \in Files(c) : ~Attaching(d)
  /\ \A d : Coming(d) => d \in used /\ place[d] = None /\ ~Known(d)
  /\ \A d \in Docs : place[d] # None \/ Known(d) => d \in used

InLib == On("library")

\* What is true of a call of the library view.
LibCallOK(c) ==
  /\ c.kind = "list" => c.live
  /\ c.live => InLib /\ c.ws = current
  /\ c.kind = "list" /\ c.at = "answered" /\ ~c.late => c.seen = L!Held(current)
  /\ c.kind = "remove" /\ c.at = "answered" => c.live /\ place[c.doc] = None
  /\ c.kind = "remove" => c.doc \in Docs /\ place[c.doc] \in {c.ws, None}
  /\ \A d \in c.seen : place[d] \in {c.ws, None}

\* Documents the server has removed, which the list still shows.
Removed == {c.doc : c \in {e \in libCalls : e.kind = "remove" /\ e.at = "answered"}}

ListInv ==
  /\ ~InLib => docs = {} /\ loading
  /\ \A d \in docs : place[d] \in {current, None}
  /\ ~loading /\ ~overtaken /\ (\A c \in libCalls : c.live => c.kind # "upload")
       => docs \ Removed = L!Held(current)

LibInv == PendingInv /\ (\A c \in libCalls : LibCallOK(c)) /\ ListInv

\* What other steps of the chat leave of the files attached.
AttachKept == (\A d : Attaching(d)' => Attaching(d)) /\ (OneAttach => OneAttach')

LibStep ==
  \/ InLib /\ (L!Upload \/ L!Remove) /\ UNCHANGED <<chatCalls, tab, sessionVars>>
  \/ \E d \in Docs \ used : /\ V!Attach(d) /\ used' = used \cup {d}
                            /\ UNCHANGED <<libScreen, libCalls, place, tab, sessionVars>>
  \/ \E c \in chatCalls :
       /\ V!ServeAttach(c) /\ L!Store(c.doc, c.ws, FALSE) /\ libCalls' = L!Overtake(libCalls)
       /\ UNCHANGED <<docs, loading, uploading, used, tab, sessionVars>>
  \/ \E c \in libCalls :
       /\ \/ L!ServeUpload(c) \/ L!ServeList(c) \/ L!ServeRemove(c) \/ L!Fail(c)
          \/ \E may \in BOOLEAN : L!Receive(c, may)
       /\ UNCHANGED <<chatCalls, tab, sessionVars>>
  \/ (L!Leave \/ L!Close) /\ ~InLib' /\ AttachKept
  \/ L!Enter /\ InLib' /\ AttachKept
  \/ UNCHANGED libVars /\ Screen' = Screen /\ AttachKept

\* Attached files are stored, or fail, or go on when the view is gone.
LEMMA AttachSteps ==
  ASSUME V!TypeOK,
         \/ UNCHANGED chatCalls \/ V!Send \/ V!NewChat \/ V!OpenConversation
         \/ \E c \in chatCalls : V!Answer(c) \/ V!Receive(c) \/ V!Fail(c)
         \/ V!Leave \/ V!Enter
  PROVE  AttachKept
  <1>1. ASSUME NEW g, NEW h, chatCalls' \subseteq (chatCalls \cup {g}) \cup {h},
               g.kind # "attach" \/ g.at # "sent", h.kind # "attach" \/ h.at # "sent"
        PROVE  AttachKept
    BY <1>1 DEF AttachKept, Attached, Attaching, OneAttach
  <1>2. CASE UNCHANGED chatCalls \/ V!NewChat
    BY <1>2 DEF V!NewChat, AttachKept, Attached, Attaching, OneAttach
  <1>3. CASE V!Send \/ V!OpenConversation
    <2>1. PICK g : chatCalls' = chatCalls \cup {g} /\ g.kind # "attach"
      <3>1. \A q, kind, w, k, n : kind # "attach" => V!Request(q, kind, w, k, n, None).kind # "attach"
        BY DEF V!Request
      <3>2. QED
        BY <1>3, <3>1 DEF V!Send, V!OpenConversation
    <2>2. QED
      BY <1>1, <2>1
  <1>4. ASSUME NEW c \in chatCalls, V!Answer(c)
        PROVE  AttachKept
    <2>1. c \in V!Call /\ c.kind # "attach"
      BY <1>4 DEF V!TypeOK, V!Answer, V!ServeTurn, V!ServeRefusal, V!ServeRead
    <2>2. CASE V!ServeTurn(c)
      <3>1. PICK k : chatCalls' = V!Answered(c, [c EXCEPT !.conv = k])
        BY <2>2 DEF V!ServeTurn
      <3>2. PICK g : g = [[c EXCEPT !.conv = k] EXCEPT !.at = "answered"]
        OBVIOUS
      <3>3. chatCalls' \subseteq chatCalls \cup {g} /\ g.kind # "attach"
        BY <2>1, <3>1, <3>2 DEF V!Answered, V!Replace, V!Drop, V!Call
      <3>4. QED
        BY <1>1, <3>3
    <2>3. CASE V!ServeRefusal(c)
      <3>1. PICK g : g = [c EXCEPT !.at = "answered"]
        OBVIOUS
      <3>2. chatCalls' \subseteq chatCalls \cup {g} /\ g.kind # "attach"
        BY <2>1, <2>3, <3>1 DEF V!ServeRefusal, V!Answered, V!Replace, V!Drop, V!Call
      <3>3. QED
        BY <1>1, <3>2
    <2>4. CASE V!ServeRead(c)
      <3>1. PICK d : /\ chatCalls' = V!Answered(c, d)
                     /\ \/ d = [c EXCEPT !.log = turns[c.conv]]
                        \/ \E q : d = [c EXCEPT !.seen = q]
        BY <2>4 DEF V!ServeRead
      <3>2. PICK g : g = [d EXCEPT !.at = "answered"]
        OBVIOUS
      <3>3. chatCalls' \subseteq chatCalls \cup {g} /\ g.kind # "attach"
        BY <2>1, <3>1, <3>2 DEF V!Answered, V!Replace, V!Drop, V!Call
      <3>4. QED
        BY <1>1, <3>3
    <2>5. QED
      BY <1>4, <2>2, <2>3, <2>4 DEF V!Answer
  <1>5. ASSUME NEW c \in chatCalls, V!Receive(c)
        PROVE  AttachKept
    <2>1. c \in V!Call
      BY DEF V!TypeOK
    <2>2. CASE V!ReceiveTurn(c)
      <3>1. PICK g : g = [c EXCEPT !.at = "revealing"]
        OBVIOUS
      <3>2. g.at = "revealing" /\ chatCalls' = (chatCalls \ {c}) \cup {g}
        BY <2>1, <2>2, <3>1 DEF V!Call, V!ReceiveTurn, V!Replace
      <3>3. QED
        BY <1>1, <3>2
    <2>3. CASE V!Revealed(c)
      <3>1. PICK g : g = V!Request(c.slot, "list", c.ws, None, None, None)
        OBVIOUS
      <3>2. chatCalls' = (chatCalls \ {c}) \cup {g} /\ g.kind = "list"
        BY <2>3, <3>1 DEF V!Revealed, V!Replace, V!Request
      <3>3. QED
        BY <1>1, <3>2
    <2>4. CASE chatCalls' = chatCalls \ {c}
      BY <2>4 DEF AttachKept, Attached, Attaching, OneAttach
    <2>5. QED
      BY <1>5, <2>2, <2>3, <2>4 DEF V!Receive, V!ReceiveConversation, V!ReceiveList, V!ReceiveAttach,
             V!ReceiveFailure, V!Drop
  <1>6. ASSUME NEW c \in chatCalls, V!Fail(c)
        PROVE  AttachKept
    <2>1. PICK g, o : g = [c EXCEPT !.at = "failed"] /\ o = [c EXCEPT !.live = FALSE, !.slot = V!Slot]
      OBVIOUS
    <2>2. g.at = "failed" /\ o.kind = c.kind
      BY <2>1 DEF V!TypeOK, V!Call
    <2>3. \/ chatCalls' \subseteq chatCalls \cup {g}
          \/ chatCalls' \subseteq (chatCalls \cup {g}) \cup {o} /\ o.kind # "attach"
      BY <1>6, <2>1, <2>2 DEF V!Fail, V!Replace, V!Drop
    <2>4. QED
      BY <1>1, <2>2, <2>3
  <1>7. CASE V!Leave \/ V!Enter
    <2>1. ASSUME NEW g \in chatCalls', g.kind = "attach", g.at = "sent"
          PROVE  \E c \in chatCalls : /\ g = [c EXCEPT !.live = FALSE] /\ c.kind = "attach" /\ c.at = "sent"
                                      /\ c.doc = g.doc
      <3>1. g \in V!Orphans
        <4>1. \A s, w : V!Request(s, "list", w, None, None, None).kind = "list"
          BY DEF V!Request
        <4>2. QED
          BY <1>7, <2>1, <4>1 DEF V!Leave, V!Enter
      <3>2. PICK c \in chatCalls : c.at = "sent" /\ g = [c EXCEPT !.live = FALSE]
        BY <3>1 DEF V!Orphans
      <3>3. QED
        BY <2>1, <3>2 DEF V!TypeOK, V!Call
    <2>2. \A d : Attaching(d)' => Attaching(d)
      BY <2>1 DEF Attached, Attaching
    <2>3. ASSUME OneAttach, NEW g \in Attached', NEW h \in Attached', g.doc = h.doc
          PROVE  g = h
      <3>1. PICK c \in Attached : g = [c EXCEPT !.live = FALSE] /\ c.doc = g.doc
        BY <2>1, <2>3 DEF Attached
      <3>2. PICK b \in Attached : h = [b EXCEPT !.live = FALSE] /\ b.doc = h.doc
        BY <2>1, <2>3 DEF Attached
      <3>3. c = b
        BY <2>3, <3>1, <3>2 DEF OneAttach
      <3>4. QED
        BY <3>1, <3>2, <3>3
    <2>4. QED
      BY <2>2, <2>3 DEF AttachKept, OneAttach
  <1>8. QED
    BY <1>2, <1>3, <1>4, <1>5, <1>6, <1>7

\* Every step of the client is one of the library or of other parts.
LEMMA LibSteps == V!TypeOK /\ [Next]_vars => LibStep
  <1> SUFFICES ASSUME V!TypeOK, [Next]_vars PROVE LibStep
    OBVIOUS
  <1>1. UNCHANGED <<tab, sessionVars>> => Screen' = Screen
    BY DEF sessionVars, Screen, Shell
  <1>2. Remount => LibStep
    <2> SUFFICES ASSUME Remount PROVE LibStep
      OBVIOUS
    <2>1. CASE Screen' = Screen
      <3>1. UNCHANGED libVars /\ UNCHANGED chatCalls
        BY <2>1 DEF Remount, chatVars
      <3>2. AttachKept
        BY <3>1, AttachSteps
      <3>3. QED
        BY <2>1, <3>1, <3>2 DEF LibStep
    <2>2. CASE Screen' # Screen
      <3>1. V!Enter \/ V!Leave
        BY <2>2 DEF Remount
      <3>2. AttachKept
        BY <3>1, AttachSteps
      <3>3. (L!Enter /\ InLib') \/ (L!Leave /\ ~InLib')
        BY <2>2 DEF Remount, InLib, On
      <3>4. QED
        BY <3>2, <3>3 DEF LibStep
    <2>3. QED
      BY <2>1, <2>2
  <1>3. ASSUME UNCHANGED <<libVars, tab, sessionVars>>, AttachKept
        PROVE  LibStep
    BY <1>1, <1>3 DEF LibStep
  <1>4. CASE Gesture
    <2>1. CASE UseSession \/ ShowView
      BY <1>2, <2>1 DEF UseSession, ShowView
    <2>2. CASE ReloadPage
      <3>1. L!Close /\ V!Leave /\ user' = None
        BY <2>2 DEF ReloadPage, S!Reload
      <3>2. ~InLib'
        BY <3>1 DEF InLib, On, Screen, Shell
      <3>3. QED
        BY <3>1, <3>2, AttachSteps DEF LibStep
    <2>3. CASE UseLibrary
      BY <2>3 DEF UseLibrary, LibStep, InLib, chatVars
    <2>4. CASE UseChat
      BY <1>3, <2>4, AttachSteps DEF UseChat
    <2>5. CASE UseAttach
      BY <2>5 DEF UseAttach, LibStep
    <2>6. CASE UseBell
      BY <1>3, <2>6, AttachSteps DEF UseBell, chatVars
    <2>7. QED
      BY <1>4, <2>1, <2>2, <2>3, <2>4, <2>5, <2>6 DEF Gesture
  <1>5. CASE AnswerChat
    <2>1. PICK c \in chatCalls :
            /\ \/ (V!Answer(c) \/ V!Receive(c)) /\ UNCHANGED libVars
               \/ /\ V!ServeAttach(c) /\ L!Store(c.doc, c.ws, FALSE) /\ libCalls' = L!Overtake(libCalls)
                  /\ UNCHANGED <<docs, loading, uploading, used>>
            /\ UNCHANGED <<tab, sessionVars>>
      BY <1>5 DEF AnswerChat
    <2>2. CASE (V!Answer(c) \/ V!Receive(c)) /\ UNCHANGED libVars
      BY <1>3, <2>1, <2>2, AttachSteps
    <2>3. CASE /\ V!ServeAttach(c) /\ L!Store(c.doc, c.ws, FALSE) /\ libCalls' = L!Overtake(libCalls)
               /\ UNCHANGED <<docs, loading, uploading, used>>
      BY <2>1, <2>3 DEF LibStep
    <2>4. QED
      BY <2>1, <2>2, <2>3
  <1>6. CASE AnswerLibrary
    <2>1. PICK c \in libCalls :
            /\ L!ServeUpload(c) \/ L!ServeList(c) \/ L!ServeRemove(c) \/ L!Receive(c, token = owner[c.ws])
            /\ UNCHANGED <<chatCalls, tab, sessionVars>>
      BY <1>6 DEF AnswerLibrary, chatVars
    <2>2. (token = owner[c.ws]) \in BOOLEAN
      OBVIOUS
    <2>3. QED
      BY <2>1, <2>2 DEF LibStep
  <1>7. CASE Poll \/ \E s \in BellSlots : AnswerBell(s)
    BY <1>3, <1>7, AttachSteps DEF Poll, AnswerBell, chatVars
  <1>8. CASE AnswerSession
    BY <1>2, <1>8 DEF AnswerSession
  <1>9. CASE Fail
    <2>1. CASE \E c \in chatCalls : V!Fail(c) /\ UNCHANGED <<sessionVars, libVars, bellVars>>
      BY <1>3, <1>9, <2>1, AttachSteps DEF Fail
    <2>2. CASE \E c \in libCalls : L!Fail(c) /\ UNCHANGED <<sessionVars, chatVars, bellVars>>
      BY <1>9, <2>2 DEF Fail, LibStep, chatVars
    <2>3. CASE \E c \in bellCalls : B!Fail(c) /\ UNCHANGED <<sessionVars, chatVars, libVars>>
      BY <1>3, <1>9, <2>3, AttachSteps DEF Fail, chatVars
    <2>4. CASE \E f \in flows : S!Fail(f) /\ UNCHANGED <<chatVars, libVars, bellVars>>
      <3>1. UNCHANGED <<tab, ready, user, current, chatCalls, libVars>>
        BY <1>9, <2>4 DEF Fail, S!Fail, chatVars
      <3>2. QED
        BY <3>1, AttachSteps DEF LibStep, Screen, Shell
    <2>5. QED
      BY <1>9, <2>1, <2>2, <2>3, <2>4 DEF Fail
  <1>10. CASE UNCHANGED vars
    BY <1>3, <1>10, AttachSteps DEF vars, chatVars
  <1>11. QED
    BY <1>4, <1>5, <1>6, <1>7, <1>8, <1>9, <1>10 DEF Next

LEMMA LibTypes == L!TypeOK /\ V!TypeOK /\ S!TypeOK /\ S!TypeOK' /\ LibStep => L!TypeOK'
  <1> SUFFICES ASSUME L!TypeOK, V!TypeOK, S!TypeOK, S!TypeOK', LibStep PROVE L!TypeOK'
    OBVIOUS
  <1>1. (InLib => current \in Workspaces) /\ (InLib' => current' \in Workspaces)
    BY DEF InLib, On, Screen, S!TypeOK
  <1>2. CASE UNCHANGED libVars
    BY <1>2 DEF libVars, libScreen, L!TypeOK
  <1>3. CASE LibNext
    BY <1>3, LibTypeNext
  <1>4. QED
    BY <1>1, <1>2, <1>3 DEF LibStep, LibNext, V!ServeAttach

-----------------------------------------------------------------------------
(* The library: each step keeps the invariant. *)

\* Calls that bring no other file, and have seen nothing but what is stored.
LEMMA PendingKept ==
  ASSUME L!TypeOK, PendingInv, AttachKept, used' = used,
         \A e \in libCalls' : \A d \in Files(e) : \E c \in libCalls : d \in Files(c),
         \A e, f \in libCalls' : e # f => Files(e) \cap Files(f) = {},
         \A e \in libCalls' : e.kind = "upload" /\ e.at = "sent" => e.doc \notin Rest(e),
         \A d \in Docs : Known(d)' => Known(d) \/ place[d] # None,
         \A d \in Docs : place'[d] \in {place[d], None} \/ (Coming(d) /\ ~Coming(d)')
  PROVE  PendingInv'
  <1>1. \A d : Coming(d)' => Coming(d)
    BY DEF AttachKept, Coming
  <1>2. \A d : Coming(d) => d \in used /\ place[d] = None /\ ~Known(d)
    BY DEF PendingInv
  <1>3. used \subseteq Docs
    BY DEF L!TypeOK
  <1>4. \A d : Coming(d)' => d \in used' /\ place'[d] = None /\ ~Known(d)'
    BY <1>1, <1>2, <1>3
  <1>5. \A d \in Docs : place'[d] # None \/ Known(d)' => d \in used'
    BY <1>2 DEF PendingInv
  <1>6. \A e \in libCalls' : \A d \in Files(e) : ~Attaching(d)'
    BY DEF AttachKept, PendingInv
  <1>7. OneAttach'
    BY DEF AttachKept, PendingInv
  <1>8. QED
    BY <1>4, <1>5, <1>6, <1>7 DEF PendingInv

\* The view is the one that made its live calls.
SameView == UNCHANGED <<chatCalls, tab, sessionVars>>

LEMMA SameViewKeeps ==
  ASSUME SameView
  PROVE  AttachKept /\ (InLib' <=> InLib) /\ current' = current
  BY DEF SameView, sessionVars, AttachKept, Attaching, Attached, OneAttach, InLib, On, Screen, Shell

\* Nothing of the library changes, nor what is on the screen.
LEMMA LibIdle ==
  ASSUME L!TypeOK, LibInv, UNCHANGED libVars, Screen' = Screen, AttachKept
  PROVE  LibInv'
  <1> USE DEF libVars, libScreen
  <1>1. InLib => current' = current
    BY DEF InLib, On, Screen
  <1>2. InLib' <=> InLib
    BY DEF InLib, On
  <1>3. \A d : Known(d)' <=> Known(d)
    BY DEF Known
  <1>4. PendingInv'
    <2>1. \A d \in Docs : place'[d] \in {place[d], None}
      OBVIOUS
    <2>2. QED
      BY <1>3, <2>1, PendingKept DEF LibInv, PendingInv
  <1>5. \A c \in libCalls : LibCallOK(c)'
    BY <1>1, <1>2 DEF LibInv, LibCallOK, L!Held
  <1>6. ListInv'
    BY <1>1, <1>2 DEF LibInv, ListInv, Removed, L!Held
  <1>7. QED
    BY <1>4, <1>5, <1>6 DEF LibInv

\* A call whose view is gone goes on for the server alone.
Left(e, c) ==
  /\ ~e.live /\ e.kind = c.kind /\ e.doc = c.doc /\ e.ws = c.ws /\ e.seen = c.seen /\ e.at = c.at
  /\ e.kind = "upload" \/ (e.kind = "remove" /\ e.at = "sent")
  /\ Files(e) \subseteq Files(c) /\ Rest(e) \subseteq Rest(c)

LEMMA OrphanLeft ==
  ASSUME L!TypeOK, PendingInv
  PROVE  /\ \A e \in L!Orphans : \E c \in libCalls : Left(e, c)
         /\ \A e, f \in L!Orphans : e # f => Files(e) \cap Files(f) = {}
  <1>1. ASSUME NEW c \in libCalls, c.kind = "upload" \/ (c.kind = "remove" /\ c.at = "sent")
        PROVE  Left([c EXCEPT !.live = FALSE], c) /\ Files([c EXCEPT !.live = FALSE]) = Files(c)
    BY <1>1 DEF L!TypeOK, L!Call, Left, Files, Rest
  <1>2. \A e \in L!Orphans : \E c \in libCalls :
          e = [c EXCEPT !.live = FALSE] /\ (c.kind = "upload" \/ (c.kind = "remove" /\ c.at = "sent"))
    BY DEF L!Orphans
  <1>3. \A e \in L!Orphans : \E c \in libCalls :
          e = [c EXCEPT !.live = FALSE] /\ Left(e, c) /\ Files(e) = Files(c)
    BY <1>1, <1>2
  <1>4. QED
    BY <1>3 DEF PendingInv

LEMMA ClosedLeft ==
  ASSUME L!TypeOK, PendingInv, NEW C, C = {[c EXCEPT !.rest = <<>>] : c \in {d \in L!Orphans : d.at = "sent"}}
  PROVE  /\ \A e \in C : \E c \in libCalls : Left(e, c)
         /\ \A e, f \in C : e # f => Files(e) \cap Files(f) = {}
  <1>1. L!Orphans \subseteq L!Call
    BY LibOrphansType DEF L!TypeOK
  <1>2. ASSUME NEW c \in L!Orphans, NEW b \in libCalls, Left(c, b)
        PROVE  Left([c EXCEPT !.rest = <<>>], b) /\ Files([c EXCEPT !.rest = <<>>]) \subseteq Files(c)
    BY <1>1, <1>2 DEF L!Call, Left, Files, Rest
  <1>3. QED
    BY <1>2, OrphanLeft

\* A view that is mounted or gone: nothing listed, its calls left behind.
LEMMA LibMounts ==
  ASSUME L!TypeOK, LibInv, AttachKept, L!Reset, NEW C,
         \A e \in C : \E c \in libCalls : Left(e, c),
         \A e, f \in C : e # f => Files(e) \cap Files(f) = {},
         \/ libCalls' = C
         \/ /\ InLib' /\ \E s : libCalls' = C \cup {L!Request(s, "list", current', None, <<>>)}
  PROVE  LibInv'
  <1> DEFINE New(e) == /\ e.kind = "list" /\ e.live /\ e.at = "sent" /\ e.ws = current' /\ e.seen = {}
                       /\ Files(e) = {} /\ InLib'
  <1>1. \A e \in libCalls' : (e \in C /\ \E c \in libCalls : Left(e, c)) \/ New(e)
    BY DEF L!Request, Files
  <1>2. \A e \in libCalls' : \A d \in Files(e) : \E c \in libCalls : d \in Files(c)
    BY <1>1 DEF Left
  <1>3. \A e, f \in libCalls' : e # f => Files(e) \cap Files(f) = {}
    BY <1>1
  <1>4. \A e \in libCalls' : e.kind = "upload" /\ e.at = "sent" => e.doc \notin Rest(e)
    BY <1>1 DEF Left, LibInv, PendingInv
  <1>5. \A d \in Docs : Known(d)' => Known(d)
    BY <1>1 DEF Left, Known, L!Reset
  <1>6. PendingInv'
    BY <1>2, <1>3, <1>4, <1>5, PendingKept DEF L!Reset, LibInv
  <1>7. \A e \in libCalls' : LibCallOK(e)'
    BY <1>1 DEF Left, LibInv, LibCallOK, L!Reset
  <1>8. ListInv'
    BY DEF L!Reset, ListInv
  <1>9. QED
    BY <1>6, <1>7, <1>8 DEF LibInv

LEMMA LibMountKeeps ==
  ASSUME L!TypeOK, LibInv, AttachKept,
         L!Leave \/ L!Close \/ (L!Enter /\ InLib')
  PROVE  LibInv'
  <1>1. /\ \A e \in L!Orphans : \E c \in libCalls : Left(e, c)
        /\ \A e, f \in L!Orphans : e # f => Files(e) \cap Files(f) = {}
    BY OrphanLeft DEF LibInv
  <1>2. CASE L!Leave
    BY <1>1, <1>2, LibMounts DEF L!Leave
  <1>3. CASE L!Close
    <2>1. PICK C : C = {[c EXCEPT !.rest = <<>>] : c \in {d \in L!Orphans : d.at = "sent"}}
      OBVIOUS
    <2>2. /\ \A e \in C : \E c \in libCalls : Left(e, c)
          /\ \A e, f \in C : e # f => Files(e) \cap Files(f) = {}
      BY <2>1, ClosedLeft DEF LibInv
    <2>3. L!Reset /\ libCalls' = C
      BY <1>3, <2>1 DEF L!Close
    <2>4. QED
      BY <2>2, <2>3, LibMounts
  <1>4. CASE L!Enter /\ InLib'
    <2>1. L!Reset /\ \E s : libCalls' = L!Orphans \cup {L!Request(s, "list", current', None, <<>>)}
      BY <1>4 DEF L!Enter
    <2>2. QED
      BY <1>1, <1>4, <2>1, LibMounts
  <1>5. QED
    BY <1>2, <1>3, <1>4

\* The files that are picked are new, and picked once.
LEMMA LibUploadKeeps ==
  ASSUME L!TypeOK, LibInv, InLib, SameView, L!Upload
  PROVE  LibInv'
  <1>1. PICK d, e, s :
          /\ d \in Docs \ used /\ e \in Docs \ used /\ uploading' = TRUE /\ used' = used \cup {d, e}
          /\ libCalls' = libCalls \cup {L!Request(s, "upload", current, d, IF d = e THEN <<>> ELSE <<e>>)}
          /\ UNCHANGED <<docs, loading, overtaken, place>>
    BY DEF L!Upload
  <1>2. PICK r : r = L!Request(s, "upload", current, d, IF d = e THEN <<>> ELSE <<e>>)
    OBVIOUS
  <1>3. /\ r.kind = "upload" /\ r.live /\ r.ws = current /\ r.doc = d /\ r.at = "sent" /\ r.seen = {}
        /\ Rest(r) = IF d = e THEN {} ELSE {e}
    BY <1>2 DEF L!Request, Rest
  <1>4. Files(r) = {d, e} /\ r.doc \notin Rest(r)
    BY <1>3 DEF Files
  <1>5. libCalls' = libCalls \cup {r}
    BY <1>1, <1>2
  <1>6. SameView /\ (InLib' <=> InLib) /\ current' = current
    BY SameViewKeeps
  <1>7. \A x : Attaching(x)' <=> Attaching(x)
    BY DEF SameView, Attaching, Attached
  <1>8. \A x : Coming(x)' => Coming(x) \/ x \in {d, e}
    BY <1>4, <1>5, <1>7 DEF Coming
  <1>9. \A x : Known(x)' <=> Known(x)
    BY <1>1, <1>3, <1>5 DEF Known
  <1>10. \A x : Coming(x) => x \in used /\ place[x] = None /\ ~Known(x)
    BY DEF LibInv, PendingInv
  <1>11. \A x \in {d, e} : ~Coming(x) /\ place[x] = None /\ ~Known(x)
    BY <1>1, <1>10 DEF LibInv, PendingInv
  <1>12. PendingInv'
    <2>1. OneAttach'
      BY DEF SameView, OneAttach, Attached, LibInv, PendingInv
    <2>2. \A c \in libCalls : Files(c) \cap Files(r) = {}
      BY <1>4, <1>11 DEF Coming
    <2>3. \A c, b \in libCalls' : c # b => Files(c) \cap Files(b) = {}
      BY <1>5, <2>2 DEF LibInv, PendingInv
    <2>4. \A c \in libCalls' : /\ c.kind = "upload" /\ c.at = "sent" => c.doc \notin Rest(c)
                               /\ \A x \in Files(c) : ~Attaching(x)'
      BY <1>4, <1>5, <1>7, <1>11 DEF LibInv, PendingInv, Coming
    <2>5. \A x : Coming(x)' => x \in used' /\ place'[x] = None /\ ~Known(x)'
      BY <1>1, <1>8, <1>9, <1>10, <1>11
    <2>6. \A x \in Docs : place'[x] # None \/ Known(x)' => x \in used'
      BY <1>1, <1>9 DEF LibInv, PendingInv
    <2>7. QED
      BY <2>1, <2>3, <2>4, <2>5, <2>6 DEF PendingInv
  <1>13. \A c \in libCalls' : LibCallOK(c)'
    BY <1>1, <1>3, <1>5, <1>6 DEF LibInv, LibCallOK, L!Held
  <1>14. ListInv'
    BY <1>1, <1>3, <1>5, <1>6 DEF LibInv, ListInv
  <1>15. QED
    BY <1>12, <1>13, <1>14 DEF LibInv

LEMMA LibRemoveKeeps ==
  ASSUME L!TypeOK, LibInv, InLib, SameView, L!Remove
  PROVE  LibInv'
  <1>1. PICK d, s :
          /\ d \in docs
          /\ libCalls' = libCalls \cup {L!Request(s, "remove", current, d, <<>>)}
          /\ UNCHANGED <<docs, loading, uploading, overtaken, place, used>>
    BY DEF L!Remove, L!libScreen
  <1>2. PICK r : r = L!Request(s, "remove", current, d, <<>>)
    OBVIOUS
  <1>3. /\ r.kind = "remove" /\ r.live /\ r.ws = current /\ r.doc = d /\ r.at = "sent" /\ r.seen = {}
        /\ Files(r) = {}
    BY <1>2 DEF L!Request, Files
  <1>4. libCalls' = libCalls \cup {r}
    BY <1>1, <1>2
  <1>5. AttachKept /\ (InLib' <=> InLib) /\ current' = current
    BY SameViewKeeps
  <1>6. d \in Docs /\ place[d] \in {current, None}
    BY <1>1 DEF L!TypeOK, LibInv, ListInv
  <1>7. PendingInv'
    <2>1. \A x \in Docs : Known(x)' => Known(x)
      BY <1>1, <1>3, <1>4 DEF Known
    <2>2. \A e \in libCalls' : \A x \in Files(e) : \E c \in libCalls : x \in Files(c)
      BY <1>3, <1>4
    <2>3. \A e, f \in libCalls' : e # f => Files(e) \cap Files(f) = {}
      BY <1>3, <1>4 DEF LibInv, PendingInv
    <2>4. \A e \in libCalls' : e.kind = "upload" /\ e.at = "sent" => e.doc \notin Rest(e)
      BY <1>3, <1>4 DEF LibInv, PendingInv
    <2>5. QED
      BY <1>1, <1>5, <2>1, <2>2, <2>3, <2>4, PendingKept DEF LibInv
  <1>8. \A c \in libCalls' : LibCallOK(c)'
    BY <1>1, <1>3, <1>4, <1>5, <1>6 DEF LibInv, LibCallOK, L!Held
  <1>9. ListInv'
    <2>1. Removed' = Removed
      BY <1>3, <1>4 DEF Removed
    <2>2. QED
      BY <1>1, <1>3, <1>4, <1>5, <2>1 DEF LibInv, ListInv, L!Held
  <1>10. QED
    BY <1>7, <1>8, <1>9 DEF LibInv

\* A file attached to the chat is new.
LEMMA LibAttachKeeps ==
  ASSUME V!TypeOK, L!TypeOK, LibInv, NEW d \in Docs \ used, V!Attach(d), used' = used \cup {d},
         UNCHANGED <<libScreen, libCalls, place, tab, sessionVars>>
  PROVE  LibInv'
  <1>1. PICK s : chatCalls' = chatCalls \cup {V!Request(s, "attach", current, None, None, d)}
    BY DEF V!Attach
  <1>2. PICK r : r = V!Request(s, "attach", current, None, None, d)
    OBVIOUS
  <1>3. r.kind = "attach" /\ r.doc = d /\ r.at = "sent" /\ chatCalls' = chatCalls \cup {r}
    BY <1>1, <1>2 DEF V!Request
  <1>4. \A x : Attaching(x)' => Attaching(x) \/ x = d
    BY <1>3 DEF Attaching, Attached
  <1>5. UNCHANGED <<docs, loading, overtaken, libCalls, place>> /\ current' = current /\ (InLib' <=> InLib)
    BY DEF libScreen, sessionVars, InLib, On, Screen, Shell
  <1>6. \A x : (Known(x)' <=> Known(x)) /\ (Coming(x)' => Coming(x) \/ x = d)
    BY <1>4, <1>5 DEF Known, Coming
  <1>7. \A x : Coming(x) => x \in used /\ place[x] = None /\ ~Known(x)
    BY DEF LibInv, PendingInv
  <1>8. ~Coming(d) /\ place[d] = None /\ ~Known(d)
    BY <1>7 DEF LibInv, PendingInv
  <1>9. PendingInv'
    <2>1. OneAttach'
      BY <1>3, <1>8 DEF Coming, Attaching, Attached, OneAttach, LibInv, PendingInv
    <2>2. \A c \in libCalls : \A x \in Files(c) : ~Attaching(x)'
      BY <1>4, <1>8 DEF LibInv, PendingInv, Coming
    <2>3. \A x : Coming(x)' => x \in used' /\ place'[x] = None /\ ~Known(x)'
      BY <1>5, <1>6, <1>7, <1>8
    <2>4. \A x \in Docs : place'[x] # None \/ Known(x)' => x \in used'
      BY <1>5, <1>6 DEF LibInv, PendingInv
    <2>5. QED
      BY <1>5, <2>1, <2>2, <2>3, <2>4 DEF LibInv, PendingInv
  <1>10. \A c \in libCalls : LibCallOK(c)'
    BY <1>5 DEF LibInv, LibCallOK, L!Held
  <1>11. ListInv'
    BY <1>5 DEF LibInv, ListInv, Removed, L!Held
  <1>12. QED
    BY <1>5, <1>9, <1>10, <1>11 DEF LibInv

\* A call after a document has changed: its list, if it has one, is late.
Passed(e, c) ==
  /\ e.kind = c.kind /\ e.live = c.live /\ e.ws = c.ws /\ e.doc = c.doc /\ e.rest = c.rest
  /\ e.at = c.at /\ e.seen = c.seen
  /\ e.kind = "list" /\ e.at = "answered" => e.late

LEMMA Overtaken ==
  ASSUME NEW C \in SUBSET L!Call
  PROVE  /\ \A e \in L!Overtake(C) : \E c \in C : Passed(e, c)
         /\ \A c \in C : \E e \in L!Overtake(C) : Passed(e, c)
         /\ (\A c, b \in C : c # b => Files(c) \cap Files(b) = {})
              => \A e, f \in L!Overtake(C) : e # f => Files(e) \cap Files(f) = {}
  <1> DEFINE o(c) == IF c.kind = "list" /\ c.at = "answered" THEN [c EXCEPT !.late = TRUE] ELSE c
  <1>1. \A c \in C : Passed(o(c), c) /\ Files(o(c)) = Files(c)
    BY DEF L!Call, Passed, Files, Rest
  <1>2. L!Overtake(C) = {o(c) : c \in C}
    BY DEF L!Overtake
  <1> HIDE DEF o
  <1>3. \A e \in L!Overtake(C) : \E c \in C : e = o(c) /\ Passed(e, c) /\ Files(e) = Files(c)
    BY <1>1, <1>2
  <1>4. \A c \in C : \E e \in L!Overtake(C) : Passed(e, c)
    BY <1>1, <1>2
  <1>5. ASSUME \A c, b \in C : c # b => Files(c) \cap Files(b) = {},
               NEW e \in L!Overtake(C), NEW f \in L!Overtake(C), e # f
        PROVE  Files(e) \cap Files(f) = {}
    BY <1>3, <1>5
  <1>6. QED
    BY <1>3, <1>4, <1>5

\* A file that was on its way is stored: C are the calls as the store leaves them.
LEMMA LibStores ==
  ASSUME L!TypeOK, LibInv, NEW d \in Docs, NEW w \in Workspaces, NEW C \in SUBSET L!Call,
         place' = [place EXCEPT ![d] = w], libCalls' = L!Overtake(C), AttachKept,
         UNCHANGED <<docs, loading, used, current>>, InLib' <=> InLib, InLib => current \in Workspaces,
         Coming(d), ~Coming(d)',
         \A e \in C : \/ e \in libCalls
                      \/ /\ e.kind = "upload" /\ e.at # "sent"
                         /\ \E c \in libCalls : /\ c.kind = "upload" /\ c.live = e.live /\ c.ws = e.ws
                                                /\ c.seen = e.seen /\ c.rest = e.rest,
         \A c, b \in C : c # b => Files(c) \cap Files(b) = {},
         \A c \in libCalls : c.kind = "remove" => c \in C,
         \A c \in libCalls : c.live /\ c.kind = "upload" => \E e \in C : e.live /\ e.kind = "upload",
         \/ ~overtaken' => ~overtaken /\ w # current
         \/ \E e \in C : e.live /\ e.kind = "upload"
  PROVE  LibInv'
  <1>1. ~Known(d) /\ place[d] = None
    BY DEF LibInv, PendingInv
  <1>2. \A x \in Docs : x # d => place'[x] = place[x]
    BY DEF L!TypeOK
  <1>3. \A e \in libCalls' : \E c \in C : Passed(e, c)
    BY Overtaken
  <1>4. \A e \in libCalls' : Files(e) = {} \/ \E c \in libCalls : Files(e) \subseteq Files(c)
    BY <1>3 DEF Passed, Files, Rest
  <1>5. \A e \in libCalls' : \E c \in libCalls :
          /\ e.kind = c.kind /\ e.live = c.live /\ e.ws = c.ws /\ e.seen = c.seen
          /\ e.kind = "upload" \/ (e.doc = c.doc /\ e.at = c.at)
    BY <1>3 DEF Passed
  <1>6. \A x : Known(x)' => Known(x)
    BY <1>5 DEF Known
  <1>7. PendingInv'
    <2>1. \A e \in libCalls' : \A x \in Files(e) : \E c \in libCalls : x \in Files(c)
      BY <1>4
    <2>2. \A e, f \in libCalls' : e # f => Files(e) \cap Files(f) = {}
      BY Overtaken
    <2>3. \A e \in libCalls' : e.kind = "upload" /\ e.at = "sent" => e.doc \notin Rest(e)
      BY <1>3 DEF Passed, Rest, LibInv, PendingInv
    <2>4. \A x \in Docs : place'[x] \in {place[x], None} \/ (Coming(x) /\ ~Coming(x)')
      BY <1>2
    <2>5. QED
      BY <1>6, <2>1, <2>2, <2>3, <2>4, PendingKept DEF LibInv
  <1>8. ASSUME NEW e \in libCalls' PROVE LibCallOK(e)'
    <2>1. PICK c \in libCalls :
            /\ e.kind = c.kind /\ e.live = c.live /\ e.ws = c.ws /\ e.seen = c.seen
            /\ e.kind = "upload" \/ (e.doc = c.doc /\ e.at = c.at)
      BY <1>5
    <2>2. e.kind = "list" /\ e.at = "answered" => e.late
      BY <1>3 DEF Passed
    <2>3. c.seen \subseteq Docs
      BY DEF L!TypeOK, L!Call
    <2>4. \A x \in c.seen : x # d /\ x \in Docs /\ place'[x] = place[x]
      BY <1>1, <1>2, <2>3 DEF Known
    <2>5. c.kind = "remove" => c.doc # d /\ c.doc \in Docs /\ place'[c.doc] = place[c.doc]
      BY <1>1, <1>2 DEF Known, LibInv, LibCallOK
    <2>6. LibCallOK(c)
      BY DEF LibInv
    <2>7. QED
      BY <2>1, <2>2, <2>4, <2>5, <2>6 DEF LibCallOK
  <1>9. ListInv'
    <2>1. \A x \in docs : x \in Docs /\ place'[x] = place[x]
      BY <1>1, <1>2 DEF Known, L!TypeOK
    <2>2. Removed' = Removed
      <3>1. \A c \in libCalls : c.kind = "remove" => \E e \in libCalls' : Passed(e, c)
        BY Overtaken
      <3>2. QED
        BY <1>5, <3>1 DEF Removed, Passed
    <2>3. ASSUME ~loading', ~overtaken', \A e \in libCalls' : e.live => e.kind # "upload"
          PROVE  docs' \ Removed' = L!Held(current)'
      <3>1. \A e \in C : e.live => e.kind # "upload"
        BY <2>3, Overtaken DEF Passed
      <3>2. ~loading /\ ~overtaken /\ w # current /\ \A c \in libCalls : c.live => c.kind # "upload"
        BY <2>3, <3>1
      <3>3. current \in Workspaces
        BY <3>2 DEF LibInv, ListInv
      <3>4. L!Held(current)' = L!Held(current)
        BY <1>1, <1>2, <3>2, <3>3, NoneAssumption DEF L!Held, L!TypeOK
      <3>5. QED
        BY <2>2, <3>2, <3>4 DEF LibInv, ListInv
    <2>4. QED
      BY <2>1, <2>3 DEF LibInv, ListInv
  <1>10. QED
    BY <1>7, <1>8, <1>9 DEF LibInv

LEMMA LibServeAttachKeeps ==
  ASSUME V!TypeOK, L!TypeOK, S!TypeOK, LibInv, NEW c \in chatCalls, V!ServeAttach(c),
         L!Store(c.doc, c.ws, FALSE), libCalls' = L!Overtake(libCalls),
         UNCHANGED <<docs, loading, uploading, used, tab, sessionVars>>
  PROVE  LibInv'
  <1>1. c \in Attached /\ Attaching(c.doc)
    BY DEF V!ServeAttach, Attached, Attaching
  <1>2. Attached' \subseteq Attached \ {c}
    BY DEF V!ServeAttach, V!Answered, V!Replace, V!Drop, Attached, V!TypeOK, V!Call
  <1>3. AttachKept /\ ~Attaching(c.doc)'
    BY <1>1, <1>2 DEF AttachKept, Attaching, OneAttach, LibInv, PendingInv
  <1>4. \A e \in libCalls : c.doc \notin Files(e)
    BY <1>1 DEF LibInv, PendingInv
  <1>5. libCalls \in SUBSET L!Call
    BY DEF L!TypeOK
  <1>6. \A e \in libCalls' : c.doc \notin Files(e)
    BY <1>4, <1>5, Overtaken DEF Passed, Files, Rest
  <1>7. Coming(c.doc) /\ ~Coming(c.doc)'
    BY <1>1, <1>3, <1>6 DEF Coming
  <1>8. c.doc \in Docs /\ c.ws \in Workspaces
    BY <1>7 DEF LibInv, PendingInv, L!TypeOK, V!TypeOK, V!Call
  <1>9. (InLib' <=> InLib) /\ current' = current /\ (InLib => current \in Workspaces)
    BY DEF sessionVars, InLib, On, Screen, Shell, S!TypeOK
  <1>10. \A e, f \in libCalls : e # f => Files(e) \cap Files(f) = {}
    BY DEF LibInv, PendingInv
  <1>11. place' = [place EXCEPT ![c.doc] = c.ws] /\ (~overtaken' => ~overtaken /\ c.ws # current)
    BY DEF L!Store
  <1>12. QED
    BY <1>3, <1>5, <1>7, <1>8, <1>9, <1>10, <1>11, LibStores

LEMMA LibServeUploadKeeps ==
  ASSUME L!TypeOK, S!TypeOK, LibInv, NEW c \in libCalls, L!ServeUpload(c), SameView
  PROVE  LibInv'
  <1> DEFINE u == [c EXCEPT !.at = "answered"]
             C == (libCalls \ {c}) \cup {u}
  <1>1. /\ c.kind = "upload" /\ c.at = "sent" /\ libCalls' = L!Overtake(C)
        /\ place' = [place EXCEPT ![c.doc] = c.ws]
        /\ ~overtaken' => ~overtaken /\ (c.live \/ c.ws # current)
        /\ UNCHANGED <<docs, loading, used>>
    BY DEF L!ServeUpload, L!Store, L!Answered, L!Replace
  <1>2. c \in L!Call
    BY DEF L!TypeOK
  <1>3. /\ u.kind = "upload" /\ u.at = "answered" /\ u.live = c.live /\ u.ws = c.ws
        /\ u.seen = c.seen /\ u.rest = c.rest
    BY <1>1, <1>2 DEF L!Call
  <1>4. Files(u) = Rest(c) /\ Files(c) = Rest(c) \cup {c.doc} /\ c.doc \notin Rest(c)
    BY <1>1, <1>3 DEF Files, Rest, LibInv, PendingInv
  <1>5. C \in SUBSET L!Call
    BY <1>2, LibCallTypes DEF L!TypeOK
  <1> HIDE DEF u
  <1>6. \A e, f \in C : e # f => Files(e) \cap Files(f) = {}
    BY <1>4 DEF LibInv, PendingInv
  <1>7. \A e \in C : c.doc \notin Files(e)
    BY <1>4 DEF LibInv, PendingInv
  <1>8. AttachKept /\ (InLib' <=> InLib) /\ current' = current
    BY SameViewKeeps
  <1>9. ~Attaching(c.doc)'
    BY <1>4, <1>8 DEF AttachKept, LibInv, PendingInv
  <1>10. \A e \in libCalls' : c.doc \notin Files(e)
    BY <1>1, <1>5, <1>7, Overtaken DEF Passed, Files, Rest
  <1>11. Coming(c.doc) /\ ~Coming(c.doc)'
    BY <1>4, <1>9, <1>10 DEF Coming
  <1>12. c.doc \in Docs /\ c.ws \in Workspaces
    BY <1>2, <1>11 DEF LibInv, PendingInv, L!TypeOK, L!Call
  <1>13. InLib => current \in Workspaces
    BY DEF InLib, On, Screen, S!TypeOK
  <1>14. \A e \in C : \/ e \in libCalls
                      \/ /\ e.kind = "upload" /\ e.at # "sent"
                         /\ \E b \in libCalls : /\ b.kind = "upload" /\ b.live = e.live /\ b.ws = e.ws
                                                /\ b.seen = e.seen /\ b.rest = e.rest
    BY <1>1, <1>3
  <1>15. /\ \A b \in libCalls : b.kind = "remove" => b \in C
         /\ \A b \in libCalls : b.live /\ b.kind = "upload" => \E e \in C : e.live /\ e.kind = "upload"
         /\ (~overtaken' => ~overtaken /\ c.ws # current) \/ \E e \in C : e.live /\ e.kind = "upload"
    BY <1>1, <1>3
  <1> HIDE DEF C
  <1>16. QED
    BY <1>1, <1>5, <1>6, <1>8, <1>11, <1>12, <1>13, <1>14, <1>15, LibStores

\* A call takes the next step of its own, and leaves the documents as they are.
LEMMA LibReplaced ==
  ASSUME L!TypeOK, LibInv, SameView, UNCHANGED <<used, place>>, NEW c \in libCalls, NEW N,
         libCalls' = (libCalls \ {c}) \cup N,
         \A n \in N : /\ Files(n) \subseteq Files(c) /\ LibCallOK(n)
                      /\ n.kind = "upload" /\ n.at = "sent" => n.doc \notin Rest(n)
                      /\ n.kind = "remove" => c.kind = "remove" /\ n.doc = c.doc
                      /\ n.seen \subseteq c.seen \/ \A x \in n.seen : place[x] # None,
         \A n, m \in N : n # m => Files(n) \cap Files(m) = {},
         \A x \in docs' : Known(x)
  PROVE  PendingInv' /\ \A e \in libCalls' : LibCallOK(e)'
  <1>1. AttachKept /\ (InLib' <=> InLib) /\ current' = current
    BY SameViewKeeps
  <1>2. \A x : Known(x)' => Known(x) \/ place[x] # None
    BY DEF Known
  <1>3. \A e \in libCalls' : \A x \in Files(e) : \E b \in libCalls : x \in Files(b)
    OBVIOUS
  <1>4. \A e, f \in libCalls' : e # f => Files(e) \cap Files(f) = {}
    BY DEF LibInv, PendingInv
  <1>5. \A e \in libCalls' : e.kind = "upload" /\ e.at = "sent" => e.doc \notin Rest(e)
    BY DEF LibInv, PendingInv
  <1>6. PendingInv'
    BY <1>1, <1>2, <1>3, <1>4, <1>5, PendingKept DEF LibInv
  <1>7. \A e : LibCallOK(e) => LibCallOK(e)'
    BY <1>1 DEF LibCallOK, L!Held
  <1>8. QED
    BY <1>6, <1>7 DEF LibInv

LEMMA LibMoved ==
  ASSUME L!TypeOK, LibInv, SameView, used' = used, place' = place, NEW c \in libCalls, NEW u,
         libCalls' = (libCalls \ {c}) \cup {u},
         Files(u) \subseteq Files(c), LibCallOK(u),
         u.kind = "upload" /\ u.at = "sent" => u.doc \notin Rest(u),
         u.kind = "remove" => c.kind = "remove" /\ u.doc = c.doc,
         u.seen \subseteq c.seen \/ \A x \in u.seen : place[x] # None,
         \A x \in docs' : Known(x)
  PROVE  PendingInv' /\ \A e \in libCalls' : LibCallOK(e)'
  <1>1. PICK N : N = {u}
    OBVIOUS
  <1>2. libCalls' = (libCalls \ {c}) \cup N /\ \A n \in N : n = u
    BY <1>1
  <1>3. QED
    BY <1>2, LibReplaced

LEMMA LibDropped ==
  ASSUME L!TypeOK, LibInv, SameView, used' = used, place' = place, NEW c \in libCalls,
         libCalls' = libCalls \ {c}, \A x \in docs' : Known(x)
  PROVE  PendingInv' /\ \A e \in libCalls' : LibCallOK(e)'
  <1>1. PICK N : N = {}
    OBVIOUS
  <1>2. libCalls' = (libCalls \ {c}) \cup N /\ \A n \in N : FALSE
    BY <1>1
  <1>3. QED
    BY <1>2, LibReplaced

LEMMA LibServeListKeeps ==
  ASSUME L!TypeOK, LibInv, NEW c \in libCalls, L!ServeList(c), SameView
  PROVE  LibInv'
  <1>1. PICK u : u = [[c EXCEPT !.seen = L!Held(c.ws)] EXCEPT !.at = "answered"]
    OBVIOUS
  <1>2. c \in L!Call /\ c.kind = "list" /\ c.at = "sent" /\ libCalls' = (libCalls \ {c}) \cup {u}
    BY <1>1 DEF L!ServeList, L!Answered, L!Replace, L!TypeOK
  <1>3. u.kind = "list" /\ u.live = c.live /\ u.ws = c.ws /\ u.seen = L!Held(c.ws) /\ Files(u) = {}
    BY <1>1, <1>2 DEF L!Call, Files
  <1>4. UNCHANGED <<docs, loading, overtaken, used, place>>
    BY DEF L!ServeList, L!libScreen
  <1>5. LibCallOK(c)
    BY DEF LibInv
  <1>6. LibCallOK(u)
    BY <1>2, <1>3, <1>5 DEF LibCallOK, L!Held
  <1>7. \A x \in u.seen : place[x] # None
    BY <1>2, <1>3, NoneAssumption DEF L!Held, L!Call
  <1>8. PendingInv' /\ \A e \in libCalls' : LibCallOK(e)'
    BY <1>2, <1>3, <1>4, <1>6, <1>7, LibMoved DEF Known
  <1>9. (InLib' <=> InLib) /\ current' = current
    BY SameViewKeeps
  <1>10. Removed' = Removed /\ \A e \in libCalls : e.live /\ e.kind = "upload" => e \in libCalls'
    BY <1>2, <1>3 DEF Removed
  <1>11. ListInv'
    BY <1>4, <1>9, <1>10 DEF LibInv, ListInv, L!Held
  <1>12. QED
    BY <1>8, <1>11 DEF LibInv

LEMMA LibReceiveListKeeps ==
  ASSUME L!TypeOK, LibInv, NEW c \in libCalls, L!ReceiveList(c), SameView
  PROVE  LibInv'
  <1>1. c.kind = "list" /\ libCalls' = libCalls \ {c} /\ UNCHANGED <<used, place>>
    BY DEF L!ReceiveList, L!Drop
  <1>2. \A x \in docs' : Known(x)
    BY DEF L!ReceiveList, Known
  <1>3. PendingInv' /\ \A e \in libCalls' : LibCallOK(e)'
    BY <1>1, <1>2, LibDropped
  <1>4. InLib' /\ current' = current /\ c.ws = current /\ LibCallOK(c)
    BY <1>1, SameViewKeeps DEF LibInv, LibCallOK
  <1>5. Removed' = Removed
    BY <1>1 DEF Removed
  <1>6. CASE c.at = "answered"
    <2>1. docs' = c.seen /\ overtaken' = c.late
      BY <1>6 DEF L!ReceiveList
    <2>2. \A d \in Removed : place[d] = None
      BY DEF Removed, LibInv, LibCallOK
    <2>3. InLib /\ current \in Workspaces
      BY <1>1, <1>4 DEF LibCallOK, L!TypeOK, L!Call
    <2>4. \A d \in Removed : d \notin L!Held(current)
      BY <2>2, <2>3, NoneAssumption DEF L!Held
    <2>5. \A d \in docs' : place'[d] \in {current', None}
      BY <1>1, <1>4, <2>1 DEF LibCallOK
    <2>6. ~overtaken' => docs' \ Removed' = L!Held(current)'
      BY <1>1, <1>4, <1>5, <1>6, <2>1, <2>4 DEF LibCallOK, L!Held
    <2>7. QED
      BY <1>3, <1>4, <2>5, <2>6 DEF LibInv, ListInv
  <1>7. CASE c.at # "answered"
    <2>1. docs' = docs /\ overtaken'
      BY <1>7 DEF L!ReceiveList
    <2>2. QED
      BY <1>1, <1>3, <1>4, <2>1 DEF LibInv, ListInv
  <1>8. QED
    BY <1>6, <1>7

LEMMA LibReceiveRemoveKeeps ==
  ASSUME L!TypeOK, LibInv, NEW c \in libCalls, L!ReceiveRemove(c), SameView
  PROVE  LibInv'
  <1>1. /\ c.kind = "remove" /\ libCalls' = libCalls \ {c} /\ UNCHANGED <<used, place, loading, overtaken>>
        /\ docs' = IF c.at = "answered" THEN docs \ {c.doc} ELSE docs
    BY DEF L!ReceiveRemove, L!Drop
  <1>2. PendingInv' /\ \A e \in libCalls' : LibCallOK(e)'
    BY <1>1, LibDropped DEF Known
  <1>3. (InLib' <=> InLib) /\ current' = current
    BY SameViewKeeps
  <1>4. docs' \ Removed' = docs \ Removed
    BY <1>1 DEF Removed
  <1>5. \A e \in libCalls : e.live /\ e.kind = "upload" => e \in libCalls'
    BY <1>1
  <1>6. ListInv'
    BY <1>1, <1>3, <1>4, <1>5 DEF LibInv, ListInv, L!Held
  <1>7. QED
    BY <1>2, <1>6 DEF LibInv

LEMMA LibReceiveUploadKeeps ==
  ASSUME L!TypeOK, LibInv, NEW c \in libCalls, NEW may \in BOOLEAN, L!ReceiveUpload(c, may), SameView
  PROVE  LibInv'
  <1>1. c \in L!Call /\ c.kind = "upload" /\ c.at # "sent" /\ UNCHANGED <<docs, overtaken, place, used>>
    BY DEF L!ReceiveUpload, L!TypeOK
  <1>2. Files(c) = Rest(c) /\ LibCallOK(c)
    BY <1>1 DEF Files, LibInv
  <1>3. (InLib' <=> InLib) /\ current' = current
    BY SameViewKeeps
  <1>4. \A x \in docs' : Known(x)
    BY <1>1 DEF Known
  <1>5. CASE c.rest # <<>>
    <2>1. PICK u : u = [c EXCEPT !.doc = Head(c.rest), !.rest = <<>>, !.at = IF may THEN "sent" ELSE "failed"]
      OBVIOUS
    <2>2. libCalls' = (libCalls \ {c}) \cup {u} /\ UNCHANGED loading
      BY <1>5, <2>1 DEF L!ReceiveUpload, L!Replace
    <2>3. c.rest \in Seq(Docs)
      BY <1>1 DEF L!Call
    <2>4. Head(c.rest) \in Rest(c)
      BY <1>5, <2>3 DEF Rest
    <2>5. /\ u.kind = "upload" /\ u.live = c.live /\ u.ws = c.ws /\ u.seen = c.seen
          /\ Rest(u) = {} /\ Files(u) \subseteq Rest(c)
      BY <1>1, <2>1, <2>4 DEF L!Call, Rest, Files
    <2>6. LibCallOK(u)
      BY <1>1, <1>2, <2>5 DEF LibCallOK
    <2>7. PendingInv' /\ \A e \in libCalls' : LibCallOK(e)'
      BY <1>1, <1>2, <1>4, <2>2, <2>5, <2>6, LibMoved
    <2>8. /\ Removed' = Removed
          /\ \A e \in libCalls : e.live /\ e.kind = "upload" => \E f \in libCalls' : f.live /\ f.kind = "upload"
      BY <1>1, <2>2, <2>5 DEF Removed
    <2>9. ListInv'
      BY <1>1, <1>3, <2>2, <2>8 DEF LibInv, ListInv, L!Held
    <2>10. QED
      BY <2>7, <2>9 DEF LibInv
  <1>6. CASE c.rest = <<>> /\ c.live
    <2>1. PICK u : u = L!Request(c.slot, "list", c.ws, None, <<>>)
      OBVIOUS
    <2>2. libCalls' = (libCalls \ {c}) \cup {u} /\ loading'
      BY <1>6, <2>1 DEF L!ReceiveUpload, L!Replace
    <2>3. u.kind = "list" /\ u.live /\ u.ws = c.ws /\ u.seen = {} /\ u.at = "sent" /\ Files(u) = {}
      BY <2>1 DEF L!Request, Files
    <2>4. LibCallOK(u)
      BY <1>2, <1>6, <2>3 DEF LibCallOK
    <2>5. PendingInv' /\ \A e \in libCalls' : LibCallOK(e)'
      BY <1>1, <1>4, <2>2, <2>3, <2>4, LibMoved
    <2>6. ListInv'
      BY <1>1, <1>3, <2>2 DEF LibInv, ListInv
    <2>7. QED
      BY <2>5, <2>6 DEF LibInv
  <1>7. CASE c.rest = <<>> /\ ~c.live
    <2>1. libCalls' = libCalls \ {c} /\ UNCHANGED loading
      BY <1>7 DEF L!ReceiveUpload, L!Drop
    <2>2. PendingInv' /\ \A e \in libCalls' : LibCallOK(e)'
      BY <1>1, <1>4, <2>1, LibDropped
    <2>3. Removed' = Removed /\ \A e \in libCalls : e.live /\ e.kind = "upload" => e \in libCalls'
      BY <1>1, <1>7, <2>1 DEF Removed
    <2>4. ListInv'
      BY <1>1, <1>3, <2>1, <2>3 DEF LibInv, ListInv, L!Held
    <2>5. QED
      BY <2>2, <2>4 DEF LibInv
  <1>8. QED
    BY <1>5, <1>6, <1>7

\* A document is removed: C are the calls as the removal leaves them.
LEMMA LibUnstores ==
  ASSUME L!TypeOK, LibInv, SameView, NEW c \in libCalls, c.kind = "remove", NEW C \in SUBSET L!Call,
         place' = [place EXCEPT ![c.doc] = None], libCalls' = L!Overtake(C),
         docs' = docs, used' = used,
         \A e \in C : \/ e \in libCalls
                      \/ /\ e.kind = "remove" /\ e.at = "answered" /\ e.live = c.live /\ c.live
                         /\ e.ws = c.ws /\ e.doc = c.doc /\ e.seen = c.seen
  PROVE  PendingInv' /\ \A e \in libCalls' : LibCallOK(e)'
  <1>1. \A x \in Docs : place'[x] \in {place[x], None}
    BY DEF L!TypeOK
  <1>2. c.doc \in Docs /\ place'[c.doc] = None
    BY DEF LibInv, LibCallOK, L!TypeOK
  <1>3. AttachKept /\ (InLib' <=> InLib) /\ current' = current
    BY SameViewKeeps
  <1>4. \A e \in libCalls' : \E b \in C : Passed(e, b)
    BY Overtaken
  <1>5. \A e \in C : e \in libCalls \/ Files(e) = {}
    BY DEF Files
  <1>6. \A e, f \in C : e # f => Files(e) \cap Files(f) = {}
    BY <1>5 DEF LibInv, PendingInv
  <1>7. \A e \in libCalls' : \E b \in libCalls :
          /\ e.kind = b.kind /\ e.ws = b.ws /\ e.live = b.live /\ e.doc = b.doc /\ e.seen = b.seen
          /\ \/ e.at = b.at
             \/ e.kind = "remove" /\ e.at = "answered" /\ e.live /\ e.doc = c.doc
    BY <1>4 DEF Passed
  <1>8. PendingInv'
    <2>1. \A x \in Docs : Known(x)' => Known(x)
      BY <1>7 DEF Known
    <2>2. \A e \in libCalls' : \A x \in Files(e) : \E b \in libCalls : x \in Files(b)
      BY <1>4, <1>5 DEF Passed, Files, Rest
    <2>3. \A e, f \in libCalls' : e # f => Files(e) \cap Files(f) = {}
      BY <1>6, Overtaken
    <2>4. \A e \in libCalls' : e.kind = "upload" /\ e.at = "sent" => e.doc \notin Rest(e)
      BY <1>4 DEF Passed, Rest, LibInv, PendingInv
    <2>5. QED
      BY <1>1, <1>3, <2>1, <2>2, <2>3, <2>4, PendingKept DEF LibInv
  <1>9. ASSUME NEW e \in libCalls' PROVE LibCallOK(e)'
    <2>1. PICK b \in libCalls :
            /\ e.kind = b.kind /\ e.ws = b.ws /\ e.live = b.live /\ e.doc = b.doc /\ e.seen = b.seen
            /\ \/ e.at = b.at
               \/ e.kind = "remove" /\ e.at = "answered" /\ e.live /\ e.doc = c.doc
      BY <1>7
    <2>2. LibCallOK(b) /\ b.seen \subseteq Docs
      BY DEF LibInv, L!TypeOK, L!Call
    <2>3. e.kind = "list" /\ e.at = "answered" => e.late
      BY <1>4 DEF Passed
    <2>4. \A x \in e.seen : place'[x] \in {e.ws, None}
      BY <1>1, <2>1, <2>2 DEF LibCallOK
    <2>5. e.kind = "remove" => e.doc \in Docs /\ place'[e.doc] \in {e.ws, None}
      BY <1>1, <2>1, <2>2 DEF LibCallOK
    <2>6. e.kind = "remove" /\ e.at = "answered" => e.live /\ place'[e.doc] = None
      BY <1>1, <1>2, <2>1, <2>2 DEF LibCallOK
    <2>7. (e.kind = "list" => e.live) /\ (e.live => InLib' /\ e.ws = current')
      BY <1>3, <2>1, <2>2 DEF LibCallOK
    <2>8. QED
      BY <2>3, <2>4, <2>5, <2>6, <2>7 DEF LibCallOK
  <1>10. QED
    BY <1>8, <1>9

LEMMA LibServeRemoveKeeps ==
  ASSUME L!TypeOK, LibInv, NEW c \in libCalls, L!ServeRemove(c), SameView
  PROVE  LibInv'
  <1>1. /\ c \in L!Call /\ c.kind = "remove" /\ c.at = "sent" /\ UNCHANGED <<docs, loading, used>>
        /\ place' = [place EXCEPT ![c.doc] = None]
    BY DEF L!ServeRemove, L!TypeOK
  <1>2. LibCallOK(c) /\ c.doc \in Docs /\ place[c.doc] \in {c.ws, None}
    BY <1>1 DEF LibInv, LibCallOK
  <1>3. (InLib' <=> InLib) /\ current' = current
    BY SameViewKeeps
  <1>4. \A x \in docs : x \in Docs /\ place'[x] \in {place[x], None}
    BY <1>1 DEF L!TypeOK
  <1>5. CASE ~c.live
    <2>1. PICK C : C = libCalls \ {c}
      OBVIOUS
    <2>2. libCalls' = L!Overtake(C) /\ C \in SUBSET L!Call /\ \A e \in C : e \in libCalls
      BY <1>1, <1>5, <2>1 DEF L!ServeRemove, L!Drop, L!TypeOK
    <2>3. PendingInv' /\ \A e \in libCalls' : LibCallOK(e)'
      BY <1>1, <2>2, LibUnstores
    <2>4. \A b \in C : \E e \in libCalls' : Passed(e, b)
      BY <2>2, Overtaken
    <2>5. \A e \in libCalls' : \E b \in C : Passed(e, b)
      BY <2>2, Overtaken
    <2>6. Removed' = Removed
      BY <1>1, <2>1, <2>4, <2>5 DEF Removed, Passed
    <2>7. ~overtaken' => ~overtaken /\ c.ws # current
      BY <1>5 DEF L!ServeRemove
    <2>8. ~loading /\ ~overtaken' => L!Held(current)' = L!Held(current)
      <3>1. ~loading => current \in Workspaces \/ current # None
        BY DEF LibInv, ListInv, InLib, On, Screen
      <3>2. QED
        BY <1>1, <1>2, <1>3, <2>7, <3>1, NoneAssumption DEF L!Held, L!TypeOK
    <2>9. (\A e \in libCalls' : e.live => e.kind # "upload") => \A e \in libCalls : e.live => e.kind # "upload"
      BY <1>5, <2>1, <2>4 DEF Passed
    <2>10. ListInv'
      BY <1>1, <1>3, <1>4, <2>6, <2>7, <2>8, <2>9 DEF LibInv, ListInv
    <2>11. QED
      BY <2>3, <2>10 DEF LibInv
  <1>6. CASE c.live /\ place[c.doc] = None
    <2>1. PICK u : u = [c EXCEPT !.at = "failed"]
      OBVIOUS
    <2>2. libCalls' = (libCalls \ {c}) \cup {u} /\ (overtaken' <=> overtaken)
      BY <1>6, <2>1 DEF L!ServeRemove, L!Replace
    <2>3. place' = place
      BY <1>1, <1>2, <1>6 DEF L!TypeOK
    <2>4. /\ u.kind = "remove" /\ u.live = c.live /\ u.ws = c.ws /\ u.seen = c.seen /\ u.doc = c.doc
          /\ u.at = "failed" /\ Files(u) = {}
      BY <1>1, <2>1 DEF L!Call, Files
    <2>5. LibCallOK(u)
      BY <1>1, <1>2, <2>4 DEF LibCallOK
    <2>6. \A x \in docs' : Known(x)
      BY <1>1 DEF Known
    <2>7. PendingInv' /\ \A e \in libCalls' : LibCallOK(e)'
      BY <1>1, <2>2, <2>3, <2>4, <2>5, <2>6, LibMoved
    <2>8. Removed' = Removed /\ \A e \in libCalls : e.live /\ e.kind = "upload" => e \in libCalls'
      BY <1>1, <2>2, <2>4 DEF Removed
    <2>9. ListInv'
      BY <1>1, <1>3, <2>2, <2>3, <2>8 DEF LibInv, ListInv, L!Held
    <2>10. QED
      BY <2>7, <2>9 DEF LibInv
  <1>7. CASE c.live /\ place[c.doc] # None
    <2>1. PICK u : u = [c EXCEPT !.at = "answered"]
      OBVIOUS
    <2>2. PICK C : C = (libCalls \ {c}) \cup {u}
      OBVIOUS
    <2>3. /\ u.kind = "remove" /\ u.live = c.live /\ u.ws = c.ws /\ u.seen = c.seen /\ u.doc = c.doc
          /\ u.at = "answered" /\ u \in L!Call
      BY <1>1, <2>1 DEF L!Call
    <2>4. libCalls' = L!Overtake(C) /\ C \in SUBSET L!Call /\ (overtaken' <=> overtaken)
      BY <1>1, <1>7, <2>1, <2>2, <2>3 DEF L!ServeRemove, L!Answered, L!Replace, L!TypeOK
    <2>5. PendingInv' /\ \A e \in libCalls' : LibCallOK(e)'
      BY <1>1, <1>7, <2>2, <2>3, <2>4, LibUnstores
    <2>6. \A b \in C : \E e \in libCalls' : Passed(e, b)
      BY <2>4, Overtaken
    <2>7. \A e \in libCalls' : \E b \in C : Passed(e, b)
      BY <2>4, Overtaken
    <2>8. Removed' = Removed \cup {c.doc}
      BY <1>1, <2>2, <2>3, <2>6, <2>7 DEF Removed, Passed
    <2>9. c.ws = current /\ current # None
      BY <1>1, <1>2, <1>7, NoneAssumption DEF LibCallOK, L!Call
    <2>10. L!Held(current)' = L!Held(current) \ {c.doc}
      BY <1>1, <1>2, <1>3, <2>9 DEF L!Held, L!TypeOK
    <2>11. (\A e \in libCalls' : e.live => e.kind # "upload") => \A e \in libCalls : e.live => e.kind # "upload"
      BY <1>1, <2>2, <2>6 DEF Passed
    <2>12. ListInv'
      BY <1>1, <1>3, <1>4, <2>4, <2>8, <2>10, <2>11 DEF LibInv, ListInv
    <2>13. QED
      BY <2>5, <2>12 DEF LibInv
  <1>8. QED
    BY <1>5, <1>6, <1>7

LEMMA LibFailKeeps ==
  ASSUME L!TypeOK, LibInv, NEW c \in libCalls, L!Fail(c), SameView
  PROVE  LibInv'
  <1>1. /\ c \in L!Call /\ c.at \in {"sent", "answered"} /\ UNCHANGED <<docs, loading, place, used>>
        /\ overtaken' = (overtaken \/ (c.live /\ c.kind = "remove" /\ c.at = "answered"))
    BY DEF L!Fail, L!TypeOK
  <1>2. PICK u : u = [c EXCEPT !.at = "failed"]
    OBVIOUS
  <1>3. /\ u.kind = c.kind /\ u.live = c.live /\ u.ws = c.ws /\ u.seen = c.seen /\ u.doc = c.doc
        /\ u.at = "failed" /\ u.rest = c.rest
    BY <1>1, <1>2 DEF L!Call
  <1>4. Files(u) \subseteq Files(c) /\ (c.kind = "upload" => Files(u) = Rest(c)) /\ LibCallOK(c)
    BY <1>3 DEF Files, Rest, LibInv
  <1>5. LibCallOK(u)
    BY <1>1, <1>3, <1>4 DEF LibCallOK
  <1>6. (InLib' <=> InLib) /\ current' = current
    BY SameViewKeeps
  <1>7. \A x \in docs' : Known(x)
    BY <1>1 DEF Known
  <1>8. ASSUME NEW N, libCalls' = (libCalls \ {c}) \cup N, u \in N,
               \A n \in N : n.at # "answered", PendingInv' /\ \A e \in libCalls' : LibCallOK(e)'
        PROVE  LibInv'
    <2>1. \A e \in libCalls : e.live /\ e.kind = "upload" => \E f \in libCalls' : f.live /\ f.kind = "upload"
      BY <1>3, <1>8
    <2>2. ~overtaken' => ~overtaken /\ Removed' = Removed
      BY <1>1, <1>4, <1>8 DEF Removed, LibCallOK
    <2>3. ListInv'
      BY <1>1, <1>6, <2>1, <2>2 DEF LibInv, ListInv, L!Held
    <2>4. QED
      BY <1>8, <2>3 DEF LibInv
  <1>9. CASE libCalls' = L!Replace(c, [c EXCEPT !.at = "failed"])
    <2>1. libCalls' = (libCalls \ {c}) \cup {u}
      BY <1>2, <1>9 DEF L!Replace
    <2>2. u.kind = "upload" /\ u.at = "sent" => u.doc \notin Rest(u)
      BY <1>3
    <2>3. PendingInv' /\ \A e \in libCalls' : LibCallOK(e)'
      BY <1>1, <1>3, <1>4, <1>5, <1>7, <2>1, <2>2, LibMoved
    <2>4. PICK N : N = {u}
      OBVIOUS
    <2>5. libCalls' = (libCalls \ {c}) \cup N /\ u \in N /\ \A n \in N : n.at # "answered"
      BY <1>3, <2>1, <2>4
    <2>6. QED
      BY <1>8, <2>3, <2>5
  <1>10. ASSUME NEW s, c.live /\ c.at = "sent" /\ c.kind # "list",
                libCalls' = L!Replace(c, [c EXCEPT !.at = "failed"]) \cup
                              {[c EXCEPT !.live = FALSE, !.slot = s, !.rest = <<>>]}
         PROVE  LibInv'
    <2>1. PICK v : v = [c EXCEPT !.live = FALSE, !.slot = s, !.rest = <<>>]
      OBVIOUS
    <2>2. PICK N : N = {u, v}
      OBVIOUS
    <2>3. libCalls' = (libCalls \ {c}) \cup N /\ u \in N /\ \A n \in N : n = u \/ n = v
      BY <1>2, <1>10, <2>1, <2>2 DEF L!Replace
    <2>4. /\ v.kind = c.kind /\ ~v.live /\ v.ws = c.ws /\ v.seen = c.seen /\ v.doc = c.doc
          /\ v.at = "sent" /\ Rest(v) = {}
      BY <1>1, <1>10, <2>1 DEF L!Call, Rest
    <2>5. Files(v) = (IF c.kind = "upload" THEN {c.doc} ELSE {}) /\ Files(v) \subseteq Files(c)
      BY <1>10, <2>4 DEF Files
    <2>6. c.kind = "upload" => c.doc \notin Rest(c)
      BY <1>10 DEF LibInv, PendingInv
    <2>7. Files(u) \cap Files(v) = {}
      BY <1>3, <1>4, <2>5, <2>6 DEF Files
    <2>8. LibCallOK(v)
      BY <1>4, <1>10, <2>4 DEF LibCallOK
    <2>9. \A n \in N : /\ Files(n) \subseteq Files(c) /\ LibCallOK(n)
                       /\ n.kind = "upload" /\ n.at = "sent" => n.doc \notin Rest(n)
                       /\ n.kind = "remove" => c.kind = "remove" /\ n.doc = c.doc
                       /\ n.seen \subseteq c.seen \/ \A x \in n.seen : place[x] # None
      BY <1>3, <1>4, <1>5, <2>3, <2>4, <2>5, <2>8
    <2>10. \A n, m \in N : n # m => Files(n) \cap Files(m) = {}
      BY <2>3, <2>7
    <2>11. PendingInv' /\ \A e \in libCalls' : LibCallOK(e)'
      BY <1>1, <1>7, <2>3, <2>9, <2>10, LibReplaced
    <2>12. QED
      BY <1>3, <1>8, <2>3, <2>4, <2>11
  <1>11. QED
    BY <1>9, <1>10 DEF L!Fail

LEMMA LibInit == Init => LibInv
  <1> SUFFICES ASSUME Init PROVE LibInv
    OBVIOUS
  <1>1. docs = {} /\ loading /\ libCalls = {} /\ chatCalls = {} /\ \A d \in Docs : place[d] = None
    BY DEF Init, L!Init, V!Init
  <1>2. PendingInv
    BY <1>1 DEF PendingInv, OneAttach, Attached, Attaching, Coming, Known
  <1>3. QED
    BY <1>1, <1>2 DEF LibInv, ListInv

LEMMA LibInvNext == V!TypeOK /\ L!TypeOK /\ S!TypeOK /\ LibInv /\ LibStep => LibInv'
  <1> SUFFICES ASSUME V!TypeOK, L!TypeOK, S!TypeOK, LibInv, LibStep PROVE LibInv'
    OBVIOUS
  <1>1. CASE InLib /\ (L!Upload \/ L!Remove) /\ UNCHANGED <<chatCalls, tab, sessionVars>>
    BY <1>1, LibUploadKeeps, LibRemoveKeeps DEF SameView
  <1>2. CASE \E d \in Docs \ used : /\ V!Attach(d) /\ used' = used \cup {d}
                                    /\ UNCHANGED <<libScreen, libCalls, place, tab, sessionVars>>
    BY <1>2, LibAttachKeeps
  <1>3. CASE \E c \in chatCalls :
               /\ V!ServeAttach(c) /\ L!Store(c.doc, c.ws, FALSE) /\ libCalls' = L!Overtake(libCalls)
               /\ UNCHANGED <<docs, loading, uploading, used, tab, sessionVars>>
    BY <1>3, LibServeAttachKeeps
  <1>4. CASE \E c \in libCalls :
               /\ \/ L!ServeUpload(c) \/ L!ServeList(c) \/ L!ServeRemove(c) \/ L!Fail(c)
                  \/ \E may \in BOOLEAN : L!Receive(c, may)
               /\ UNCHANGED <<chatCalls, tab, sessionVars>>
    <2>1. PICK c \in libCalls :
            /\ SameView
            /\ \/ L!ServeUpload(c) \/ L!ServeList(c) \/ L!ServeRemove(c) \/ L!Fail(c)
               \/ \E may \in BOOLEAN : L!Receive(c, may)
      BY <1>4 DEF SameView
    <2>2. CASE L!ServeUpload(c) \/ L!ServeList(c) \/ L!ServeRemove(c) \/ L!Fail(c)
      BY <2>1, <2>2, LibServeUploadKeeps, LibServeListKeeps, LibServeRemoveKeeps, LibFailKeeps
    <2>3. ASSUME NEW may \in BOOLEAN, L!Receive(c, may) PROVE LibInv'
      BY <2>1, <2>3, LibReceiveListKeeps, LibReceiveUploadKeeps, LibReceiveRemoveKeeps DEF L!Receive
    <2>4. QED
      BY <2>1, <2>2, <2>3
  <1>5. CASE \/ (L!Leave \/ L!Close) /\ ~InLib' /\ AttachKept
             \/ L!Enter /\ InLib' /\ AttachKept
    BY <1>5, LibMountKeeps
  <1>6. CASE UNCHANGED libVars /\ Screen' = Screen /\ AttachKept
    BY <1>6, LibIdle
  <1>7. QED
    BY <1>1, <1>2, <1>3, <1>4, <1>5, <1>6 DEF LibStep

LEMMA LibAlways == Spec => [](LibInv /\ L!TypeOK)
  <1>1. Init => LibInv /\ L!TypeOK
    BY LibInit, LibTypeInit
  <1>2. /\ LibInv /\ L!TypeOK /\ [Next]_vars
        /\ V!TypeOK /\ S!TypeOK /\ S!TypeOK'
        => LibInv' /\ L!TypeOK'
    BY LibSteps, LibTypes, LibInvNext
  <1>3. Spec => [](V!TypeOK)
    BY ChatAlways, PTL
  <1>4. Spec => [](S!TypeOK)
    BY SessionAlways, PTL
  <1>5. QED
    BY <1>1, <1>2, <1>3, <1>4, PTL DEF Spec

LEMMA ListFollows == LibInv => ListIsCurrent
  <1> SUFFICES ASSUME LibInv, ~loading, ~overtaken, \A c \in libCalls : ~c.live
               PROVE  docs = L!Held(current)
    BY DEF ListIsCurrent, L!ListIsCurrent
  <1>1. Removed = {}
    BY DEF Removed, LibInv, LibCallOK
  <1>2. QED
    BY <1>1 DEF LibInv, ListInv

\* When nothing is under way and no change has overtaken the list, the library shows what
\* the server holds for the workspace (load, upload and remove of LibraryView.tsx, and the
\* key by which App.tsx mounts the view).
THEOREM ListStaysCurrent == Spec => []ListIsCurrent
  BY LibAlways, ListFollows, PTL

-----------------------------------------------------------------------------
(* The bell: types. *)

\* The cardinality of the bell's module is the usual one.
LEMMA SameCardinality == \A D : B!Cardinality(D) = Cardinality(D)
  BY DEF B!Cardinality, Cardinality

LEMMA DocsCounted == B!Cardinality(Docs) \in Nat /\ 0 \in 0..B!Cardinality(Docs)
  BY SameCardinality, DocsAssumption, FS_CardinalityType

\* A field of a call that changes keeps the call's type.
LEMMA BellCallTypes ==
  ASSUME NEW c \in B!Call
  PROVE  /\ \A a \in {"sent", "answered", "failed"} : [c EXCEPT !.at = a] \in B!Call
         /\ \A n \in 0..B!Cardinality(Docs) : [[c EXCEPT !.count = n] EXCEPT !.at = "answered"] \in B!Call
         /\ \A p, q \in SUBSET Docs :
              [[c EXCEPT !.seen = p, !.seenRead = q] EXCEPT !.at = "answered"] \in B!Call
  BY DEF B!Call

\* A badge says no more than there are documents.
LEMMA CountType == \A u : B!UnreadCount(u) \in 0..B!Cardinality(Docs)
  <1> TAKE u
  <1>1. B!Mine(u) \ isRead \in SUBSET Docs
    BY DEF B!Mine
  <1>2. IsFiniteSet(B!Mine(u) \ isRead) /\ Cardinality(B!Mine(u) \ isRead) <= Cardinality(Docs)
    BY <1>1, DocsAssumption, FS_Subset
  <1>3. Cardinality(B!Mine(u) \ isRead) \in Nat /\ Cardinality(Docs) \in Nat
    BY <1>2, DocsAssumption, FS_CardinalityType
  <1>4. B!UnreadCount(u) = Cardinality(B!Mine(u) \ isRead) /\ B!Cardinality(Docs) = Cardinality(Docs)
    BY SameCardinality DEF B!UnreadCount
  <1>5. QED
    BY <1>2, <1>3, <1>4

LEMMA BellRequestType ==
  ASSUME B!Free # {}, user \in Users, NEW kind \in {"count", "list", "all", "read"},
         NEW n \in Docs \cup {None}
  PROVE  B!Request(kind, n) \in B!Call
  <1>1. B!Free \in SUBSET Nat /\ B!Free \subseteq BellSlots
    BY BoundsAssumption DEF B!Free
  <1>2. B!Slot \in BellSlots
    BY <1>1, SlotChosen DEF B!Slot
  <1>3. 0 \in 0..B!Cardinality(Docs)
    BY DocsCounted
  <1>4. QED
    BY <1>2, <1>3 DEF B!Request, B!Call

\* One step of the bell, or of the feed.
BellNext ==
  \/ (B!Gesture \/ B!Poll) /\ user \in Users
  \/ \E c \in bellCalls : B!Serve(c) \/ B!Receive(c) \/ B!Fail(c)
  \/ B!Leave
  \/ \E n, u : u \in Users \cup {None} /\ B!Announce(n, u) /\ UNCHANGED <<bellScreen, bellCalls, isRead>>
  \/ UNCHANGED bellVars

\* A list answers with read notices among those it shows.
SeenInv == \A c \in bellCalls : c.seenRead \subseteq c.seen

LEMMA BellTypeInit == Init => B!TypeOK /\ SeenInv
  <1> SUFFICES ASSUME Init PROVE B!TypeOK /\ SeenInv
    OBVIOUS
  <1>1. B!Init
    BY DEF Init
  <1>2. feed \in [Docs -> Users \cup {None}]
    BY <1>1 DEF B!Init
  <1>3. QED
    BY <1>1, <1>2, DocsCounted DEF B!Init, B!TypeOK, SeenInv

LEMMA BellTypeGesture ==
  ASSUME B!TypeOK, SeenInv, (B!Gesture \/ B!Poll) /\ user \in Users
  PROVE  B!TypeOK' /\ SeenInv'
  <1> USE DEF B!TypeOK, B!bellScreen, SeenInv
  <1>1. \A kind, n : B!Request(kind, n).seen = {} /\ B!Request(kind, n).seenRead = {}
    BY DEF B!Request
  <1>2. CASE B!Toggle
    <2>1. B!Free # {} => B!Request("list", None) \in B!Call
      BY BellRequestType
    <2>2. QED
      BY <1>1, <1>2, <2>1 DEF B!Toggle
  <1>3. CASE B!MarkAll
    <2>1. B!Request("all", None) \in B!Call
      BY <1>3, BellRequestType DEF B!MarkAll
    <2>2. QED
      BY <1>1, <1>3, <2>1 DEF B!MarkAll
  <1>4. CASE B!OpenItem
    <2>1. PICK n \in items \ readItems :
            /\ B!Free # {} /\ bellCalls' = bellCalls \cup {B!Request("read", n)}
            /\ UNCHANGED <<bellScreen, feed, isRead>>
      BY <1>4 DEF B!OpenItem, bellScreen
    <2>2. B!Request("read", n) \in B!Call
      BY <2>1, BellRequestType
    <2>3. QED
      BY <1>1, <2>1, <2>2 DEF bellScreen
  <1>5. CASE B!Poll
    <2>1. B!Request("count", None) \in B!Call
      BY <1>5, BellRequestType DEF B!Poll
    <2>2. QED
      BY <1>1, <1>5, <2>1 DEF B!Poll
  <1>6. QED
    BY <1>2, <1>3, <1>4, <1>5 DEF B!Gesture

LEMMA BellTypeAnswer ==
  ASSUME B!TypeOK, SeenInv, NEW c \in bellCalls, B!Serve(c) \/ B!Receive(c) \/ B!Fail(c)
  PROVE  B!TypeOK' /\ SeenInv'
  <1> USE DEF B!TypeOK, B!bellScreen
  <1>1. c \in B!Call /\ c.seenRead \subseteq c.seen
    BY DEF SeenInv
  <1>2. /\ c.count \in 0..B!Cardinality(Docs) /\ c.seen \subseteq Docs /\ c.seenRead \subseteq Docs
        /\ c.n \in Docs \cup {None}
    BY <1>1 DEF B!Call
  <1>3. B!Cardinality(Docs) \in Nat
    BY DocsCounted
  <1>4. ASSUME NEW e \in B!Call, e.seenRead \subseteq e.seen, bellCalls' \subseteq (bellCalls \ {c}) \cup {e}
        PROVE  bellCalls' \subseteq B!Call /\ SeenInv'
    BY <1>4 DEF SeenInv
  <1>5. ASSUME NEW a \in {"answered", "failed"}
        PROVE  /\ [c EXCEPT !.at = a] \in B!Call
               /\ [c EXCEPT !.at = a].seenRead \subseteq [c EXCEPT !.at = a].seen
    BY <1>1 DEF B!Call
  <1>6. CASE B!ServeCount(c)
    <2>1. PICK n \in 0..B!Cardinality(Docs) : n = B!UnreadCount(c.who)
      BY CountType
    <2>2. PICK e : e = [[c EXCEPT !.count = n] EXCEPT !.at = "answered"]
      OBVIOUS
    <2>3. e \in B!Call /\ e.seenRead \subseteq e.seen
      BY <1>1, <2>2 DEF B!Call
    <2>4. bellCalls' = (bellCalls \ {c}) \cup {e} /\ UNCHANGED <<bellScreen, feed, isRead>>
      BY <1>6, <2>1, <2>2 DEF B!ServeCount, B!Answered, B!Replace, bellScreen
    <2>5. QED
      BY <1>4, <2>3, <2>4 DEF bellScreen
  <1>7. CASE B!ServeItems(c)
    <2>1. B!Mine(c.who) \subseteq Docs
      BY DEF B!Mine
    <2>2. PICK p \in SUBSET Docs, q \in SUBSET Docs : p = B!Mine(c.who) /\ q = B!Mine(c.who) \cap isRead
      BY <2>1
    <2>3. PICK e : e = [[c EXCEPT !.seen = p, !.seenRead = q] EXCEPT !.at = "answered"]
      OBVIOUS
    <2>4. e \in B!Call /\ e.seenRead \subseteq e.seen
      BY <1>1, <2>2, <2>3 DEF B!Call
    <2>5. bellCalls' = (bellCalls \ {c}) \cup {e} /\ UNCHANGED <<bellScreen, feed, isRead>>
      BY <1>7, <2>2, <2>3 DEF B!ServeItems, B!Answered, B!Replace, bellScreen
    <2>6. QED
      BY <1>4, <2>4, <2>5 DEF bellScreen
  <1>8. CASE B!ServeMarkAll(c) \/ B!ServeMark(c) \/ B!Fail(c)
    <2>1. PICK a \in {"answered", "failed"} :
            bellCalls' = (bellCalls \ {c}) \cup {[c EXCEPT !.at = a]}
      BY <1>8 DEF B!ServeMarkAll, B!ServeMark, B!Fail, B!Answered, B!Replace
    <2>2. bellCalls' \subseteq B!Call /\ SeenInv'
      BY <1>4, <1>5, <2>1
    <2>3. UNCHANGED <<bellScreen, feed>>
      BY <1>8 DEF B!ServeMarkAll, B!ServeMark, B!Fail, bellScreen
    <2>4. isRead' \subseteq Docs
      BY <1>8 DEF B!ServeMarkAll, B!ServeMark, B!Fail, B!Mine
    <2>5. QED
      BY <2>2, <2>3, <2>4 DEF bellScreen
  <1>9. CASE B!Receive(c)
    <2>1. bellCalls' \subseteq B!Call /\ SeenInv'
      BY <1>9 DEF SeenInv, B!Receive, B!ReceiveCount, B!ReceiveItems, B!ReceiveMarkAll, B!ReceiveMark,
                  B!ReceiveFailure, B!Drop
    <2>2. QED
      BY <1>1, <1>2, <1>3, <1>9, <2>1
         DEF B!Receive, B!ReceiveCount, B!ReceiveItems, B!ReceiveMarkAll, B!ReceiveMark, B!ReceiveFailure
  <1>10. QED
    BY <1>6, <1>7, <1>8, <1>9 DEF B!Serve

LEMMA BellTypeNext == B!TypeOK /\ SeenInv /\ BellNext => B!TypeOK' /\ SeenInv'
  <1> SUFFICES ASSUME B!TypeOK, SeenInv, BellNext PROVE B!TypeOK' /\ SeenInv'
    OBVIOUS
  <1>1. CASE B!Leave
    <2>1. B!Asked \subseteq Docs
      BY DEF B!Asked, B!Mine
    <2>2. QED
      BY <1>1, <2>1, DocsCounted DEF B!Leave, B!TypeOK, SeenInv
  <1>2. ASSUME NEW n, NEW u \in Users \cup {None},
               B!Announce(n, u), UNCHANGED <<bellScreen, bellCalls, isRead>>
        PROVE  B!TypeOK' /\ SeenInv'
    BY <1>2 DEF B!Announce, B!TypeOK, SeenInv, bellScreen
  <1>3. CASE UNCHANGED bellVars
    BY <1>3 DEF bellVars, bellScreen, B!TypeOK, SeenInv
  <1>4. QED
    BY <1>1, <1>2, <1>3, BellTypeGesture, BellTypeAnswer DEF BellNext

LEMMA BellSteps == V!TypeOK /\ L!TypeOK /\ S!TypeOK /\ [Next]_vars => BellNext
  <1> SUFFICES ASSUME V!TypeOK, L!TypeOK, S!TypeOK, [Next]_vars PROVE BellNext
    OBVIOUS
  <1>1. Shell => user \in Users
    BY DEF Shell, S!TypeOK
  <1>2. \A d : \A w \in Workspaces : Announce(d, w) => BellNext
    BY DEF Announce, BellNext, S!TypeOK
  <1>3. CASE Gesture
    BY <1>1, <1>3 DEF Gesture, UseSession, ReloadPage, UseLibrary, ShowView, UseChat, UseAttach, UseBell,
                      Remount, BellNext
  <1>4. CASE AnswerChat
    <2>1. \A c \in chatCalls : c.ws \in Workspaces
      BY DEF V!TypeOK, V!Call
    <2>2. QED
      BY <1>2, <1>4, <2>1 DEF AnswerChat, BellNext
  <1>5. CASE AnswerLibrary
    <2>1. \A c \in libCalls : c.ws \in Workspaces
      BY DEF L!TypeOK, L!Call
    <2>2. QED
      BY <1>2, <1>5, <2>1 DEF AnswerLibrary, BellNext
  <1>6. CASE AnswerSession \/ Poll \/ Fail \/ \E s \in BellSlots : AnswerBell(s)
    BY <1>1, <1>6 DEF AnswerSession, Remount, Poll, Fail, AnswerBell, BellNext
  <1>7. CASE UNCHANGED vars
    BY <1>7 DEF vars, BellNext
  <1>8. QED
    BY <1>3, <1>4, <1>5, <1>6, <1>7 DEF Next

\* The tab, and what is counted.
OwnTypes == /\ tab \in {"chat", "library"} /\ gestures \in 0..focus.gestures /\ failures \in 0..MaxFailures
            /\ focus \in Focuses

LEMMA OwnInit == Init => OwnTypes
  BY BoundsAssumption DEF Init, OwnTypes

LEMMA OwnNext == OwnTypes /\ [Next]_vars => OwnTypes'
  <1> SUFFICES ASSUME OwnTypes, [Next]_vars PROVE OwnTypes'
    OBVIOUS
  <1>1. focus.gestures \in Nat /\ MaxFailures \in Nat /\ focus' = focus
    BY BoundsAssumption DEF OwnTypes, Next, Gesture, AnswerChat, AnswerLibrary, AnswerSession, Poll, Fail,
                            AnswerBell, vars
  <1>2. tab' \in {"chat", "library"}
    BY DEF OwnTypes, Next, Gesture, UseSession, ReloadPage, UseLibrary, ShowView, UseChat, UseAttach, UseBell,
           AnswerChat, AnswerLibrary, AnswerSession, Poll, Fail, AnswerBell, vars
  <1>3. gestures' \in {gestures, gestures + 1} /\ (gestures' # gestures => gestures < focus.gestures)
    BY DEF Next, Gesture, AnswerChat, AnswerLibrary, AnswerSession, Poll, Fail, AnswerBell, vars
  <1>4. failures' \in {failures, failures + 1} /\ (failures' # failures => failures < MaxFailures)
    BY DEF Next, Gesture, AnswerChat, AnswerLibrary, AnswerSession, Poll, Fail, AnswerBell, vars
  <1>5. QED
    BY <1>1, <1>2, <1>3, <1>4 DEF OwnTypes

\* Every variable of the client keeps its type: each call in flight has a slot of its
\* own kind, and the badge is between none and all of the notices.
THEOREM TypeCorrect == Spec => []TypeOK
  <1>1. Init => B!TypeOK /\ SeenInv /\ OwnTypes
    BY BellTypeInit, OwnInit
  <1>2. B!TypeOK /\ SeenInv /\ OwnTypes /\ [Next]_vars /\ V!TypeOK /\ L!TypeOK /\ S!TypeOK
        => B!TypeOK' /\ SeenInv' /\ OwnTypes'
    BY BellTypeNext, BellSteps, OwnNext
  <1>3. Spec => [](V!TypeOK) /\ [](L!TypeOK) /\ [](S!TypeOK)
    BY ChatAlways, LibAlways, SessionAlways, PTL
  <1>4. B!TypeOK /\ OwnTypes /\ V!TypeOK /\ L!TypeOK /\ S!TypeOK => TypeOK
    BY DEF OwnTypes, TypeOK
  <1>5. QED
    BY <1>1, <1>2, <1>3, <1>4, PTL DEF Spec

=============================================================================
