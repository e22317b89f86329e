------------------------------ MODULE Session ------------------------------
(***************************************************************************)
(* Who is signed in at one browser and in which workspace                  *)
(* (frontend/src/state/auth.tsx, and the forms of AuthView, Sidebar and    *)
(* NoWorkspace that call it).                                              *)
(*                                                                         *)
(* Signing in, opening the page and creating a workspace are flows of      *)
(* several awaits.  AuthProvider stays mounted when the user signs out, so *)
(* a flow goes on after that, and its next request carries whatever token  *)
(* is stored by then.                                                      *)
(***************************************************************************)
EXTENDS Naturals, FiniteSets

CONSTANTS
  FlowSlots,   \* bound: flows under way
  Users, Workspaces, None,
  First, Own   \* who uses the browser at first, and a workspace of theirs

VARIABLES
  ready, user, workspaces, current,  \* AuthProvider's state
  token, saved,                      \* localStorage
  flows,
  accounts, owner,   \* server: who has registered; whose organization holds a workspace
  mixed              \* history: a flow of an earlier sign-in has set state of this one

sessionVars == <<ready, user, workspaces, current, token, saved, flows, accounts, owner, mixed>>

Flow == [slot: FlowSlots, kind: {"open", "signin", "create"}, ours: BOOLEAN,
         step: {"register", "login", "me", "create", "list"},
         who: Users \cup {None}, made: Workspaces \cup {None},
         at: {"sent", "answered", "failed"}, seen: SUBSET Workspaces]

TypeOK ==
  /\ ready \in BOOLEAN /\ user \in Users \cup {None} /\ token \in Users \cup {None}
  /\ workspaces \subseteq Workspaces
  /\ current \in Workspaces \cup {None} /\ saved \in Workspaces \cup {None}
  /\ flows \subseteq Flow /\ accounts \subseteq Users
  /\ owner \in [Workspaces -> Users \cup {None}] /\ mixed \in BOOLEAN

Held(u) == {w \in Workspaces : owner[w] = u}

-----------------------------------------------------------------------------
Free == {s \in FlowSlots : \A f \in flows : f.slot # s}
Slot == CHOOSE s \in Free : \A t \in Free : s <= t

Begin(kind, step, u) == [slot |-> Slot, kind |-> kind, ours |-> TRUE, step |-> step, who |-> u,
                         made |-> None, at |-> "sent", seen |-> {}]

Replace(f, g) == (flows \ {f}) \cup {g}
Drop(f)       == flows \ {f}

\* The next request of a flow, with the token that is stored now.
Proceed(f, step, t) == Replace(f, [f EXCEPT !.step = step, !.who = t, !.at = "sent"])

\* bootstrap: nothing to ask without a token.
Opened(t) ==
  IF t = None THEN {}
  ELSE {[slot |-> CHOOSE s \in FlowSlots : \A r \in FlowSlots : s <= r, kind |-> "open", ours |-> TRUE,
         step |-> "me", who |-> t, made |-> None, at |-> "sent", seen |-> {}]}

Init ==
  /\ accounts = {First} /\ token = First /\ saved = None
  /\ owner = [w \in Workspaces |-> IF w = Own THEN First ELSE None]
  /\ ready = FALSE /\ user = None /\ workspaces = {} /\ current = None
  /\ flows = Opened(token) /\ mixed = FALSE

-----------------------------------------------------------------------------
(* Steps gone wrong, each the way a change of the code could.               *)

\* SessionIsOnes: sign out without clearing the workspace on the screen.
SignOutKeepsWorkspace ==
  /\ ready /\ user # None
  /\ token' = None /\ saved' = None /\ user' = None /\ mixed' = FALSE
  /\ flows' = {[f EXCEPT !.ours = FALSE] : f \in flows}
  /\ UNCHANGED <<ready, workspaces, current, accounts, owner>>

-----------------------------------------------------------------------------
(* Gestures *)

\* AuthView.submit: the button is disabled until the form's flow has ended or the form
\* is gone.
SignIn ==
  \E u \in Users, step \in {"login", "register"} :
    /\ ready /\ user = None /\ Free # {}
    /\ \A f \in flows : f.kind = "signin" => ~f.ours
    /\ flows' = flows \cup {Begin("signin", step, u)}
    /\ UNCHANGED <<ready, user, workspaces, current, token, saved, accounts, owner, mixed>>

SignOut ==
  /\ ready /\ user # None
  /\ token' = None /\ saved' = None /\ user' = None /\ workspaces' = {} /\ current' = None
  /\ flows' = {[f EXCEPT !.ours = FALSE] : f \in flows} /\ mixed' = FALSE
  /\ UNCHANGED <<ready, accounts, owner>>

\* Sidebar, and NoWorkspace when there is none.
CreateWorkspace ==
  /\ ready /\ user # None /\ Free # {}
  /\ flows' = flows \cup {Begin("create", "create", token)}
  /\ UNCHANGED <<ready, user, workspaces, current, token, saved, accounts, owner, mixed>>

SwitchWorkspace ==
  \E w \in workspaces :
    /\ ready /\ user # None /\ current' = w /\ saved' = w
    /\ UNCHANGED <<ready, user, workspaces, token, flows, accounts, owner, mixed>>

\* Opening the page again: its flows are gone, the two stored keys are not.
Reload ==
  /\ ready' = (token = None) /\ user' = None /\ workspaces' = {} /\ current' = None
  /\ flows' = Opened(token) /\ mixed' = FALSE
  /\ UNCHANGED <<token, saved, accounts, owner>>

-----------------------------------------------------------------------------
(* The server, as Accounts models it. *)

Answered(f, g) == Replace(f, [g EXCEPT !.at = "answered"])
Refused(f)     == Replace(f, [f EXCEPT !.at = "failed"])

ServeAccount(f) ==
  /\ f.at = "sent" /\ f.step \in {"register", "login", "me"}
  /\ IF f.step = "register"
     THEN /\ accounts' = accounts \cup {f.who}
          /\ flows' = IF f.who \in accounts THEN Refused(f) ELSE Answered(f, f)
     ELSE /\ flows' = IF f.who \in accounts THEN Answered(f, f) ELSE Refused(f)
          /\ UNCHANGED accounts
  /\ UNCHANGED <<ready, user, workspaces, current, token, saved, owner, mixed>>

ServeList(f) ==
  /\ f.at = "sent" /\ f.step = "list"
  /\ flows' = IF f.who = None THEN Refused(f) ELSE Answered(f, [f EXCEPT !.seen = Held(f.who)])
  /\ UNCHANGED <<ready, user, workspaces, current, token, saved, accounts, owner, mixed>>

\* Workspaces are as many as there are names for them, which bounds the model.
ServeCreate(f) ==
  \E w \in Workspaces :
    /\ f.at = "sent" /\ f.step = "create" /\ owner[w] = None
    /\ owner' = [owner EXCEPT ![w] = f.who] /\ flows' = Answered(f, [f EXCEPT !.made = w])
    /\ UNCHANGED <<ready, user, workspaces, current, token, saved, accounts, mixed>>

Fail(f) ==
  /\ f.at \in {"sent", "answered"} /\ flows' = Refused(f)
  /\ UNCHANGED <<ready, user, workspaces, current, token, saved, accounts, owner, mixed>>

-----------------------------------------------------------------------------
(* What the flows do after each await. *)

Registered(f) ==
  /\ f.at = "answered" /\ f.step = "register" /\ flows' = Proceed(f, "login", f.who)
  /\ UNCHANGED <<ready, user, workspaces, current, token, saved, accounts, owner, mixed>>

LoggedIn(f) ==
  /\ f.at = "answered" /\ f.step = "login"
  /\ token' = f.who /\ flows' = Proceed(f, "me", f.who)
  /\ UNCHANGED <<ready, user, workspaces, current, saved, accounts, owner, mixed>>

\* setUser: from here on the screen is the user's, while the flow goes on.
Known(f) ==
  /\ f.at = "answered" /\ f.step = "me"
  /\ user' = f.who /\ flows' = Proceed(f, "list", token)
  /\ UNCHANGED <<ready, workspaces, current, token, saved, accounts, owner, mixed>>

\* The workspace shown stays if it is listed, else the saved one, else the first.
Chosen(seen) ==
  IF current \in seen THEN {current} ELSE IF saved \in seen THEN {saved}
  ELSE IF seen = {} THEN {None} ELSE seen

\* reloadWorkspaces, and what the flow does after it.
Listed(f) ==
  /\ f.at = "answered" /\ f.step = "list" /\ flows' = Drop(f)
  /\ workspaces' = f.seen /\ mixed' = (mixed \/ ~f.ours) /\ ready' = TRUE
  /\ IF f.kind = "create" THEN current' = f.made /\ saved' = f.made
     ELSE current' \in Chosen(f.seen) /\ UNCHANGED saved
  /\ UNCHANGED <<user, token, accounts, owner>>

Created(f) ==
  /\ f.at = "answered" /\ f.step = "create" /\ flows' = Proceed(f, "list", token)
  /\ UNCHANGED <<ready, user, workspaces, current, token, saved, accounts, owner, mixed>>

\* Opening the page signs out whatever went wrong; the forms show the error.
FlowFails(f) ==
  /\ f.at = "failed" /\ flows' = Drop(f)
  /\ IF f.kind = "open" THEN token' = None /\ user' = None /\ ready' = TRUE
     ELSE UNCHANGED <<token, user, ready>>
  /\ UNCHANGED <<workspaces, current, saved, accounts, owner, mixed>>

Gesture == SignIn \/ SignOut \/ CreateWorkspace \/ SwitchWorkspace
Serve(f) == ServeAccount(f) \/ ServeList(f) \/ ServeCreate(f)
Receive(f) == Registered(f) \/ LoggedIn(f) \/ Known(f) \/ Listed(f) \/ Created(f) \/ FlowFails(f)

-----------------------------------------------------------------------------
(* Properties *)

\* Whoever is on the screen holds the token that is sent, and sees workspaces of their own
\* organization only, unless a flow of an earlier sign-in came back after this one
\* (reloadWorkspaces sets whatever it is answered, auth.tsx).
SessionIsOnes ==
  user # None =>
    /\ token = user
    /\ mixed \/ (workspaces \subseteq Held(user) /\ current \in Held(user) \cup {None})

=============================================================================
