--------------------------- MODULE MCConversations ---------------------------
(* A small instance of Conversations and of Dashboard for TLC.              *)
EXTENDS Dashboard, TLC

Symmetry == Permutations(ChatTurns) \cup Permutations(AgentTurns) \cup Permutations(Orgs)

\* Bound: summaries are made beside one chat turn and the agent turn, in either
\* workspace.
Few == Cardinality({t \in ChatTurns : pc[t] # "idle"}) <= 1 /\ ratings = 0

\* Bound: without a summary, all turns and a rating in one workspace.
OneWorkspace ==
  /\ ~open /\ figures = <<>> /\ deep = {}
  /\ \A t \in AgentTurns, u \in ChatTurns :
       sentTo[t] = sentTo[u] /\ scope = <<caller[t], sentTo[t]>>

Bounded ==
  /\ \A t \in ChatTurns : sentTo[t] = CHOOSE w \in Workspaces : TRUE
  /\ deep \in {{}, ChatTurns}
  /\ Few \/ OneWorkspace

BoundedInit == DashInit /\ Bounded

BoundedNext ==
  /\ IF Few THEN TRUE ELSE UNCHANGED dashVars
  /\ DashNext
  /\ Bounded'

BoundedSpec == BoundedInit /\ [][BoundedNext]_<<vars, dashVars>>
=============================================================================
