-------------------------------- MODULE Agents --------------------------------
(***************************************************************************)
(* Agent runs on a process that starts: POST /workspaces/{id}/agents/run   *)
(* and /memories of api/routers/agents.py and the build of                 *)
(* api/routers/graph.py.  A request resolves its dependencies (Resources)  *)
(* before its handler starts; a run then recalls memories (AgentMemory),   *)
(* is routed to an agent (agents/orchestrator.py, factory.py), which       *)
(* answers (research.py, graph_agent.py, SqlAgent), and is recorded.       *)
(*                                                                         *)
(* How a run is written with its messages is in Conversations, how a graph *)
(* is built and searched in KnowledgeGraph.                                *)
(***************************************************************************)
EXTENDS Resources, AgentMemory, SqlAgent

CONSTANTS
  Builds,                   \* requests to POST /workspaces/{id}/graph/build
  NoAgent,                  \* the request names no agent
  Crowds,                   \* bound: the requests that may come together
  MaxReboots                \* bound: restarts of the process

ASSUME AgentsAssumption ==
  /\ Requests = Runs \cup Memories \cup Builds
  /\ Asking = Runs
  /\ \A r \in Runs : \E i \in DOMAIN Needs[r] : Needs[r][i] = "engine"
  /\ AllowedTables = TableSet
  /\ Builds \cap (Runs \cup Memories) = {}
  /\ RecallLimit > 0
  /\ Crowds \subseteq SUBSET Requests
  /\ MaxReboots \in Nat

VARIABLES
  pc,        \* where a run is once it has its dependencies
  agent,     \* the agent it was given to
  outcome,   \* what came out of it
  trace,     \* table agent_runs: <<run, agent>>
  built,     \* builds that are answered
  crowd,     \* requests that are sent
  reboots

runVars == <<pc, agent, outcome, trace, built>>
vars == <<resVars, memVars, sqlVars, runVars, crowd, reboots>>

Names    == {"research", "sql", "graph"}
Answered == {"answered", "declined", "gave up"}

TypeOK ==
  /\ ResTypeOK /\ MemTypeOK /\ SqlTypeOK
  /\ pc \in [Runs -> {"new", "recalled", "routed", "finished", "done", "refused", "failed"}]
  /\ agent \in [Runs -> Names \cup {NoAgent}]
  /\ outcome \in [Runs -> Answered \cup {"none"}]
  /\ trace \subseteq Runs \X Names
  /\ built \subseteq Builds
  /\ crowd \in Crowds
  /\ reboots \in 0..MaxReboots

Init ==
  /\ ResInit /\ MemInit /\ SqlInit
  /\ pc = [r \in Runs |-> "new"]
  /\ agent = [r \in Runs |-> NoAgent]
  /\ outcome = [r \in Runs |-> "none"]
  /\ trace = {}
  /\ built = {}
  /\ crowd \in Crowds
  /\ reboots = 0

-----------------------------------------------------------------------------
(* A request arrives and gets its dependencies.                             *)

Arrive(r) ==
  /\ r \in crowd /\ Ask(r)
  /\ IF r \in Runs THEN Send(r) ELSE UNCHANGED memVars
  /\ UNCHANGED <<sqlVars, runVars, crowd, reboots>>

Depend(r) == Resolve(r) /\ UNCHANGED <<memVars, sqlVars, runVars, crowd, reboots>>

-----------------------------------------------------------------------------
(* run_agent.                                                               *)

Running(r, p) == Resolved(r) /\ pc[r] = p
Go(r, p) == pc' = [pc EXCEPT ![r] = p]

\* 404 for the workspace or the conversation, or the guard refuses the prompt.
Refuse(r) ==
  /\ Running(r, "new")
  /\ Go(r, "refused")
  /\ UNCHANGED <<resVars, memVars, sqlVars, agent, outcome, trace, built, crowd, reboots>>

\* build_agent_context
Remember(r) ==
  /\ Running(r, "new")
  /\ Recall(r)
  /\ Go(r, "recalled")
  /\ UNCHANGED <<resVars, sqlVars, agent, outcome, trace, built, crowd, reboots>>

\* build_registry: the graph agent only if there is a graph store.
Registered(r) == {"research", "sql"} \cup IF held[r] # Nobody THEN {"graph"} ELSE {}

\* keyword_router: relationships first, then figures.
Keyword(words) ==
  IF "relation" \in words THEN "graph" ELSE IF "figure" \in words THEN "sql" ELSE "research"

\* The orchestrator falls back to its default agent.
Validated(r, name) == IF name \in Registered(r) THEN name ELSE "research"

\* The agent the request names, or else the one its words call for.
Route(r) ==
  /\ Running(r, "recalled")
  /\ \E asked \in Registered(r) \cup {NoAgent}, words \in SUBSET {"relation", "figure"} :
       agent' = [agent EXCEPT ![r] =
                   IF asked # NoAgent THEN asked ELSE Validated(r, Keyword(words))]
  /\ Go(r, "routed")
  /\ UNCHANGED <<resVars, memVars, sqlVars, outcome, trace, built, crowd, reboots>>

Conclude(r, how) ==
  /\ outcome' = [outcome EXCEPT ![r] = how]
  /\ Go(r, "finished")
  /\ UNCHANGED <<resVars, memVars, agent, trace, built, crowd, reboots>>

\* ResearchAgent answers from passages and memories, if there are any.
Research(r) ==
  /\ Running(r, "routed") /\ agent[r] = "research"
  /\ \E passages \in BOOLEAN :
       Conclude(r, IF passages \/ recalled[r] # {} THEN "answered" ELSE "declined")
  /\ UNCHANGED sqlVars

\* GraphAgent also from facts, if any is about the entities of the query.
Traverse(r) ==
  /\ Running(r, "routed") /\ agent[r] = "graph"
  /\ \E passages \in BOOLEAN, about \in SUBSET facts[held[r]] :
       Conclude(r, IF about # {} \/ passages \/ recalled[r] # {} THEN "answered" ELSE "declined")
  /\ UNCHANGED sqlVars

\* SqlAgent: one attempt, then another or the answer.
Draft(r) ==
  /\ Running(r, "routed") /\ agent[r] = "sql"
  /\ Attempt(r, tables, rows)
  /\ UNCHANGED <<resVars, memVars, runVars, crowd, reboots>>

Summarise(r) ==
  /\ Running(r, "routed") /\ agent[r] = "sql"
  /\ \/ SqlAnswered(r) /\ Conclude(r, "answered")
     \/ SqlGaveUp(r) /\ Conclude(r, "gave up")
  /\ UNCHANGED sqlVars

\* create_run and the commit.
Record(r) ==
  /\ Running(r, "finished")
  /\ trace' = trace \cup {<<r, agent[r]>>}
  /\ Go(r, "done")
  /\ UNCHANGED <<resVars, memVars, sqlVars, agent, outcome, built, crowd, reboots>>

\* An unknown agent (400), a vector of another size, a model or a query that
\* raises: nothing is recorded.
FailRun(r) ==
  /\ Resolved(r) /\ pc[r] \in {"new", "recalled", "routed", "finished"}
  /\ Go(r, "failed")
  /\ UNCHANGED <<resVars, memVars, sqlVars, agent, outcome, trace, built, crowd, reboots>>

-----------------------------------------------------------------------------
(* The other routes, and the process.                                       *)

AddMemory(m) ==
  /\ Resolved(m)
  /\ Flush(m) \/ Index(m) \/ CommitItem(m) \/ LoseItem(m)
  /\ UNCHANGED <<resVars, sqlVars, runVars, crowd, reboots>>

BuildGraph(b) ==
  /\ Resolved(b) /\ b \notin built
  /\ AddFacts(b)
  /\ built' = built \cup {b}
  /\ UNCHANGED <<memVars, sqlVars, pc, agent, outcome, trace, crowd, reboots>>

\* A model has to be chosen again only if the settings were changed.
Restart ==
  /\ reboots < MaxReboots
  /\ reboots' = reboots + 1
  /\ Reboot /\ RebootMemory
  /\ pc' = [r \in Runs |-> IF at[r] = "find" /\ pc[r] \notin {"done", "refused"} THEN "failed" ELSE pc[r]]
  /\ UNCHANGED <<sqlVars, agent, outcome, trace, built, crowd>>

Next ==
  \/ \E r \in Requests : Arrive(r) \/ Depend(r)
  \/ \E r \in Runs : \/ Refuse(r) \/ Remember(r) \/ Route(r) \/ Research(r) \/ Traverse(r)
                     \/ Draft(r) \/ Summarise(r) \/ Record(r) \/ FailRun(r)
  \/ \E m \in Memories : AddMemory(m)
  \/ \E b \in Builds : BuildGraph(b)
  \/ Restart

Spec == Init /\ [][Next]_vars

-----------------------------------------------------------------------------
\* The runs know what their workspace remembers (see RecallFollows): also, an
\* agent that says it has no information was sent when nothing was listed.
RecallFollowsRows ==
  \A r \in Runs : recalled[r] # {} \/ pc[r] \in {"recalled", "routed", "finished", "done"} =>
    /\ RecallFollows(r)
    /\ outcome[r] = "declined" => known[r] = {}

\* Whatever requests race for the sample database, and wherever the process died
\* while it was created, the answers of the SQL agent hold (see SqlHolds).
SqlAnswersHold == \A r \in Runs : SqlHolds(r)

=============================================================================
