--------------------------- MODULE KnowledgeGraph ---------------------------
(***************************************************************************)
(* The knowledge graph: app/graph (stores, builder, extractors, retriever) *)
(* behind app/api/routers/graph.py and the graph agent.                    *)
(*                                                                         *)
(* After its workspace check a handler of the graph runs without an await, *)
(* so requests do not interleave; a traversal is taken apart into the      *)
(* steps of its loops all the same, and nothing else runs until it ends.   *)
(* A restart loses the graph of the in-process store, not the one in Neo4j.*)
(*                                                                         *)
(* A definition whose comment begins with "Gone wrong" is the one below it *)
(* the way a change of the code could make it: the properties find it.     *)
(***************************************************************************)
EXTENDS Naturals, Sequences, FiniteSets

CONSTANTS
  Names,       \* names of entities, normalized and in lower case
  Types,
  Entity,      \* the type of an entity nobody has typed
  Relations,
  Texts,       \* chunks of text
  Entities,    \* the typed entities each text mentions
  Facts,       \* the relationships it states between them
  GivenTexts,  \* texts a client may send along with a build
  Workspaces,
  None,        \* no workspace, no node
  MaxSeeds,    \* max_entities of GraphRetriever
  MaxDepth,    \* bound: depth of a query
  MaxCrashes   \* bound: restarts

Node == [type: Types, name: Names]
Edge == [source: Node, relation: Relations, target: Node]

ASSUME TypesAssumption == Entity \in Types
ASSUME NoneAssumption == None \notin Workspaces /\ None \notin Node
ASSUME BoundsAssumption == MaxSeeds \in Nat /\ MaxDepth \in Nat /\ MaxCrashes \in Nat
ASSUME TextsAssumption ==
  /\ Entities \in [Texts -> SUBSET Node]
  /\ Facts \in [Texts -> SUBSET Edge]
  /\ GivenTexts \subseteq Texts

VARIABLES
  chunks,      \* texts in the vector store, per workspace
  backend,     \* GRAPH_BACKEND
  extractor,   \* GRAPH_ENTITY_EXTRACTOR of the running process
  nodes, edges, \* the graph of each workspace
  pc,          \* where the request being served is
  asker, depth, seeds, \* workspace, depth and seed entities of a query
  todo,        \* seeds still to start from
  at,          \* the node the traversal has popped, and its distance
  queue,       \* its frontier
  visited,
  pending,     \* edges of that node still to look at
  seen,        \* edges found from the current seed
  answer,      \* edges found so far
  crashes,
  read         \* history: what each workspace's builds read, and how, since the graph was empty

graph   == <<nodes, edges, read>>
process == <<chunks, backend, extractor, crashes>>
query   == <<asker, depth, seeds>>
walk    == <<at, queue, visited, pending, seen>>
vars    == <<chunks, backend, extractor, nodes, edges, pc, asker, depth, seeds, todo, at, queue,
             visited, pending, seen, answer, crashes, read>>

Extractors == {"rule", "llm"}
Visit == [node: Node, dist: Nat]
Ends(E) == {e.source : e \in E} \cup {e.target : e \in E}

\* Every variable has its type, and an edge has its ends whatever an extractor
\* returned and wherever a build stopped, so that `neighbors` can start from
\* every entity a fact names.
TypeOK ==
  /\ chunks \in [Workspaces -> SUBSET Texts]
  /\ backend \in {"memory", "neo4j"}
  /\ extractor \in Extractors
  /\ nodes \in [Workspaces -> SUBSET Node]
  /\ edges \in [Workspaces -> SUBSET Edge]
  /\ \A w \in Workspaces : Ends(edges[w]) \subseteq nodes[w]
  /\ pc \in {"idle", "seed", "walk", "answered"}
  /\ asker \in IF pc = "idle" THEN {None} ELSE Workspaces
  /\ depth \in 0..MaxDepth
  /\ seeds \subseteq Node /\ todo \subseteq seeds
  /\ at \in [node: Node \cup {None}, dist: Nat]
  /\ queue \in Seq(Visit)
  /\ visited \subseteq Node
  /\ pending \subseteq Edge /\ seen \subseteq Edge /\ answer \subseteq Edge
  /\ crashes \in 0..MaxCrashes
  /\ read \in [Workspaces -> SUBSET (Texts \X Extractors)]

Nowhere == [node |-> None, dist |-> 0]

Init ==
  /\ chunks = [w \in Workspaces |-> {}]
  /\ backend \in {"memory", "neo4j"}
  /\ extractor \in Extractors
  /\ nodes = [w \in Workspaces |-> {}] /\ edges = [w \in Workspaces |-> {}]
  /\ pc = "idle"
  /\ asker = None /\ depth = 0 /\ seeds = {} /\ todo = {}
  /\ at = Nowhere /\ queue = <<>> /\ visited = {} /\ pending = {} /\ seen = {} /\ answer = {}
  /\ crashes = 0
  /\ read = [w \in Workspaces |-> {}]

-----------------------------------------------------------------------------
(* Extraction.                                                              *)

\* The language model is asked for relationships without the types of their ends.
Untyped(n) == [n EXCEPT !.type = Entity]
Relationships(t, x) ==
  IF x = "rule" THEN Facts[t]
  ELSE {[source |-> Untyped(e.source), relation |-> e.relation, target |-> Untyped(e.target)] :
          e \in Facts[t]}

\* The facts that reading S, pairs of a text and an extractor, puts into a graph.
EdgesOf(S) == UNION {Relationships(r[1], r[2]) : r \in S}

\* Gone wrong: add_relationships without its add_entities.
NodesWithoutEnds(S) == UNION {Entities[r[1]] : r \in S}

\* The entities: add_relationships makes nodes of the ends that are not there.
NodesOf(S) == Ends(EdgesOf(S)) \cup UNION {Entities[r[1]] : r \in S}

-----------------------------------------------------------------------------
(* The documents' chunks come and go, see Ingestion.                        *)

Index(w, t) ==
  /\ pc = "idle"
  /\ chunks' = [chunks EXCEPT ![w] = @ \cup {t}]
  /\ UNCHANGED <<graph, backend, extractor, crashes, pc, query, todo, walk, answer>>

Unindex(w, t) ==
  /\ pc = "idle"
  /\ chunks' = [chunks EXCEPT ![w] = @ \ {t}]
  /\ UNCHANGED <<graph, backend, extractor, crashes, pc, query, todo, walk, answer>>

-----------------------------------------------------------------------------
(* POST /workspaces/{id}/graph/build, with texts or from all chunks.         *)

\* R was read as a whole, and the entities alone of the texts in half.
Upsert(w, R, half) ==
  /\ nodes' = [nodes EXCEPT ![w] = @ \cup NodesOf(R) \cup UNION {Entities[t] : t \in half}]
  /\ edges' = [edges EXCEPT ![w] = @ \cup EdgesOf(R)]
  /\ read' = [read EXCEPT ![w] = @ \cup R]

\* The texts are read one by one.  A language model's answer may be no JSON and
\* the text adds nothing.  The model, or Neo4j, may raise and the rest is not read;
\* it may also raise between a text's entities and its relationships, which are two
\* calls: Neo4j commits each, and the in-memory store raises on a name that the
\* model gave and that is no text, and keeps what came before it.
Build(w) ==
  /\ pc = "idle"
  /\ \E T \in {chunks[w]} \cup (SUBSET GivenTexts \ {{}}) : \E done \in SUBSET T :
       \E half \in {{}} \cup {{t} : t \in T \ done} :
         /\ done # T => extractor = "llm" \/ backend = "neo4j"
         /\ Upsert(w, done \X {extractor}, half)
  /\ UNCHANGED <<process, pc, query, todo, walk, answer>>

-----------------------------------------------------------------------------
(* GET .../neighbors, POST .../graph/query and the graph agent.              *)

\* Which entities the query mentions, by name or by part of a name, is open.
Ask(w, d) ==
  /\ pc = "idle"
  /\ \E S \in SUBSET nodes[w] : Cardinality(S) <= MaxSeeds /\ seeds' = S /\ todo' = S
  /\ asker' = w /\ depth' = d
  /\ pc' = "seed"
  /\ UNCHANGED <<graph, process, walk, answer>>

\* neighbors(seed): the seed alone is visited and queued.
Begin(s) ==
  /\ pc = "seed" /\ s \in todo
  /\ todo' = todo \ {s}
  /\ queue' = <<[node |-> s, dist |-> 0]>>
  /\ visited' = {s}
  /\ pc' = "walk"
  /\ UNCHANGED <<graph, process, query, at, pending, seen, answer>>

\* Gone wrong: the edges are kept under no tenant.
IncidentAnywhere(E, n) ==
  {e \in UNION {edges[w] : w \in Workspaces} : e.source = n \/ e.target = n}

Incident(E, n) == {e \in E : e.source = n \/ e.target = n}
Other(e, n) == IF e.source = n THEN e.target ELSE e.source

\* Gone wrong: `dist > depth` for `dist >= depth`.
PopTooFar ==
  /\ pc = "walk" /\ pending = {} /\ queue # <<>>
  /\ at' = Head(queue)
  /\ queue' = Tail(queue)
  /\ pending' = IF at'.dist <= depth THEN Incident(edges[asker], at'.node) ELSE {}
  /\ UNCHANGED <<graph, process, query, pc, todo, visited, seen, answer>>

\* Gone wrong: the head of the frontier is read and not removed.
PopPeeks ==
  /\ pc = "walk" /\ pending = {} /\ queue # <<>>
  /\ at' = Head(queue)
  /\ pending' = IF at'.dist < depth THEN Incident(edges[asker], at'.node) ELSE {}
  /\ UNCHANGED <<graph, process, query, pc, todo, queue, visited, seen, answer>>

\* popleft; a node as far as the depth is not expanded.
Pop ==
  /\ pc = "walk" /\ pending = {} /\ queue # <<>>
  /\ at' = Head(queue)
  /\ queue' = Tail(queue)
  /\ pending' = IF at'.dist < depth THEN Incident(edges[asker], at'.node) ELSE {}
  /\ UNCHANGED <<graph, process, query, pc, todo, visited, seen, answer>>

\* One round of the loop over the edges.
Follow(e) ==
  /\ pc = "walk" /\ e \in pending
  /\ pending' = pending \ {e}
  /\ seen' = seen \cup {e}
  /\ LET m == Other(e, at.node)
     IN IF m \in visited
          THEN UNCHANGED <<visited, queue>>
          ELSE /\ visited' = visited \cup {m}
               /\ queue' = Append(queue, [node |-> m, dist |-> at.dist + 1])
  /\ UNCHANGED <<graph, process, query, pc, todo, at, answer>>

\* neighbors returns its facts to the retriever, which drops the ones it has.
Return ==
  /\ pc = "walk" /\ pending = {} /\ queue = <<>>
  /\ answer' = answer \cup seen
  /\ at' = Nowhere /\ visited' = {} /\ seen' = {}
  /\ pc' = "seed"
  /\ UNCHANGED <<graph, process, query, todo, queue, pending>>

\* All seeds are done.
Answer ==
  /\ pc = "seed" /\ todo = {}
  /\ pc' = "answered"
  /\ UNCHANGED <<graph, process, query, todo, walk, answer>>

Forget == asker' = None /\ depth' = 0 /\ seeds' = {} /\ todo' = {} /\ answer' = {}

\* The response is sent.
Reply ==
  /\ pc = "answered"
  /\ Forget
  /\ pc' = "idle"
  /\ UNCHANGED <<graph, process, walk>>

Stop == at' = Nowhere /\ queue' = <<>> /\ visited' = {} /\ pending' = {} /\ seen' = {}

\* A call of Neo4j raises, and the query is answered with an error.
QueryFails ==
  /\ pc \in {"seed", "walk"} /\ backend = "neo4j"
  /\ Forget /\ Stop
  /\ pc' = "idle"
  /\ UNCHANGED <<graph, process>>

-----------------------------------------------------------------------------
\* The process dies, at any point, and restarts with either extractor.
Crash ==
  /\ crashes < MaxCrashes
  /\ crashes' = crashes + 1
  /\ extractor' \in Extractors
  /\ Forget /\ Stop
  /\ pc' = "idle"
  /\ IF backend = "memory"
       THEN /\ nodes' = [w \in Workspaces |-> {}] /\ edges' = [w \in Workspaces |-> {}]
            /\ read' = [w \in Workspaces |-> {}]
       ELSE UNCHANGED graph
  /\ UNCHANGED <<chunks, backend>>

Walking == (\E s \in todo : Begin(s)) \/ Pop \/ (\E e \in pending : Follow(e)) \/ Return \/ Answer

Next ==
  \/ \E w \in Workspaces, t \in Texts : Index(w, t) \/ Unindex(w, t)
  \/ \E w \in Workspaces : Build(w)
  \/ \E w \in Workspaces, d \in 0..MaxDepth : Ask(w, d)
  \/ Walking
  \/ Reply
  \/ QueryFails
  \/ Crash

Spec == Init /\ [][Next]_vars

\* The loops of a handler run on unless the process dies.
FairSpec == Spec /\ WF_vars(Walking)

-----------------------------------------------------------------------------
(* Properties.                                                              *)

\* Nodes m and n are the same or the ends of an edge of E.
Step(E, m, n) == m = n \/ \E e \in Incident(E, n) : m = Other(e, n)

\* A path: n can be reached from s in at most k steps.
Near(N, E, k, s, n) ==
  \E p \in [0..k -> N] : p[0] = s /\ p[k] = n /\ \A i \in 1..k : Step(E, p[i], p[i - 1])

\* The facts within d hops of s: each is the last edge of such a path.
Within(N, E, d, s) ==
  {e \in E : \E k \in 0..(d - 1) : Near(N, E, k, s, e.source) \/ Near(N, E, k, s, e.target)}

\* A query is answered with exactly the facts within depth hops of its seeds:
\* cycles, parallel edges, several seeds and the order of the edges (`neighbors`
\* and the retriever's merge) neither lose one nor add one.
AnswersAreExact ==
  pc = "answered" =>
    answer = UNION {Within(nodes[asker], edges[asker], depth, s) : s \in seeds}

\* An answer is made of facts that a build of the asker's own workspace read in
\* a text, never of another tenant's and, in a process that has lost its graph,
\* of none from before.
AnswersComeFromTexts == pc = "answered" => answer \subseteq EdgesOf(read[asker])

\* Every query is answered, also on a graph with cycles, unless the process dies
\* or the database fails.
QueriesAnswered == pc \in {"seed", "walk"} ~> pc \in {"answered", "idle"}

(* What the program says of itself and does not do.                         *)

\* The graph stays consistent with the chunks that retrieval searches: its
\* facts are in one of them.
GraphFollowsDocuments ==
  \A w \in Workspaces : edges[w] \subseteq EdgesOf(chunks[w] \X Extractors)

\* The same entity, which every text here gives the same type, is one node.
EntitiesMerge == \A w \in Workspaces : \A m, n \in nodes[w] : m.name = n.name => m = n
=============================================================================
