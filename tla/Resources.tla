------------------------------ MODULE Resources ------------------------------
(***************************************************************************)
(* The process-wide singletons that requests depend on: the vector stores  *)
(* and the analytics engine of app/api/deps.py over the shared client of   *)
(* vectorstore/qdrant_store.py and the sample database of                  *)
(* agents/sql/database.py, and the graph store of graph/factory.py.        *)
(*                                                                         *)
(* Their providers are plain functions: FastAPI calls them in a pool of    *)
(* threads, the dependencies of one request one after the other, those of  *)
(* several requests at once.  Each provider is "look, build, publish" and  *)
(* takes no lock; a step here is what it does between two accesses to      *)
(* something shared.  The defaults of core/config.py are modelled: the     *)
(* embedded vector store (one client per folder), the analytics database   *)
(* in a file, the graph in memory.                                         *)
(***************************************************************************)
EXTENDS Naturals, Sequences, FiniteSets

CONSTANTS
  Requests,
  Needs,       \* the resources of a request in the order of its dependencies
  TableOrder,  \* the tables of the sample database, as create_all orders them
  Nobody

Stores    == {"documents", "memory"}
Resource  == Stores \cup {"engine", "graph"}
TableSet  == {TableOrder[i] : i \in DOMAIN TableOrder}

ASSUME NobodyAssumption == Nobody \notin Requests
ASSUME NeedsAssumption == Needs \in [Requests -> Seq(Resource)]
ASSUME TablesAssumption == "sales" \in TableSet

VARIABLES
  todo,     \* resources a request still waits for
  at,       \* where it is with the first of them
  client,   \* _CLIENTS: who opened the shared client of the folder
  folder,   \* who holds the lock of the storage folder
  stores,   \* _vector_store and _memory_store: whose client they use
  engine,   \* _analytics_engine is set
  tables,   \* tables in the sample database
  rows,     \* tables with their sample rows, committed
  missing,  \* tables a request is to create
  writer,   \* who holds the write lock of the sample database
  graph,    \* _graph_store: who built it
  held,     \* the graph store a request was given
  facts,    \* requests whose facts a graph store has, by who built it
  raced     \* history: <<request, resource>> built while another one built it too

globals == <<client, folder, stores, engine, graph, held, facts>>
file    == <<tables, rows, writer, missing>>
resVars == <<todo, at, client, folder, stores, engine, tables, rows, missing, writer,
             graph, held, facts, raced>>

Building == {"share", "open", "keep", "store", "inspect", "create", "seed", "seeding",
             "connect", "fill", "return"}

ResTypeOK ==
  /\ todo \in [Requests -> Seq(Resource)]
  /\ at \in [Requests -> {"idle", "find", "failed", "dead"} \cup Building]
  /\ client \in Requests \cup {Nobody} /\ folder \in Requests \cup {Nobody}
  /\ stores \in [Stores -> Requests \cup {Nobody}]
  /\ engine \in BOOLEAN
  /\ tables \subseteq TableSet /\ rows \subseteq TableSet
  /\ missing \in [Requests -> SUBSET TableSet]
  /\ writer \in Requests \cup {Nobody}
  /\ graph \in Requests \cup {Nobody}
  /\ held \in [Requests -> Requests \cup {Nobody}]
  /\ facts \in [Requests -> SUBSET Requests]
  /\ raced \subseteq Requests \X {"folder", "engine", "graph"}

ResInit ==
  /\ todo = Needs
  /\ at = [r \in Requests |-> "idle"]
  /\ client = Nobody /\ folder = Nobody
  /\ stores = [n \in Stores |-> Nobody]
  /\ engine = FALSE
  /\ tables = {} /\ rows = {} /\ missing = [r \in Requests |-> {}] /\ writer = Nobody
  /\ graph = Nobody /\ held = [r \in Requests |-> Nobody]
  /\ facts = [r \in Requests |-> {}]
  /\ raced = {}

-----------------------------------------------------------------------------
Resolved(r) == at[r] = "find" /\ todo[r] = <<>>

\* What r waits for is the first of its dependencies.
Wants(r, n) == at[r] # "idle" /\ todo[r] # <<>> /\ Head(todo[r]) = n

\* The two stores share a client, so that they are built from one thing.
Origin(n) == IF n \in Stores THEN "folder" ELSE n

Contenders(r) ==
  {q \in Requests \ {r} :
     at[q] \in Building /\ Origin(Head(todo[q])) = Origin(Head(todo[r]))}

\* Go on to step s of the same resource.
To(r, s) == at' = [at EXCEPT ![r] = s] /\ UNCHANGED todo

\* The resource is there: go on to the next one.
Provide(r) ==
  /\ todo' = [todo EXCEPT ![r] = Tail(@)]
  /\ at' = [at EXCEPT ![r] = "find"]

\* The provider raises: the request is answered 500.
Raise(r) == To(r, "failed") /\ UNCHANGED <<globals, tables, rows, missing, raced>>

-----------------------------------------------------------------------------
(* Steps gone wrong.                                                        *)

\* SqlAnswersHold: publish the engine, then create and seed the database.
MissingEngineEarly(r) ==
  /\ Wants(r, "engine") /\ at[r] = "find" /\ ~engine
  /\ engine' = TRUE
  /\ To(r, "inspect")
  /\ raced' = raced \cup
       IF Contenders(r) = {} THEN {} ELSE ({r} \cup Contenders(r)) \X {"engine"}
  /\ UNCHANGED <<client, folder, stores, graph, held, facts, file>>

\* OnlyRacesHurt: the sample rows are committed table by table.
FillTable(r) ==
  /\ Wants(r, "engine") /\ at[r] = "seeding"
  /\ \E i \in DOMAIN TableOrder :
       /\ TableOrder[i] \notin rows /\ \A j \in 1..(i - 1) : TableOrder[j] \in rows
       /\ rows' = rows \cup {TableOrder[i]}
  /\ writer' = IF rows' = TableSet THEN Nobody ELSE writer
  /\ To(r, IF rows' = TableSet THEN "connect" ELSE "seeding")
  /\ UNCHANGED <<globals, tables, missing, raced>>

-----------------------------------------------------------------------------
(* Looking.  The global is read once; what is missing will be built.        *)

Ask(r) ==
  /\ at[r] = "idle"
  /\ To(r, "find")
  /\ UNCHANGED <<globals, file, raced>>

Found(r) ==
  /\ at[r] = "find" /\ todo[r] # <<>>
  /\ \/ \E n \in Stores : Wants(r, n) /\ stores[n] # Nobody /\ UNCHANGED held
     \/ Wants(r, "engine") /\ engine /\ UNCHANGED held
     \/ Wants(r, "graph") /\ graph # Nobody /\ held' = [held EXCEPT ![r] = graph]
  /\ Provide(r)
  /\ UNCHANGED <<client, folder, stores, engine, graph, facts, file, raced>>

\* From here on r builds: a race, if another request does.
StartBuild(r, s) ==
  /\ at[r] = "find"
  /\ To(r, s)
  /\ raced' = raced \cup
       IF Contenders(r) = {} THEN {} ELSE ({r} \cup Contenders(r)) \X {Origin(Head(todo[r]))}

MissingStore(r) ==
  /\ \E n \in Stores : Wants(r, n) /\ stores[n] = Nobody
  /\ StartBuild(r, "share")
  /\ UNCHANGED <<globals, file>>

MissingEngine(r) ==
  /\ Wants(r, "engine") /\ ~engine
  /\ StartBuild(r, "inspect")
  /\ UNCHANGED <<globals, file>>

MissingGraph(r) ==
  /\ Wants(r, "graph") /\ graph = Nobody
  /\ StartBuild(r, "fill")
  /\ UNCHANGED <<globals, file>>

-----------------------------------------------------------------------------
(* VectorStore(): _shared_client gets the client, or opens one and keeps it. *)

GetClient(r) ==
  /\ at[r] = "share"
  /\ To(r, IF client = Nobody THEN "open" ELSE "store")
  /\ UNCHANGED <<globals, file, raced>>

\* The embedded store locks its folder: a second client raises.
OpenClient(r) ==
  /\ at[r] = "open"
  /\ IF folder = Nobody
       THEN /\ folder' = r
            /\ To(r, "keep")
            /\ UNCHANGED <<client, stores, engine, graph, held, facts, file, raced>>
       ELSE Raise(r) /\ UNCHANGED writer

KeepClient(r) ==
  /\ at[r] = "keep"
  /\ client' = r
  /\ To(r, "store")
  /\ UNCHANGED <<folder, stores, engine, graph, held, facts, file, raced>>

PublishStore(r) ==
  /\ at[r] = "store"
  /\ stores' = [stores EXCEPT ![Head(todo[r])] = client]
  /\ Provide(r)
  /\ UNCHANGED <<client, folder, engine, graph, held, facts, file, raced>>

-----------------------------------------------------------------------------
(* create_analytics_database, then read_only_engine.                        *)

\* create_all asks which tables exist before it creates the others ...
InspectTables(r) ==
  /\ at[r] = "inspect"
  /\ missing' = [missing EXCEPT ![r] = TableSet \ tables]
  /\ To(r, "create")
  /\ UNCHANGED <<globals, tables, rows, writer, raced>>

\* ... one by one, each statement for itself.
CreateTable(r) ==
  /\ at[r] = "create"
  /\ \E i \in DOMAIN TableOrder :
       /\ TableOrder[i] \in missing[r] /\ \A j \in 1..(i - 1) : TableOrder[j] \notin missing[r]
       /\ IF TableOrder[i] \in tables
            THEN Raise(r) /\ UNCHANGED writer
            ELSE /\ tables' = tables \cup {TableOrder[i]}
                 /\ missing' = [missing EXCEPT ![r] = @ \ {TableOrder[i]}]
                 /\ UNCHANGED <<todo, at, globals, rows, writer, raced>>

\* already_seeded: a sale can be read.
CheckSeeded(r) ==
  /\ at[r] = "create" /\ missing[r] = {}
  /\ To(r, IF "sales" \in rows THEN "connect" ELSE "seed")
  /\ UNCHANGED <<globals, file, raced>>

\* The first insert takes the write lock (or waits for it until the driver
\* gives up) and finds its primary keys taken if another request has seeded.
BeginSeed(r) ==
  /\ at[r] = "seed"
  /\ IF writer = Nobody /\ rows = {}
       THEN /\ writer' = r
            /\ To(r, "seeding")
            /\ UNCHANGED <<globals, tables, rows, missing, raced>>
       ELSE Raise(r) /\ UNCHANGED writer

\* The three inserts commit together.
CommitSeed(r) ==
  /\ Wants(r, "engine") /\ at[r] = "seeding"
  /\ rows' = TableSet
  /\ writer' = Nobody
  /\ To(r, "connect")
  /\ UNCHANGED <<globals, tables, missing, raced>>

PublishEngine(r) ==
  /\ at[r] = "connect"
  /\ engine' = TRUE
  /\ Provide(r)
  /\ UNCHANGED <<client, folder, stores, graph, held, facts, file, raced>>

-----------------------------------------------------------------------------
(* get_graph_store: the global is set, then read once more to be returned.  *)

PublishGraph(r) ==
  /\ at[r] = "fill"
  /\ graph' = r
  /\ To(r, "return")
  /\ UNCHANGED <<client, folder, stores, engine, held, facts, file, raced>>

ReturnGraph(r) ==
  /\ at[r] = "return"
  /\ held' = [held EXCEPT ![r] = graph]
  /\ Provide(r)
  /\ UNCHANGED <<client, folder, stores, engine, graph, facts, file, raced>>

-----------------------------------------------------------------------------
Resolve(r) ==
  \/ Found(r) \/ MissingStore(r) \/ MissingEngine(r) \/ MissingGraph(r)
  \/ GetClient(r) \/ OpenClient(r) \/ KeepClient(r) \/ PublishStore(r)
  \/ InspectTables(r) \/ CreateTable(r) \/ CheckSeeded(r) \/ BeginSeed(r) \/ CommitSeed(r)
  \/ PublishEngine(r) \/ PublishGraph(r) \/ ReturnGraph(r)

\* build_graph_from_texts puts its facts into the store the request was given.
AddFacts(r) ==
  /\ facts' = [facts EXCEPT ![held[r]] = @ \cup {r}]
  /\ UNCHANGED <<todo, at, client, folder, stores, engine, graph, held, file, raced>>

\* The process dies in the middle of everything and is started again: what is
\* in a file stays, without what was not committed.
Reboot ==
  /\ at' = [r \in Requests |-> IF at[r] \in {"find"} \cup Building THEN "dead" ELSE at[r]]
  /\ client' = Nobody /\ folder' = Nobody
  /\ stores' = [n \in Stores |-> Nobody]
  /\ engine' = FALSE
  /\ writer' = Nobody
  /\ graph' = Nobody /\ held' = [r \in Requests |-> Nobody]
  /\ facts' = [r \in Requests |-> {}]
  /\ raced' = {p \in raced : at[p[1]] = "failed" /\ p[2] # "graph"}
  /\ UNCHANGED <<todo, tables, rows, missing>>

-----------------------------------------------------------------------------
\* Unless two requests build the same resource at the same time, none of them
\* fails to get it, whatever the process was doing when it last died, and no
\* fact that was stored in the graph is missing from it ("must persist across
\* requests", graph/factory.py).
OnlyRacesHurt ==
  /\ \A r \in Requests : at[r] = "failed" => <<r, Origin(Head(todo[r]))>> \in raced
  /\ (\A r \in Requests : <<r, "graph">> \notin raced) =>
       \A r, q \in Requests : r \in facts[q] => q = graph

=============================================================================
