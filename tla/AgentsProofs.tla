----------------------------- MODULE AgentsProofs -----------------------------
(***************************************************************************)
(* Theorems about Agents for any number of requests, workspaces, memories, *)
(* drafts, attempts and restarts: first what the requests that do not race *)
(* for the resources rely on, then the memories and the SQL agent.         *)
(***************************************************************************)
EXTENDS Agents, FiniteSetTheorems, TLAPS

\* What a system does with the resources: its requests ask for them, one that
\* has them may add facts to the graph, and the process may die.
ResStep ==
  \/ \E r \in Requests : Ask(r) \/ Resolve(r) \/ AddFacts(r)
  \/ Reboot
  \/ UNCHANGED resVars

-----------------------------------------------------------------------------
(* The inductive invariant of the resources.                                *)

AtFolder == {"share", "open", "keep", "store"}
AtEngine == {"inspect", "create", "seed", "seeding", "connect"}
AtGraph  == {"fill", "return"}

Alone(r) == <<r, Origin(Head(todo[r]))>> \notin raced

\* A request builds what it waits for.
PlaceInv ==
  \A r \in Requests :
    /\ at[r] \in Building \cup {"failed"} => todo[r] # <<>>
    /\ at[r] \in AtFolder => Head(todo[r]) \in Stores
    /\ at[r] \in AtEngine => Head(todo[r]) = "engine"
    /\ at[r] \in AtGraph => Head(todo[r]) = "graph"
    /\ at[r] = "failed" => Head(todo[r]) # "graph"

\* Who builds with another one is remembered.
AloneInv == \A r \in Requests : at[r] \in Building /\ Alone(r) => Contenders(r) = {}

\* The folder is locked by the shared client, or by one who is about to keep it.
FolderInv ==
  /\ folder # Nobody => client # Nobody \/ at[folder] = "keep"
  /\ \A r \in Requests : at[r] = "open" /\ Alone(r) => client = Nobody

\* The sample rows are all there or none is.
SeedInv ==
  /\ rows \in {{}, TableSet}
  /\ engine => rows = TableSet
  /\ writer # Nobody => at[writer] = "seeding"
  /\ \A r \in Requests :
       /\ at[r] = "connect" => rows = TableSet
       /\ at[r] = "create" /\ Alone(r) => missing[r] \cap tables = {}
       /\ at[r] = "seed" /\ Alone(r) => rows = {}

\* Who does not wait for the engine any more has been given it.
EngineInv ==
  \A r \in Requests :
    /\ at[r] = "idle" => todo[r] = Needs[r]
    /\ at[r] \in {"find"} \cup Building =>
         \/ engine
         \/ \E i \in DOMAIN todo[r] : todo[r][i] = "engine"
         \/ \A i \in DOMAIN Needs[r] : Needs[r][i] # "engine"

\* Without a race for it there is one graph store at most.
GraphInv ==
  (\A r \in Requests : <<r, "graph">> \notin raced) =>
    /\ \A r, q \in Requests : r \in facts[q] => q = graph
    /\ \A r \in Requests : held[r] \in {Nobody, graph}
    /\ \A r \in Requests : at[r] = "fill" => graph = Nobody

FailInv == \A r \in Requests : at[r] = "failed" => ~Alone(r)

ResInv ==
  /\ ResTypeOK
  /\ PlaceInv /\ AloneInv /\ FolderInv /\ SeedInv /\ EngineInv /\ GraphInv /\ FailInv

-----------------------------------------------------------------------------
(* The initial state.                                                       *)

\* The invariant holds when no request has been sent.
THEOREM ResInitInv == ResInit => ResInv
<1> SUFFICES ASSUME ResInit PROVE ResInv
  OBVIOUS
<1> USE DEF ResInit
<1>1. ResTypeOK
  BY NeedsAssumption DEF ResTypeOK
<1>2. \A r \in Requests : at[r] = "idle"
  OBVIOUS
<1>3. PlaceInv /\ AloneInv /\ FailInv
  BY <1>2 DEF PlaceInv, AloneInv, FailInv, Building, AtFolder, AtEngine, AtGraph
<1>4. FolderInv /\ SeedInv
  BY <1>2 DEF FolderInv, SeedInv
<1>5. EngineInv
  BY <1>2 DEF EngineInv, Building
<1>6. GraphInv
  BY <1>2 DEF GraphInv
<1>7. QED
  BY <1>1, <1>3, <1>4, <1>5, <1>6 DEF ResInv

-----------------------------------------------------------------------------
(* What one provider does to where the requests are.                        *)

\* A step of r leaves the other requests where they are and forgets no race; a
\* request that starts to build notes those that build the same thing.
LEMMA Moves ==
  ASSUME ResTypeOK, PlaceInv, NEW r \in Requests, Resolve(r)
  PROVE  /\ \A q \in Requests \ {r} : at'[q] = at[q] /\ todo'[q] = todo[q]
         /\ raced \subseteq raced'
         /\ at'[r] \in Building => todo' = todo
         /\ \/ at'[r] \notin Building
            \/ at[r] \in Building
            \/ Contenders(r) = {}
            \/ ({r} \cup Contenders(r)) \X {Origin(Head(todo[r]))} \subseteq raced'
<1> USE DEF Building
<1>0. at \in [Requests -> {"idle", "find", "failed", "dead"} \cup Building]
      /\ todo \in [Requests -> Seq(Resource)]
  BY DEF ResTypeOK
<1>1. CASE MissingStore(r) \/ MissingEngine(r) \/ MissingGraph(r)
  <2>1. StartBuild(r, "share") \/ StartBuild(r, "inspect") \/ StartBuild(r, "fill")
    BY <1>1 DEF MissingStore, MissingEngine, MissingGraph
  <2>2. todo' = todo /\ \A q \in Requests \ {r} : at'[q] = at[q]
    BY <1>0, <2>1 DEF StartBuild, To
  <2>3. raced' = raced \cup
          IF Contenders(r) = {} THEN {} ELSE ({r} \cup Contenders(r)) \X {Origin(Head(todo[r]))}
    BY <2>1 DEF StartBuild
  <2>4. QED
    BY <2>2, <2>3
<1>2. CASE Found(r) \/ PublishStore(r) \/ PublishEngine(r) \/ ReturnGraph(r)
  <2>1. Provide(r) /\ UNCHANGED raced
    BY <1>2 DEF Found, PublishStore, PublishEngine, ReturnGraph
  <2>2. QED
    BY <1>0, <2>1 DEF Provide
<1>3. CASE GetClient(r) \/ KeepClient(r) \/ InspectTables(r) \/ CheckSeeded(r)
           \/ CommitSeed(r) \/ PublishGraph(r)
  <2>1. /\ at[r] \in Building /\ UNCHANGED <<todo, raced>>
        /\ \E s \in Building : at' = [at EXCEPT ![r] = s]
    BY <1>3 DEF GetClient, KeepClient, InspectTables, CheckSeeded, CommitSeed, PublishGraph, To
  <2>2. QED
    BY <1>0, <2>1
<1>4. CASE OpenClient(r) \/ CreateTable(r) \/ BeginSeed(r)
  <2>1. /\ at[r] \in Building /\ UNCHANGED <<todo, raced>>
        /\ at' = at \/ \E s \in Building \cup {"failed"} : at' = [at EXCEPT ![r] = s]
    BY <1>4 DEF OpenClient, CreateTable, BeginSeed, Raise, To
  <2>2. QED
    BY <1>0, <2>1
<1>5. QED
  BY <1>1, <1>2, <1>3, <1>4 DEF Resolve

\* Resolving a dependency keeps it true that those who race are remembered.
LEMMA ResolveAlone ==
  ASSUME ResTypeOK, PlaceInv, AloneInv, NEW r \in Requests, Resolve(r)
  PROVE  AloneInv'
<1>1. SUFFICES ASSUME NEW q \in Requests, at'[q] \in Building,
                      <<q, Origin(Head(todo'[q]))>> \notin raced',
                      NEW p \in Requests \ {q}, at'[p] \in Building,
                      Origin(Head(todo'[p])) = Origin(Head(todo'[q]))
               PROVE  FALSE
  BY DEF AloneInv, Alone, Contenders, Origin
<1> DEFINE o(x) == Origin(Head(todo[x]))
<1>2. /\ \A x \in Requests \ {r} : at'[x] = at[x] /\ todo'[x] = todo[x]
      /\ raced \subseteq raced'
      /\ at'[r] \in Building => todo' = todo
      /\ \/ at'[r] \notin Building
         \/ at[r] \in Building
         \/ Contenders(r) = {}
         \/ ({r} \cup Contenders(r)) \X {Origin(Head(todo[r]))} \subseteq raced'
  BY Moves
<1>3. todo'[p] = todo[p] /\ todo'[q] = todo[q]
  BY <1>1, <1>2
<1>4. o(p) = o(q) /\ <<q, o(q)>> \notin raced'
  BY <1>1, <1>3
<1>5. \A x, y \in Requests : at[x] \in Building /\ at[y] \in Building /\ x # y /\ o(x) = o(y)
        => <<x, o(x)>> \in raced
  BY DEF AloneInv, Alone, Contenders
<1>6. CASE p # r /\ q # r
  BY <1>1, <1>2, <1>4, <1>5, <1>6
<1>7. CASE q = r
  <2>1. at[p] \in Building
    BY <1>1, <1>2, <1>7
  <2>2. p \in Contenders(r)
    BY <1>1, <1>4, <1>7, <2>1 DEF Contenders
  <2>3. QED
    BY <1>1, <1>2, <1>4, <1>5, <1>7, <2>1, <2>2
<1>8. CASE p = r
  <2>1. at[q] \in Building
    BY <1>1, <1>2, <1>8
  <2>2. q \in Contenders(r)
    BY <1>1, <1>4, <1>8, <2>1 DEF Contenders
  <2>3. QED
    BY <1>1, <1>2, <1>4, <1>5, <1>8, <2>1, <2>2
<1>9. QED
  BY <1>6, <1>7, <1>8

\* Resolving a dependency keeps the types.
LEMMA ResolveType ==
  ASSUME ResTypeOK, PlaceInv, NEW r \in Requests, Resolve(r)
  PROVE  ResTypeOK'
<1> USE DEF ResTypeOK, Building
<1>1. CASE Found(r)
  <2>1. todo[r] \in Seq(Resource) /\ todo[r] # <<>> /\ Tail(todo[r]) \in Seq(Resource)
    BY <1>1 DEF Found
  <2>2. held' \in [Requests -> Requests \cup {Nobody}]
    BY <1>1 DEF Found
  <2>3. QED
    BY <1>1, <2>1, <2>2 DEF Found, Provide, file
<1>2. CASE PublishStore(r)
  <2>1. todo[r] \in Seq(Resource) /\ todo[r] # <<>> /\ Head(todo[r]) \in Stores
    BY <1>2 DEF PublishStore, PlaceInv, AtFolder
  <2>2. stores' \in [Stores -> Requests \cup {Nobody}]
    BY <1>2, <2>1 DEF PublishStore
  <2>3. Tail(todo[r]) \in Seq(Resource)
    BY <2>1
  <2>4. QED
    BY <1>2, <2>2, <2>3 DEF PublishStore, Provide, file
<1>3. CASE PublishEngine(r) \/ ReturnGraph(r)
  <2>1. todo[r] \in Seq(Resource) /\ todo[r] # <<>> /\ Tail(todo[r]) \in Seq(Resource)
    BY <1>3 DEF PublishEngine, ReturnGraph, PlaceInv
  <2>2. Provide(r) /\ UNCHANGED <<client, folder, stores, graph, facts, file, raced>>
    BY <1>3 DEF PublishEngine, ReturnGraph
  <2>3. todo' \in [Requests -> Seq(Resource)]
        /\ at' \in [Requests -> {"idle", "find", "failed", "dead"} \cup Building]
    BY <2>1, <2>2 DEF Provide
  <2>4. CASE PublishEngine(r)
    <3>1. engine' \in BOOLEAN /\ held' = held
      BY <2>4, <2>2 DEF PublishEngine
    <3>2. QED
      BY <2>2, <2>3, <3>1 DEF file
  <2>5. CASE ReturnGraph(r)
    <3>1. engine' = engine /\ held' \in [Requests -> Requests \cup {Nobody}]
      BY <2>5 DEF ReturnGraph
    <3>2. QED
      BY <2>2, <2>3, <3>1 DEF file
  <2>6. QED
    BY <1>3, <2>4, <2>5
<1>4. CASE MissingStore(r) \/ MissingEngine(r) \/ MissingGraph(r)
  <2>1. \E s \in Building : StartBuild(r, s)
    BY <1>4 DEF MissingStore, MissingEngine, MissingGraph
  <2>2. todo[r] # <<>>
    BY <1>4 DEF MissingStore, MissingEngine, MissingGraph, Wants
  <2>3. Origin(Head(todo[r])) \in {"folder", "engine", "graph"}
    <3>1. Head(todo[r]) \in Resource
      BY <2>2
    <3>2. QED
      BY <3>1 DEF Origin, Resource
  <2>4. raced' \subseteq Requests \X {"folder", "engine", "graph"}
    BY <2>1, <2>3 DEF StartBuild, Contenders
  <2>5. at' \in [Requests -> {"idle", "find", "failed", "dead"} \cup Building] /\ todo' = todo
    BY <2>1 DEF StartBuild, To
  <2>6. QED
    BY <1>4, <2>4, <2>5 DEF MissingStore, MissingEngine, MissingGraph, globals, file
<1>5. CASE GetClient(r) \/ CheckSeeded(r)
  BY <1>5 DEF GetClient, CheckSeeded, To, globals, file
<1>6. CASE KeepClient(r) \/ PublishGraph(r)
  BY <1>6 DEF KeepClient, PublishGraph, To, file
<1>7. CASE OpenClient(r)
  BY <1>7 DEF OpenClient, Raise, To, globals, file
<1>8. CASE BeginSeed(r)
  BY <1>8 DEF BeginSeed, Raise, To, globals, file
<1>9. CASE CreateTable(r)
  <2>1. PICK i \in DOMAIN TableOrder :
          IF TableOrder[i] \in tables
            THEN Raise(r) /\ UNCHANGED writer
            ELSE /\ tables' = tables \cup {TableOrder[i]}
                 /\ missing' = [missing EXCEPT ![r] = @ \ {TableOrder[i]}]
                 /\ UNCHANGED <<todo, at, globals, rows, writer, raced>>
    BY <1>9 DEF CreateTable
  <2>2. TableOrder[i] \in TableSet
    BY DEF TableSet
  <2>3. CASE TableOrder[i] \in tables
    BY <2>1, <2>3 DEF Raise, To, globals
  <2>4. CASE TableOrder[i] \notin tables
    <3>1. missing' = [missing EXCEPT ![r] = missing[r] \ {TableOrder[i]}]
      BY <2>1, <2>4
    <3>2. missing \in [Requests -> SUBSET TableSet]
          /\ missing[r] \ {TableOrder[i]} \in SUBSET TableSet
      OBVIOUS
    <3>3. missing' \in [Requests -> SUBSET TableSet]
      BY <3>1, <3>2
    <3>4. tables' \subseteq TableSet
      BY <2>1, <2>2, <2>4
    <3>5. QED
      BY <2>1, <2>4, <3>3, <3>4 DEF globals
  <2>5. QED
    BY <2>3, <2>4
<1>10. CASE InspectTables(r)
  BY <1>10 DEF InspectTables, To, globals, file
<1>11. CASE CommitSeed(r)
  BY <1>11 DEF CommitSeed, To, globals, file
<1>12. QED
  BY <1>1, <1>2, <1>3, <1>4, <1>5, <1>6, <1>7, <1>8, <1>9, <1>10, <1>11 DEF Resolve

\* What r does next belongs to the resource it waits for.
LEMMA ResolvePlace ==
  ASSUME ResTypeOK, PlaceInv, NEW r \in Requests, Resolve(r)
  PROVE  PlaceInv'
<1> USE DEF Building, AtFolder, AtEngine, AtGraph
<1> DEFINE Place(a, t) == /\ a \in Building \cup {"failed"} => t # <<>>
                          /\ a \in AtFolder => Head(t) \in Stores
                          /\ a \in AtEngine => Head(t) = "engine"
                          /\ a \in AtGraph => Head(t) = "graph"
                          /\ a = "failed" => Head(t) # "graph"
<1>1. \A q \in Requests : Place(at[q], todo[q])
  BY DEF PlaceInv
<1>2. at \in [Requests -> {"idle", "find", "failed", "dead"} \cup Building]
      /\ todo \in [Requests -> Seq(Resource)]
  BY DEF ResTypeOK
<1>3. \A q \in Requests \ {r} : at'[q] = at[q] /\ todo'[q] = todo[q]
  BY Moves
<1>4. Place(at'[r], todo'[r])
  <2>1. CASE Found(r) \/ PublishStore(r) \/ PublishEngine(r) \/ ReturnGraph(r)
    <3>1. at'[r] = "find"
      BY <1>2, <2>1 DEF Found, PublishStore, PublishEngine, ReturnGraph, Provide
    <3>2. QED
      BY <3>1
  <2>2. CASE MissingStore(r)
    BY <1>2, <2>2 DEF MissingStore, StartBuild, To, Wants, Stores
  <2>3. CASE MissingEngine(r) \/ MissingGraph(r)
    BY <1>2, <2>3 DEF MissingEngine, MissingGraph, StartBuild, To, Wants
  <2>4. CASE GetClient(r) \/ OpenClient(r) \/ KeepClient(r)
    <3>1. todo[r] # <<>> /\ Head(todo[r]) \in Stores
      BY <1>1, <2>4 DEF GetClient, OpenClient, KeepClient
    <3>2. todo' = todo /\ at'[r] \in AtFolder \cup {"failed"}
      BY <1>2, <2>4 DEF GetClient, OpenClient, KeepClient, Raise, To
    <3>3. QED
      BY <3>1, <3>2 DEF Stores
  <2>5. CASE InspectTables(r) \/ CreateTable(r) \/ CheckSeeded(r) \/ BeginSeed(r) \/ CommitSeed(r)
    <3>1. todo[r] # <<>> /\ Head(todo[r]) = "engine"
      BY <1>1, <2>5 DEF InspectTables, CreateTable, CheckSeeded, BeginSeed, CommitSeed
    <3>2. todo' = todo /\ at'[r] \in AtEngine \cup {"failed"}
      BY <1>2, <2>5 DEF InspectTables, CreateTable, CheckSeeded, BeginSeed, CommitSeed, Raise, To
    <3>3. QED
      BY <3>1, <3>2
  <2>6. CASE PublishGraph(r)
    BY <1>1, <1>2, <2>6 DEF PublishGraph, To
  <2>7. QED
    BY <2>1, <2>2, <2>3, <2>4, <2>5, <2>6 DEF Resolve
<1>5. \A q \in Requests : Place(at'[q], todo'[q])
  BY <1>1, <1>3, <1>4
<1>6. QED
  BY <1>5 DEF PlaceInv

\* The folder stays with the shared client or with one who is to keep it, and
\* no request that is alone is refused it.
LEMMA ResolveFolder ==
  ASSUME ResTypeOK, PlaceInv, AloneInv, FolderInv, FailInv, NEW r \in Requests, Resolve(r)
  PROVE  FolderInv'
<1> USE DEF Building
<1>1. /\ \A q \in Requests \ {r} : at'[q] = at[q] /\ todo'[q] = todo[q]
      /\ raced \subseteq raced'
      /\ at'[r] \in Building => todo' = todo
  BY Moves
<1>2. /\ folder # Nobody => client # Nobody \/ at[folder] = "keep"
      /\ \A q \in Requests : at[q] = "open" /\ Alone(q) => client = Nobody
      /\ client \in Requests \cup {Nobody} /\ folder \in Requests \cup {Nobody}
      /\ at \in [Requests -> {"idle", "find", "failed", "dead"} \cup Building]
  BY DEF FolderInv, ResTypeOK
<1>3. \A q \in Requests : at'[q] = "open" /\ Alone(q)' => Alone(q)
  BY <1>1 DEF Alone
<1>4. CASE GetClient(r)
  <2>1. client' = client /\ folder' = folder /\ (at'[r] = "open" => client = Nobody)
        /\ at[r] = "share"
    BY <1>2, <1>4 DEF GetClient, To, globals
  <2>2. QED
    BY <1>1, <1>2, <1>3, <2>1 DEF FolderInv
<1>5. CASE OpenClient(r)
  <2>1. client' = client /\ at[r] = "open" /\ at'[r] # "open"
        /\ (folder' = folder \/ (folder' = r /\ at'[r] = "keep"))
    BY <1>2, <1>5 DEF OpenClient, To, Raise, globals
  <2>2. QED
    BY <1>1, <1>2, <1>3, <2>1 DEF FolderInv
<1>6. CASE KeepClient(r)
  <2>1. client' = r /\ folder' = folder /\ at[r] = "keep" /\ at'[r] # "open"
    BY <1>2, <1>6 DEF KeepClient, To
  <2>2. \A q \in Requests : at'[q] = "open" => ~Alone(q)
    <3>1. SUFFICES ASSUME NEW q \in Requests \ {r}, at[q] = "open", Alone(q) PROVE FALSE
      BY <1>1, <2>1
    <3>2. Head(todo[r]) \in Stores /\ Head(todo[q]) \in Stores
      BY <2>1, <3>1 DEF PlaceInv, AtFolder
    <3>3. r \in Contenders(q)
      BY <2>1, <3>2 DEF Contenders, Origin
    <3>4. QED
      BY <3>1, <3>3 DEF AloneInv
  <2>3. QED
    BY <1>3, <2>1, <2>2, NobodyAssumption DEF FolderInv
<1>7. CASE ~(GetClient(r) \/ OpenClient(r) \/ KeepClient(r))
  <2>1. client' = client /\ folder' = folder
    BY <1>7 DEF Resolve, Found, MissingStore, MissingEngine, MissingGraph, PublishStore,
       InspectTables, CreateTable, CheckSeeded, BeginSeed, CommitSeed, PublishEngine,
       PublishGraph, ReturnGraph, Raise, globals
  <2>2. at[r] # "keep" \/ at'[r] = at[r]
    BY <1>2, <1>7 DEF Resolve, Found, MissingStore, MissingEngine, MissingGraph, StartBuild, PublishStore,
       InspectTables, CreateTable, CheckSeeded, BeginSeed, CommitSeed, PublishEngine,
       PublishGraph, ReturnGraph
  <2>3. at'[r] # "open"
    <3>1. CASE Found(r) \/ PublishStore(r) \/ PublishEngine(r) \/ ReturnGraph(r)
      BY <1>2, <3>1 DEF Found, PublishStore, PublishEngine, ReturnGraph, Provide
    <3>2. CASE MissingStore(r) \/ MissingEngine(r) \/ MissingGraph(r)
      BY <1>2, <3>2 DEF MissingStore, MissingEngine, MissingGraph, StartBuild, To
    <3>3. CASE InspectTables(r) \/ CreateTable(r) \/ CheckSeeded(r) \/ BeginSeed(r)
               \/ CommitSeed(r) \/ PublishGraph(r)
      BY <1>2, <3>3 DEF InspectTables, CreateTable, CheckSeeded, BeginSeed, CommitSeed,
         PublishGraph, Raise, To
    <3>4. QED
      BY <1>7, <3>1, <3>2, <3>3 DEF Resolve
  <2>4. QED
    BY <1>1, <1>2, <1>3, <2>1, <2>2, <2>3 DEF FolderInv
<1>8. QED
  BY <1>4, <1>5, <1>6, <1>7

\* Two requests that create the sample database at once know of each other.
LEMMA AloneAtEngine ==
  ASSUME PlaceInv, AloneInv, NEW r \in Requests, at[r] \in AtEngine,
         NEW q \in Requests \ {r}, at[q] \in AtEngine
  PROVE  ~Alone(q)
<1>1. Head(todo[r]) = "engine" /\ Head(todo[q]) = "engine"
  BY DEF PlaceInv
<1>2. r \in Contenders(q)
  BY <1>1 DEF Contenders, Origin, AtEngine, Building
<1>3. QED
  BY <1>2 DEF AloneInv, AtEngine, Building

\* What the steps that create the sample database do to it; the other steps
\* leave it alone.
LEMMA SeedSteps ==
  ASSUME ResTypeOK, PlaceInv, NEW r \in Requests, Resolve(r)
  PROVE  \/ InspectTables(r) \/ CreateTable(r) \/ CheckSeeded(r) \/ BeginSeed(r)
         \/ CommitSeed(r) \/ PublishEngine(r)
         \/ /\ UNCHANGED <<engine, tables, rows, missing, writer>>
            /\ at[r] \notin AtEngine
            /\ at'[r] \notin AtEngine \ {"inspect"}
<1> USE DEF AtEngine, Building
<1>0. at \in [Requests -> {"idle", "find", "failed", "dead"} \cup Building]
  BY DEF ResTypeOK
<1>1. CASE Found(r) \/ PublishStore(r) \/ ReturnGraph(r)
  BY <1>0, <1>1 DEF Found, PublishStore, ReturnGraph, Provide, file
<1>2. CASE MissingStore(r) \/ MissingEngine(r) \/ MissingGraph(r)
  BY <1>0, <1>2 DEF MissingStore, MissingEngine, MissingGraph, StartBuild, To, globals, file
<1>3. CASE GetClient(r) \/ OpenClient(r) \/ KeepClient(r) \/ PublishGraph(r)
  BY <1>0, <1>3 DEF GetClient, OpenClient, KeepClient, PublishGraph, Raise, To, globals, file
<1>4. QED
  BY <1>1, <1>2, <1>3 DEF Resolve

\* The sample rows come together, before the engine is there to be found.
LEMMA ResolveSeed ==
  ASSUME ResTypeOK, PlaceInv, AloneInv, SeedInv, NEW r \in Requests, Resolve(r)
  PROVE  SeedInv'
<1> USE DEF Building
<1>0. /\ at \in [Requests -> {"idle", "find", "failed", "dead"} \cup Building]
      /\ tables \subseteq TableSet /\ missing \in [Requests -> SUBSET TableSet]
      /\ writer \in Requests \cup {Nobody}
  BY DEF ResTypeOK
<1>1. /\ \A q \in Requests \ {r} : at'[q] = at[q] /\ todo'[q] = todo[q]
      /\ raced \subseteq raced'
      /\ at'[r] \in Building => todo' = todo
  BY Moves
<1>2. \A q \in Requests : at'[q] \in Building /\ Alone(q)' => Alone(q)
  BY <1>1 DEF Alone
<1>3. /\ rows \in {{}, TableSet}
      /\ engine => rows = TableSet
      /\ writer # Nobody => at[writer] = "seeding"
      /\ \A q \in Requests :
           /\ at[q] = "connect" => rows = TableSet
           /\ at[q] = "create" /\ Alone(q) => missing[q] \cap tables = {}
           /\ at[q] = "seed" /\ Alone(q) => rows = {}
  BY DEF SeedInv
<1>4. \A q \in Requests \ {r} : at[r] \in AtEngine /\ at[q] \in AtEngine => ~Alone(q)
  BY AloneAtEngine
<1> DEFINE Whole == rows' \in {{}, TableSet} /\ (engine' => rows' = TableSet)
           Write == writer' # Nobody => at'[writer'] = "seeding"
           Each  == \A q \in Requests :
                      /\ at'[q] = "connect" => rows' = TableSet
                      /\ at'[q] = "create" /\ Alone(q) => missing'[q] \cap tables' = {}
                      /\ at'[q] = "seed" /\ Alone(q) => rows' = {}
<1> SUFFICES Whole /\ Write /\ Each
  BY <1>2 DEF SeedInv
<1>5. CASE InspectTables(r)
  <2>1. /\ UNCHANGED <<engine, tables, rows, writer>>
        /\ at[r] = "inspect" /\ at'[r] = "create"
        /\ missing'[r] \cap tables = {} /\ \A q \in Requests \ {r} : missing'[q] = missing[q]
    BY <1>0, <1>5 DEF InspectTables, To, globals
  <2>2. QED
    <3>1. Whole
      BY <1>1, <1>3, <2>1
    <3>2. Write
      BY <1>0, <1>1, <1>3, <2>1
    <3>3. Each
      BY <1>1, <1>3, <2>1
    <3>4. QED
      BY <3>1, <3>2, <3>3
<1>6. CASE CreateTable(r)
  <2>1. /\ UNCHANGED <<engine, rows, writer>> /\ at[r] = "create"
        /\ \/ UNCHANGED <<tables, missing>> /\ at'[r] = "failed"
           \/ at' = at /\ \E x : /\ tables' = tables \cup {x}
                                 /\ missing' = [missing EXCEPT ![r] = @ \ {x}]
    BY <1>0, <1>6 DEF CreateTable, Raise, To, globals
  <2>2. CASE UNCHANGED <<tables, missing>> /\ at'[r] = "failed"
    <3>1. Whole
      BY <1>1, <1>3, <2>1, <2>2
    <3>2. Write
      BY <1>0, <1>1, <1>3, <2>1, <2>2
    <3>3. Each
      BY <1>1, <1>3, <2>1, <2>2
    <3>4. QED
      BY <3>1, <3>2, <3>3
  <2>3. CASE at' = at
    <3>1. CASE UNCHANGED <<tables, missing>>
      BY <1>1, <1>3, <2>1, <2>3, <3>1
    <3>2. ASSUME NEW x, tables' = tables \cup {x}, missing' = [missing EXCEPT ![r] = @ \ {x}]
          PROVE  Whole /\ Write /\ Each
      <4>1. \A q \in Requests : at[q] = "create" /\ Alone(q) => missing'[q] \cap tables' = {}
        <5>1. missing'[r] = missing[r] \ {x}
          BY <1>0, <3>2
        <5>2. at[r] \in AtEngine
          BY <2>1 DEF AtEngine
        <5>3. \A q \in Requests \ {r} : at[q] = "create" => ~Alone(q)
          BY <1>4, <5>2 DEF AtEngine
        <5>4. QED
          BY <1>3, <3>2, <5>1, <5>3
      <4>2. QED
        BY <1>1, <1>3, <2>1, <2>3, <4>1
    <3>3. QED
      BY <2>1, <2>3, <3>1, <3>2
  <2>4. QED
    BY <2>1, <2>2, <2>3
<1>7. CASE CheckSeeded(r)
  <2>1. /\ UNCHANGED <<engine, rows, writer, tables, missing>> /\ at[r] = "create"
        /\ at'[r] = IF "sales" \in rows THEN "connect" ELSE "seed"
    BY <1>0, <1>7 DEF CheckSeeded, To, globals, file
  <2>2. \/ at'[r] = "connect" /\ rows = TableSet
        \/ at'[r] = "seed" /\ rows = {}
    BY <1>3, <2>1, TablesAssumption
  <2>3. QED
    <3>1. Whole
      BY <1>1, <1>3, <2>1, <2>2
    <3>2. Write
      BY <1>0, <1>1, <1>3, <2>1, <2>2
    <3>3. Each
      BY <1>1, <1>3, <2>1, <2>2
    <3>4. QED
      BY <3>1, <3>2, <3>3
<1>8. CASE BeginSeed(r)
  <2>1. /\ UNCHANGED <<engine, rows, tables, missing>> /\ at[r] = "seed"
        /\ \/ writer' = r /\ at'[r] = "seeding"
           \/ writer' = writer /\ at'[r] = "failed"
    BY <1>0, <1>8 DEF BeginSeed, Raise, To, globals
  <2>2. QED
    <3>1. Whole
      BY <1>1, <1>3, <2>1
    <3>2. Write
      BY <1>0, <1>1, <1>3, <2>1
    <3>3. Each
      BY <1>1, <1>3, <2>1
    <3>4. QED
      BY <3>1, <3>2, <3>3
<1>9. CASE CommitSeed(r)
  <2>1. /\ UNCHANGED <<engine, tables, missing>> /\ at[r] = "seeding" /\ at'[r] = "connect"
        /\ rows' = TableSet /\ writer' = Nobody
    BY <1>0, <1>9 DEF CommitSeed, To, globals
  <2>2. \A q \in Requests \ {r} : at[q] = "seed" => ~Alone(q)
    BY <1>4, <2>1 DEF AtEngine
  <2>3. QED
    BY <1>1, <1>3, <2>1, <2>2
<1>10. CASE PublishEngine(r)
  <2>1. /\ UNCHANGED <<tables, rows, missing, writer>> /\ at[r] = "connect" /\ at'[r] = "find"
    BY <1>0, <1>10 DEF PublishEngine, Provide, file
  <2>2. QED
    <3>1. Whole
      BY <1>1, <1>3, <2>1
    <3>2. Write
      BY <1>0, <1>1, <1>3, <2>1
    <3>3. Each
      BY <1>1, <1>3, <2>1
    <3>4. QED
      BY <3>1, <3>2, <3>3
<1>11. CASE /\ UNCHANGED <<engine, tables, rows, missing, writer>>
            /\ at[r] \notin AtEngine
            /\ at'[r] \notin AtEngine \ {"inspect"}
  <2>1. Whole
    BY <1>1, <1>3, <1>11 DEF AtEngine
  <2>2. Write
    BY <1>0, <1>1, <1>3, <1>11 DEF AtEngine
  <2>3. Each
    BY <1>1, <1>3, <1>11 DEF AtEngine
  <2>4. QED
    BY <2>1, <2>2, <2>3
<1>12. QED
  BY <1>5, <1>6, <1>7, <1>8, <1>9, <1>10, <1>11, SeedSteps

\* What is in a sequence and not at its head is in its tail.
LEMMA InTail ==
  ASSUME NEW S, NEW s \in Seq(S), s # <<>>, NEW x, Head(s) # x,
         \E i \in DOMAIN s : s[i] = x
  PROVE  \E j \in DOMAIN Tail(s) : Tail(s)[j] = x
<1>1. PICK i \in DOMAIN s : s[i] = x
  OBVIOUS
<1>2. i \in 1..Len(s) /\ i # 1
  BY <1>1
<1>3. /\ Len(Tail(s)) = Len(s) - 1 /\ DOMAIN Tail(s) = 1..(Len(s) - 1)
      /\ \A j \in 1..(Len(s) - 1) : Tail(s)[j] = s[j + 1]
  OBVIOUS
<1>4. i - 1 \in 1..(Len(s) - 1) /\ Tail(s)[i - 1] = s[i]
  BY <1>2, <1>3
<1>5. QED
  BY <1>1, <1>3, <1>4

\* A request that resolves its dependencies has arrived, and the engine stays.
LEMMA Goes ==
  ASSUME ResTypeOK, NEW r \in Requests, Resolve(r)
  PROVE  /\ engine => engine'
         /\ at[r] \in {"find"} \cup Building
         /\ at'[r] \in {"find", "failed"} \cup Building
<1> USE DEF Building
<1>0. at \in [Requests -> {"idle", "find", "failed", "dead"} \cup Building]
  BY DEF ResTypeOK
<1>1. CASE Found(r) \/ PublishStore(r) \/ PublishEngine(r) \/ ReturnGraph(r)
  BY <1>0, <1>1 DEF Found, PublishStore, PublishEngine, ReturnGraph, Provide
<1>2. CASE MissingStore(r) \/ MissingEngine(r) \/ MissingGraph(r)
  BY <1>0, <1>2 DEF MissingStore, MissingEngine, MissingGraph, StartBuild, To, globals
<1>3. CASE GetClient(r) \/ OpenClient(r) \/ KeepClient(r) \/ PublishGraph(r)
  BY <1>0, <1>3 DEF GetClient, OpenClient, KeepClient, PublishGraph, Raise, To, globals
<1>4. CASE InspectTables(r) \/ CreateTable(r) \/ CheckSeeded(r) \/ BeginSeed(r) \/ CommitSeed(r)
  BY <1>0, <1>4 DEF InspectTables, CreateTable, CheckSeeded, BeginSeed, CommitSeed, Raise, To,
     globals
<1>5. QED
  BY <1>1, <1>2, <1>3, <1>4 DEF Resolve

\* A request that goes on without waiting for the engine has been given it.
LEMMA ResolveEngine ==
  ASSUME ResTypeOK, PlaceInv, EngineInv, NEW r \in Requests, Resolve(r)
  PROVE  EngineInv'
<1> USE DEF Building
<1> DEFINE Waits(q, t) == \/ \E i \in DOMAIN t : t[i] = "engine"
                          \/ \A i \in DOMAIN Needs[q] : Needs[q][i] # "engine"
<1>0. /\ at \in [Requests -> {"idle", "find", "failed", "dead"} \cup Building]
      /\ todo \in [Requests -> Seq(Resource)]
  BY DEF ResTypeOK
<1>1. /\ \A q \in Requests \ {r} : at'[q] = at[q] /\ todo'[q] = todo[q]
      /\ at'[r] \in Building => todo' = todo
  BY Moves
<1>2. \A q \in Requests :
        /\ at[q] = "idle" => todo[q] = Needs[q]
        /\ at[q] \in {"find"} \cup Building => engine \/ Waits(q, todo[q])
  BY DEF EngineInv
<1>3. /\ engine => engine'
      /\ at[r] \in {"find"} \cup Building
      /\ at'[r] \in {"find", "failed"} \cup Building
  BY Goes
<1>4. engine' \/ Waits(r, todo[r])
  BY <1>2, <1>3
<1>5. at'[r] \in {"find"} \cup Building => engine' \/ Waits(r, todo'[r])
  <2>1. CASE Found(r) \/ PublishStore(r) \/ PublishEngine(r) \/ ReturnGraph(r)
    <3>1. /\ todo[r] \in Seq(Resource) /\ todo[r] # <<>>
          /\ todo'[r] = Tail(todo[r])
      BY <1>0, <2>1 DEF Found, PublishStore, PublishEngine, ReturnGraph, Provide, PlaceInv
    <3>2. engine' \/ Head(todo[r]) # "engine"
      <4>1. CASE Found(r)
        BY <1>3, <4>1 DEF Found, Wants, Stores
      <4>2. CASE PublishStore(r)
        BY <4>2 DEF PublishStore, PlaceInv, AtFolder, Stores
      <4>3. CASE PublishEngine(r)
        BY <4>3 DEF PublishEngine
      <4>4. CASE ReturnGraph(r)
        BY <4>4 DEF ReturnGraph, PlaceInv, AtGraph
      <4>5. QED
        BY <2>1, <4>1, <4>2, <4>3, <4>4
    <3>3. CASE engine'
      BY <3>3
    <3>4. CASE ~engine'
      <4>1. Head(todo[r]) # "engine" /\ Waits(r, todo[r])
        BY <1>4, <3>2, <3>4
      <4>2. CASE \E i \in DOMAIN todo[r] : todo[r][i] = "engine"
        <5>1. \E j \in DOMAIN Tail(todo[r]) : Tail(todo[r])[j] = "engine"
          BY <3>1, <4>1, <4>2, InTail
        <5>2. QED
          BY <3>1, <5>1
      <4>3. QED
        BY <4>1, <4>2
    <3>5. QED
      BY <3>3, <3>4
  <2>2. CASE ~(Found(r) \/ PublishStore(r) \/ PublishEngine(r) \/ ReturnGraph(r))
    <3>1. todo' = todo
      BY <2>2 DEF Resolve, MissingStore, MissingEngine, MissingGraph, StartBuild, GetClient,
         OpenClient, KeepClient, InspectTables, CreateTable, CheckSeeded, BeginSeed, CommitSeed,
         PublishGraph, Raise, To
    <3>2. QED
      BY <1>4, <3>1
  <2>3. QED
    BY <2>1, <2>2
<1>6. \A q \in Requests :
        /\ at'[q] = "idle" => todo'[q] = Needs[q]
        /\ at'[q] \in {"find"} \cup Building => engine' \/ Waits(q, todo'[q])
  <2>1. at'[r] # "idle"
    BY <1>3
  <2>2. QED
    BY <1>1, <1>2, <1>3, <1>5, <2>1
<1>7. QED
  BY <1>6 DEF EngineInv

\* A request that is alone gets what it builds.
LEMMA ResolveFail ==
  ASSUME ResTypeOK, PlaceInv, AloneInv, FolderInv, SeedInv, FailInv,
         NEW r \in Requests, Resolve(r)
  PROVE  FailInv'
<1> USE DEF Building
<1>0. /\ at \in [Requests -> {"idle", "find", "failed", "dead"} \cup Building]
      /\ folder \in Requests \cup {Nobody} /\ writer \in Requests \cup {Nobody}
  BY DEF ResTypeOK
<1>1. /\ \A q \in Requests \ {r} : at'[q] = at[q] /\ todo'[q] = todo[q]
      /\ raced \subseteq raced'
  BY Moves
<1>2. ASSUME Raise(r) PROVE Alone(r)' = Alone(r)
  BY <1>2 DEF Raise, To, Alone, Origin
<1>3. at'[r] = "failed" => Raise(r)
  <2>1. CASE Found(r) \/ PublishStore(r) \/ PublishEngine(r) \/ ReturnGraph(r)
    BY <1>0, <2>1 DEF Found, PublishStore, PublishEngine, ReturnGraph, Provide
  <2>2. CASE MissingStore(r) \/ MissingEngine(r) \/ MissingGraph(r)
    BY <1>0, <2>2 DEF MissingStore, MissingEngine, MissingGraph, StartBuild, To
  <2>3. CASE GetClient(r) \/ OpenClient(r) \/ KeepClient(r) \/ PublishGraph(r)
    BY <1>0, <2>3 DEF GetClient, OpenClient, KeepClient, PublishGraph, To
  <2>4. CASE InspectTables(r) \/ CreateTable(r) \/ CheckSeeded(r) \/ BeginSeed(r) \/ CommitSeed(r)
    BY <1>0, <2>4 DEF InspectTables, CreateTable, CheckSeeded, BeginSeed, CommitSeed, To
  <2>5. QED
    BY <2>1, <2>2, <2>3, <2>4 DEF Resolve
<1>4. ASSUME at'[r] = "failed" PROVE ~Alone(r)
  <2>1. SUFFICES ASSUME Alone(r) PROVE FALSE
    OBVIOUS
  <2>2. Raise(r)
    BY <1>3, <1>4
  <2>3. CASE OpenClient(r)
    <3>1. at[r] = "open" /\ folder # Nobody
      BY <1>0, <1>4, <2>3 DEF OpenClient, To
    <3>2. folder \in Requests \ {r} /\ at[folder] = "keep"
      BY <1>0, <2>1, <3>1 DEF FolderInv
    <3>3. Head(todo[r]) \in Stores /\ Head(todo[folder]) \in Stores
      BY <3>1, <3>2 DEF PlaceInv, AtFolder
    <3>4. folder \in Contenders(r)
      BY <3>2, <3>3 DEF Contenders, Origin
    <3>5. QED
      BY <2>1, <3>1, <3>4 DEF AloneInv
  <2>4. CASE CreateTable(r)
    <3>1. at[r] = "create" /\ at' # at
      BY <1>4, <2>4 DEF CreateTable
    <3>2. missing[r] \cap tables # {}
      BY <2>4, <3>1 DEF CreateTable
    <3>3. QED
      BY <2>1, <3>1, <3>2 DEF SeedInv
  <2>5. CASE BeginSeed(r)
    <3>1. at[r] = "seed" /\ ~(writer = Nobody /\ rows = {})
      BY <1>0, <1>4, <2>5 DEF BeginSeed, To
    <3>2. writer \in Requests \ {r} /\ at[writer] = "seeding"
      BY <1>0, <2>1, <3>1 DEF SeedInv
    <3>3. QED
      BY <2>1, <3>1, <3>2, AloneAtEngine DEF AtEngine
  <2>6. CASE ~(OpenClient(r) \/ CreateTable(r) \/ BeginSeed(r))
    <3>1. at'[r] # "failed"
      <4>1. CASE Found(r) \/ PublishStore(r) \/ PublishEngine(r) \/ ReturnGraph(r)
        BY <1>0, <4>1 DEF Found, PublishStore, PublishEngine, ReturnGraph, Provide
      <4>2. CASE MissingStore(r) \/ MissingEngine(r) \/ MissingGraph(r)
        BY <1>0, <4>2 DEF MissingStore, MissingEngine, MissingGraph, StartBuild, To
      <4>3. CASE GetClient(r) \/ KeepClient(r) \/ PublishGraph(r)
        BY <1>0, <4>3 DEF GetClient, KeepClient, PublishGraph, To
      <4>4. CASE InspectTables(r) \/ CheckSeeded(r) \/ CommitSeed(r)
        BY <1>0, <4>4 DEF InspectTables, CheckSeeded, CommitSeed, To
      <4>5. QED
        BY <2>6, <4>1, <4>2, <4>3, <4>4 DEF Resolve
    <3>2. QED
      BY <1>4, <3>1
  <2>7. QED
    BY <2>3, <2>4, <2>5, <2>6
<1>5. \A q \in Requests \ {r} : at'[q] = "failed" => ~Alone(q)'
  BY <1>1 DEF FailInv, Alone, Origin
<1>6. at'[r] = "failed" => ~Alone(r)'
  BY <1>2, <1>3, <1>4
<1>7. QED
  BY <1>5, <1>6 DEF FailInv

\* As long as nobody races for it there is one graph store, with all the facts.
LEMMA ResolveGraph ==
  ASSUME ResTypeOK, PlaceInv, AloneInv, GraphInv, NEW r \in Requests, Resolve(r)
  PROVE  GraphInv'
<1> USE DEF Building
<1>0. /\ at \in [Requests -> {"idle", "find", "failed", "dead"} \cup Building]
      /\ graph \in Requests \cup {Nobody}
      /\ held \in [Requests -> Requests \cup {Nobody}]
  BY DEF ResTypeOK
<1>1. /\ \A q \in Requests \ {r} : at'[q] = at[q]
      /\ raced \subseteq raced'
  BY Moves
<1>2. SUFFICES ASSUME \A q \in Requests : <<q, "graph">> \notin raced'
               PROVE  /\ \A p, q \in Requests : p \in facts'[q] => q = graph'
                      /\ \A q \in Requests : held'[q] \in {Nobody, graph'}
                      /\ \A q \in Requests : at'[q] = "fill" => graph' = Nobody
  BY DEF GraphInv
<1>3. \A q \in Requests : <<q, "graph">> \notin raced
  BY <1>1, <1>2
<1>4. /\ \A p, q \in Requests : p \in facts[q] => q = graph
      /\ \A q \in Requests : held[q] \in {Nobody, graph}
      /\ \A q \in Requests : at[q] = "fill" => graph = Nobody
  BY <1>3 DEF GraphInv
<1>5. CASE PublishGraph(r)
  <2>1. /\ facts' = facts /\ held' = held /\ graph' = r
        /\ at[r] = "fill" /\ at'[r] = "return"
    BY <1>0, <1>5 DEF PublishGraph, To
  <2>2. graph = Nobody
    BY <1>4, <2>1
  <2>3. \A q \in Requests \ {r} : at[q] # "fill"
    <3>1. SUFFICES ASSUME NEW q \in Requests \ {r}, at[q] = "fill" PROVE FALSE
      OBVIOUS
    <3>2. Head(todo[r]) = "graph" /\ Head(todo[q]) = "graph"
      BY <2>1, <3>1 DEF PlaceInv, AtGraph
    <3>3. r \in Contenders(q)
      BY <2>1, <3>2 DEF Contenders, Origin
    <3>4. Alone(q)
      BY <1>3, <3>2 DEF Alone, Origin, Stores
    <3>5. QED
      BY <3>1, <3>3, <3>4 DEF AloneInv
  <2>4. \A p, q \in Requests : p \notin facts[q]
    BY <1>4, <2>2, NobodyAssumption
  <2>5. QED
    BY <1>1, <1>4, <2>1, <2>2, <2>3, <2>4
<1>6. CASE Found(r) \/ ReturnGraph(r)
  <2>1. /\ facts' = facts /\ graph' = graph /\ at'[r] = "find"
        /\ held' = held \/ held' = [held EXCEPT ![r] = graph]
    BY <1>0, <1>6 DEF Found, ReturnGraph, Provide
  <2>2. \A q \in Requests : held'[q] \in {Nobody, graph}
    BY <1>0, <1>4, <2>1
  <2>3. QED
    BY <1>1, <1>4, <2>1, <2>2
<1>7. CASE ~(PublishGraph(r) \/ Found(r) \/ ReturnGraph(r))
  <2>1. UNCHANGED <<facts, graph, held>>
    BY <1>7 DEF Resolve, MissingStore, MissingEngine, MissingGraph, GetClient, OpenClient,
       KeepClient, PublishStore, InspectTables, CreateTable, CheckSeeded, BeginSeed, CommitSeed,
       PublishEngine, Raise, globals
  <2>2. at'[r] = "fill" => graph = Nobody
    <3>1. CASE MissingGraph(r)
      BY <3>1 DEF MissingGraph
    <3>2. CASE PublishStore(r) \/ PublishEngine(r)
      BY <1>0, <3>2 DEF PublishStore, PublishEngine, Provide
    <3>3. CASE MissingStore(r) \/ MissingEngine(r)
      BY <1>0, <3>3 DEF MissingStore, MissingEngine, StartBuild, To
    <3>4. CASE GetClient(r) \/ OpenClient(r) \/ KeepClient(r)
      BY <1>0, <3>4 DEF GetClient, OpenClient, KeepClient, Raise, To
    <3>5. CASE InspectTables(r) \/ CreateTable(r) \/ CheckSeeded(r) \/ BeginSeed(r) \/ CommitSeed(r)
      BY <1>0, <3>5 DEF InspectTables, CreateTable, CheckSeeded, BeginSeed, CommitSeed, Raise, To
    <3>6. QED
      BY <1>7, <3>1, <3>2, <3>3, <3>4, <3>5 DEF Resolve
  <2>3. QED
    BY <1>1, <1>4, <2>1, <2>2
<1>8. QED
  BY <1>5, <1>6, <1>7

-----------------------------------------------------------------------------
(* The other steps.                                                         *)

\* A request that arrives disturbs nobody.
LEMMA AskInv ==
  ASSUME ResInv, NEW r \in Requests, Ask(r)
  PROVE  ResInv'
<1> USE DEF ResInv, Building
<1>1. /\ at \in [Requests -> {"idle", "find", "failed", "dead"} \cup Building]
      /\ at' = [at EXCEPT ![r] = "find"] /\ at[r] = "idle"
      /\ UNCHANGED <<todo, client, folder, stores, engine, tables, rows, missing, writer, graph,
                     held, facts, raced>>
  BY DEF ResTypeOK, Ask, To, globals, file
<1>2. at'[r] = "find" /\ \A q \in Requests \ {r} : at'[q] = at[q]
  BY <1>1
<1>3. ResTypeOK'
  BY <1>1 DEF ResTypeOK
<1>4. \A q \in Requests : Alone(q)' = Alone(q)
  BY <1>1 DEF Alone, Origin
<1>5. PlaceInv' /\ FailInv'
  BY <1>1, <1>2, <1>4 DEF PlaceInv, FailInv, AtFolder, AtEngine, AtGraph
<1>6. AloneInv'
  <2>1. SUFFICES ASSUME NEW q \in Requests, at'[q] \in Building, Alone(q)
                 PROVE  Contenders(q)' = {}
    BY <1>4 DEF AloneInv
  <2>2. Contenders(q) = {}
    BY <1>2, <2>1 DEF AloneInv
  <2>3. QED
    BY <1>1, <1>2, <2>2 DEF Contenders, Origin
<1>7. FolderInv'
  <2>1. folder \in Requests \cup {Nobody}
    BY DEF ResTypeOK
  <2>2. QED
    BY <1>1, <1>2, <1>4, <2>1 DEF FolderInv
<1>8. SeedInv'
  <2>1. writer \in Requests \cup {Nobody}
    BY DEF ResTypeOK
  <2>2. writer # Nobody => at'[writer] = "seeding"
    BY <1>1, <1>2, <2>1 DEF SeedInv
  <2>3. QED
    BY <1>1, <1>2, <1>4, <2>2 DEF SeedInv
<1>9. EngineInv'
  <2>1. todo[r] = Needs[r]
    BY <1>1 DEF EngineInv
  <2>2. \/ \E i \in DOMAIN todo[r] : todo[r][i] = "engine"
        \/ \A i \in DOMAIN Needs[r] : Needs[r][i] # "engine"
    BY <2>1
  <2>3. QED
    BY <1>1, <1>2, <2>2 DEF EngineInv
<1>10. GraphInv'
  BY <1>1, <1>2 DEF GraphInv
<1>11. QED
  BY <1>3, <1>5, <1>6, <1>7, <1>8, <1>9, <1>10

\* Facts go where the request was told the graph is.
LEMMA AddFactsInv ==
  ASSUME ResInv, NEW r \in Requests, AddFacts(r)
  PROVE  ResInv'
<1> USE DEF ResInv
<1>1. /\ facts \in [Requests -> SUBSET Requests]
      /\ facts' = [facts EXCEPT ![held[r]] = @ \cup {r}]
      /\ UNCHANGED <<todo, at, client, folder, stores, engine, tables, rows, missing, writer,
                     graph, held, raced>>
  BY DEF ResTypeOK, AddFacts, file
<1>2. ResTypeOK'
  BY <1>1 DEF ResTypeOK
<1>3. GraphInv'
  BY <1>1, NobodyAssumption DEF GraphInv
<1>4. (PlaceInv /\ FailInv /\ AloneInv /\ FolderInv /\ SeedInv /\ EngineInv)'
  <2>1. PlaceInv' /\ EngineInv'
    BY <1>1 DEF PlaceInv, EngineInv
  <2>2. \A q \in Requests : Alone(q)' = Alone(q) /\ Contenders(q)' = Contenders(q)
    BY <1>1 DEF Alone, Contenders, Origin
  <2>3. FailInv' /\ AloneInv'
    BY <1>1, <2>2 DEF FailInv, AloneInv
  <2>4. FolderInv' /\ SeedInv'
    BY <1>1, <2>2 DEF FolderInv, SeedInv
  <2>5. QED
    BY <2>1, <2>3, <2>4
<1>5. QED
  BY <1>2, <1>3, <1>4

\* A restart forgets what is in memory and keeps what is in files.
LEMMA RebootInv ==
  ASSUME ResInv, Reboot
  PROVE  ResInv'
<1> USE DEF ResInv, Building
<1>1. /\ at \in [Requests -> {"idle", "find", "failed", "dead"} \cup Building]
      /\ at' = [r \in Requests |-> IF at[r] \in {"find"} \cup Building THEN "dead" ELSE at[r]]
      /\ client' = Nobody /\ folder' = Nobody /\ stores' = [n \in Stores |-> Nobody]
      /\ engine' = FALSE /\ writer' = Nobody /\ graph' = Nobody
      /\ held' = [r \in Requests |-> Nobody] /\ facts' = [r \in Requests |-> {}]
      /\ raced' = {p \in raced : at[p[1]] = "failed" /\ p[2] # "graph"}
      /\ UNCHANGED <<todo, tables, rows, missing>>
  BY DEF ResTypeOK, Reboot
<1>2. \A q \in Requests : /\ at'[q] \in {"idle", "failed", "dead"}
                          /\ at'[q] \in {"idle", "failed"} => at'[q] = at[q]
  BY <1>1
<1>3. ResTypeOK'
  BY <1>1, <1>2 DEF ResTypeOK
<1>4. PlaceInv'
  BY <1>1, <1>2 DEF PlaceInv, AtFolder, AtEngine, AtGraph
<1>5. AloneInv' /\ FolderInv'
  BY <1>1, <1>2 DEF AloneInv, FolderInv
<1>6. SeedInv' /\ EngineInv'
  BY <1>1, <1>2 DEF SeedInv, EngineInv
<1>7. GraphInv'
  BY <1>1, <1>2 DEF GraphInv
<1>8. FailInv'
  <2>1. SUFFICES ASSUME NEW q \in Requests, at'[q] = "failed"
                 PROVE  <<q, Origin(Head(todo[q]))>> \in raced'
    BY <1>1 DEF FailInv, Alone, Origin
  <2>2. at[q] = "failed" /\ <<q, Origin(Head(todo[q]))>> \in raced
    BY <1>2, <2>1 DEF FailInv, Alone
  <2>3. Origin(Head(todo[q])) # "graph"
    BY <2>2 DEF PlaceInv, Origin
  <2>4. QED
    BY <1>1, <2>2, <2>3
<1>9. QED
  BY <1>3, <1>4, <1>5, <1>6, <1>7, <1>8

\* Every step keeps the invariant.
THEOREM ResStepInv == ResInv /\ ResStep => ResInv'
<1> SUFFICES ASSUME ResInv, ResStep PROVE ResInv'
  OBVIOUS
<1>1. ASSUME NEW r \in Requests, Resolve(r) PROVE ResInv'
  BY <1>1, ResolveType, ResolvePlace, ResolveAlone, ResolveFolder, ResolveSeed, ResolveEngine,
     ResolveGraph, ResolveFail DEF ResInv
<1>2. ASSUME UNCHANGED resVars PROVE ResInv'
  <2>1. \A q \in Requests : Alone(q)' = Alone(q) /\ Contenders(q)' = Contenders(q)
    BY <1>2 DEF resVars, Alone, Contenders, Origin
  <2>2. (ResTypeOK /\ PlaceInv /\ EngineInv /\ GraphInv)'
    BY <1>2 DEF resVars, ResInv, ResTypeOK, PlaceInv, EngineInv, GraphInv
  <2>3. FailInv' /\ AloneInv'
    BY <1>2, <2>1 DEF resVars, ResInv, FailInv, AloneInv
  <2>4. FolderInv' /\ SeedInv'
    BY <1>2, <2>1 DEF resVars, ResInv, FolderInv, SeedInv
  <2>5. QED
    BY <2>2, <2>3, <2>4 DEF ResInv
<1>3. QED
  BY <1>1, <1>2, AskInv, AddFactsInv, RebootInv DEF ResStep

\* What the invariant says of those who fail and of the graph: only races hurt.
THEOREM ResImplies == ResInv => OnlyRacesHurt
BY DEF ResInv, FailInv, GraphInv, Alone, OnlyRacesHurt

-----------------------------------------------------------------------------
(* The inductive invariant of the memories and of the SQL agent.            *)

\* A vector is there from the index on and a row from the commit on; a run was
\* sent when some of today's rows were listed.
MemInv ==
  /\ \A m \in vectors : adding[m] \in {"indexed", "stored", "failed"}
  /\ \A m \in Memories : /\ adding[m] = "stored" => m \in items
                         /\ adding[m] = "indexed" => m \in vectors
  /\ items \subseteq vectors
  /\ \A r \in Runs : known[r] \subseteq Listed(scope[r])

\* A run that has not recalled knows nothing.
Recalling == {"recalled", "routed", "finished", "done"}

RunOf(r) ==
  /\ at[r] = "idle" => pc[r] = "new"
  /\ pc[r] = "new" => recalled[r] = {} /\ outcome[r] = "none"
  /\ outcome[r] = "declined" => recalled[r] = {} /\ pc[r] # "new"
  /\ recalled[r] # {} \/ outcome[r] = "declined" \/ pc[r] \in Recalling => RecallFollows(r)

RunInv == \A r \in Runs : RunOf(r)

\* Each attempt that failed is remembered with its error.
Tried(r) ==
  shown[r] = {} =>
    /\ {p[1] : p \in refused[r]} = 1..attempts[r]
    /\ attempts[r] > 0 => <<attempts[r], error[r]>> \in refused[r]

SqlInv ==
  \A r \in Runs :
    /\ \A d \in shown[r] : Rejection(d) = NoError /\ rowsShown[r] = Fetched(d, AllowedTables)
    /\ Tried(r)

\* A run that is over was given to an agent.
NamedInv == \A r \in Runs : pc[r] = "finished" => agent[r] \in Names

IInv == TypeOK /\ ResInv /\ MemInv /\ RunInv /\ SqlInv /\ NamedInv

-----------------------------------------------------------------------------
(* The memories.                                                            *)

MemStep ==
  \/ \E m \in Memories : Flush(m) \/ Index(m) \/ CommitItem(m) \/ LoseItem(m)
  \/ \E r \in Runs : Send(r) \/ Recall(r)
  \/ RebootMemory
  \/ UNCHANGED memVars

\* The types of the memories.
LEMMA MemType ==
  ASSUME MemTypeOK, MemStep
  PROVE  MemTypeOK'
<1> USE DEF MemTypeOK, Adding
<1>1. ASSUME NEW m \in Memories, Flush(m) \/ CommitItem(m) \/ LoseItem(m)
      PROVE  MemTypeOK'
  BY <1>1 DEF Flush, CommitItem, LoseItem
<1>2. ASSUME NEW m \in Memories, Index(m)
      PROVE  MemTypeOK'
  BY <1>2 DEF Index
<1>3. ASSUME NEW r \in Runs, Send(r)
      PROVE  MemTypeOK'
  BY <1>3 DEF Send, Listed
<1>4. ASSUME NEW r \in Runs, Recall(r)
      PROVE  MemTypeOK'
  <2>1. PICK S \in Closest(scope[r]) : recalled' = [recalled EXCEPT ![r] = S]
    BY <1>4 DEF Recall
  <2>2. S \in SUBSET Memories
    BY DEF Closest
  <2>3. QED
    BY <1>4, <2>1, <2>2 DEF Recall
<1>5. ASSUME RebootMemory
      PROVE  MemTypeOK'
  <2>1. adding' \in [Memories -> {"idle", "stored", "failed"} \cup Adding]
    BY <1>5 DEF RebootMemory
  <2>2. QED
    BY <1>5, <2>1 DEF RebootMemory
<1>6. ASSUME UNCHANGED memVars
      PROVE  MemTypeOK'
  BY <1>6 DEF memVars
<1>7. QED
  BY <1>1, <1>2, <1>3, <1>4, <1>5, <1>6 DEF MemStep

\* How a step of the memories moves one: rows are not lost, and who has neither
\* a row nor a vector on its way gets neither.
LEMMA MemMoves ==
  ASSUME MemTypeOK, MemStep
  PROVE  /\ scope' = scope
         /\ items \subseteq items' /\ vectors \subseteq vectors'
         /\ \A m \in Memories :
              /\ adding[m] \in {"indexed", "failed"} => adding'[m] \in {"indexed", "failed"}
                                                        \/ m \in items'
<1> USE DEF MemTypeOK, Adding
<1>1. ASSUME NEW m \in Memories, Flush(m) \/ Index(m) \/ CommitItem(m) \/ LoseItem(m)
      PROVE  /\ UNCHANGED scope /\ items \subseteq items' /\ vectors \subseteq vectors'
             /\ \A x \in Memories \ {m} : adding'[x] = adding[x]
             /\ adding[m] \in {"indexed", "failed"} => adding'[m] \in {"indexed", "failed"}
                                                       \/ m \in items'
  BY <1>1 DEF Flush, Index, CommitItem, LoseItem
<1>2. ASSUME NEW r \in Runs, Send(r) \/ Recall(r)
      PROVE  UNCHANGED <<scope, items, vectors, adding>>
  BY <1>2 DEF Send, Recall
<1>3. ASSUME RebootMemory
      PROVE  /\ UNCHANGED <<scope, items, vectors>>
             /\ \A m \in Memories : adding'[m] \in {"failed", adding[m]}
  BY <1>3 DEF RebootMemory
<1>4. ASSUME UNCHANGED memVars
      PROVE  UNCHANGED <<scope, items, vectors, adding>>
  BY <1>4 DEF memVars
<1>5. QED
  BY <1>1, <1>2, <1>3, <1>4 DEF MemStep

\* Vectors come before rows.
LEMMA MemKept ==
  ASSUME MemTypeOK, MemInv, MemStep
  PROVE  MemInv'
<1> USE DEF MemTypeOK, Adding
<1>1. /\ \A m \in vectors : adding[m] \in {"indexed", "stored", "failed"}
      /\ \A m \in Memories : /\ adding[m] = "stored" => m \in items
                             /\ adding[m] = "indexed" => m \in vectors
      /\ items \subseteq vectors
  BY DEF MemInv
<1>2. /\ \A m \in vectors' : adding'[m] \in {"indexed", "stored", "failed"}
      /\ \A m \in Memories : /\ adding'[m] = "stored" => m \in items'
                             /\ adding'[m] = "indexed" => m \in vectors'
      /\ items' \subseteq vectors'
  <2>1. ASSUME NEW m \in Memories, Flush(m)
        PROVE  <1>2!:
    BY <1>1, <2>1 DEF Flush
  <2>2. ASSUME NEW m \in Memories, Index(m)
        PROVE  <1>2!:
    BY <1>1, <2>2 DEF Index
  <2>3. ASSUME NEW m \in Memories, CommitItem(m)
        PROVE  <1>2!:
    BY <1>1, <2>3 DEF CommitItem
  <2>4. ASSUME NEW m \in Memories, LoseItem(m)
        PROVE  <1>2!:
    BY <1>1, <2>4 DEF LoseItem
  <2>5. ASSUME NEW r \in Runs, Send(r) \/ Recall(r)
        PROVE  <1>2!:
    BY <1>1, <2>5 DEF Send, Recall
  <2>6. ASSUME RebootMemory
        PROVE  <1>2!:
    BY <1>1, <2>6 DEF RebootMemory
  <2>7. ASSUME UNCHANGED memVars
        PROVE  <1>2!:
    BY <1>1, <2>7 DEF memVars
  <2>8. QED
    BY <2>1, <2>2, <2>3, <2>4, <2>5, <2>6, <2>7 DEF MemStep
<1>3. \A r \in Runs : known'[r] \subseteq Listed(scope[r]) 
  <2>1. \A r \in Runs : known[r] \subseteq Listed(scope[r])
    BY DEF MemInv
  <2>2. ASSUME NEW r \in Runs, Send(r)
        PROVE  <1>3!:
    BY <2>1, <2>2 DEF Send
  <2>3. CASE \E r \in Runs : Recall(r)
    BY <2>1, <2>3 DEF Recall
  <2>4. CASE RebootMemory \/ UNCHANGED memVars
    BY <2>1, <2>4 DEF RebootMemory, memVars
  <2>5. CASE \E m \in Memories : Flush(m) \/ Index(m) \/ CommitItem(m) \/ LoseItem(m)
    BY <2>1, <2>5 DEF Flush, Index, CommitItem, LoseItem
  <2>6. QED
    BY <2>2, <2>3, <2>4, <2>5 DEF MemStep
<1>4. scope' = scope /\ items \subseteq items'
  BY MemMoves
<1>5. \A r \in Runs : known'[r] \subseteq {m \in items' : scope'[m] = scope'[r]}
  BY <1>3, <1>4 DEF Listed
<1>6. QED
  BY <1>2, <1>5 DEF MemInv, Listed

\* What a run recalled stays right, whatever becomes of the memories.
LEMMA FollowsKept ==
  ASSUME MemTypeOK, MemStep, NEW r \in Runs, RecallFollows(r),
         recalled'[r] = recalled[r], known'[r] = known[r]
  PROVE  RecallFollows(r)'
<1>1. /\ scope' = scope /\ items \subseteq items'
      /\ \A m \in Memories :
           adding[m] \in {"indexed", "failed"} => adding'[m] \in {"indexed", "failed"}
                                                  \/ m \in items'
  BY MemMoves
<1>2. /\ \A m \in recalled[r] : /\ scope[m] = scope[r]
                                /\ m \in items \/ adding[m] \in {"indexed", "failed"}
      /\ known[r] \subseteq recalled[r] \/ Cardinality(recalled[r]) = RecallLimit
  BY DEF RecallFollows
<1>3. recalled[r] \subseteq Memories
  BY DEF MemTypeOK
<1>4. \A m \in recalled'[r] : /\ scope'[m] = scope'[r]
                              /\ m \in items' \/ adding'[m] \in {"indexed", "failed"}
  BY <1>1, <1>2, <1>3
<1>5. known'[r] \subseteq recalled'[r] \/ Cardinality(recalled'[r]) = RecallLimit
  BY <1>2
<1>6. QED
  BY <1>4, <1>5 DEF RecallFollows

\* Recall takes all the vectors of the workspace or RecallLimit of them, and
\* what was listed has a vector.
LEMMA RecallRight ==
  ASSUME MemTypeOK, MemInv, NEW r \in Runs, Recall(r)
  PROVE  RecallFollows(r)'
<1> DEFINE near == {m \in vectors : scope[m] = scope[r]}
           n == IF Cardinality(near) < RecallLimit THEN Cardinality(near) ELSE RecallLimit
<1>1. PICK S \in Closest(scope[r]) : recalled' = [recalled EXCEPT ![r] = S]
  BY DEF Recall
<1>2. S \in SUBSET near /\ Cardinality(S) = n
  BY <1>1 DEF Closest
<1>3. recalled'[r] = S /\ UNCHANGED <<scope, adding, items, vectors, known>>
  BY <1>1 DEF Recall, MemTypeOK
<1>4. IsFiniteSet(near)
  BY MemoryAssumption, FS_Subset DEF MemTypeOK
<1>5. known[r] \subseteq near
  BY DEF MemInv, Listed
<1>6. known[r] \subseteq S \/ Cardinality(S) = RecallLimit
  <2>1. CASE Cardinality(near) < RecallLimit
    <3>1. Cardinality(S) = Cardinality(near)
      BY <1>2, <2>1
    <3>2. S = near
      BY <1>2, <1>4, <3>1, FS_Subset
    <3>3. QED
      BY <1>5, <3>2
  <2>2. CASE ~(Cardinality(near) < RecallLimit)
    BY <1>2, <2>2
  <2>3. QED
    BY <2>1, <2>2
<1>7. \A m \in S : scope[m] = scope[r] /\ (m \in items \/ adding[m] \in {"indexed", "failed"})
  BY <1>2 DEF MemInv, MemTypeOK
<1>8. QED
  BY <1>3, <1>6, <1>7 DEF RecallFollows

-----------------------------------------------------------------------------
(* The SQL agent.                                                           *)

\* The least of three numbers is one of them, and no larger than the first.
LEMMA LeastOfThree ==
  ASSUME NEW a \in Nat, NEW b \in Nat, NEW c \in Nat
  PROVE  Least({a, b, c}) \in 0..a
<1>1. \E n \in {a, b, c} : \A k \in {a, b, c} : n <= k
  <2>1. CASE a <= b /\ a <= c
    BY <2>1
  <2>2. CASE b <= a /\ b <= c
    BY <2>2
  <2>3. CASE c <= a /\ c <= b
    BY <2>3
  <2>4. QED
    BY <2>1, <2>2, <2>3
<1>2. Least({a, b, c}) \in {a, b, c} /\ Least({a, b, c}) <= a
  BY <1>1 DEF Least
<1>3. QED
  BY <1>2

\* A draft has no more rows shown than the cap.
LEMMA FetchedType ==
  ASSUME NEW d \in Drafts, NEW there
  PROVE  Fetched(d, there) \in 0..MaxRows
<1>1. Limited(d) \in Nat
  BY SqlAssumption DEF Limited
<1>2. (IF SampleTables(d) \subseteq there THEN d.rows ELSE 0) \in Nat
  BY SqlAssumption
<1>3. QED
  BY <1>1, <1>2, SqlAssumption, LeastOfThree DEF Fetched

\* What the guard says is an error or none.
LEMMA RejectionType ==
  ASSUME NEW d \in Drafts
  PROVE  Rejection(d) \in Errors \cup {NoError}
BY DEF Rejection, Errors

\* What an attempt does.
LEMMA AttemptCases ==
  ASSUME NEW r \in Asking, NEW exist, NEW there, Attempt(r, exist, there)
  PROVE  /\ attempts[r] < MaxAttempts /\ shown[r] = {}
         /\ attempts' = [attempts EXCEPT ![r] = attempts[r] + 1]
         /\ \E d \in Drafts, wrong \in Errors :
              \/ /\ Rejection(d) = NoError
                 /\ shown' = [shown EXCEPT ![r] = {d}]
                 /\ rowsShown' = [rowsShown EXCEPT ![r] = Fetched(d, there)]
                 /\ UNCHANGED <<error, refused>>
              \/ /\ error' = [error EXCEPT ![r] = wrong]
                 /\ refused' = [refused EXCEPT ![r] = refused[r] \cup {<<attempts'[r], wrong>>}]
                 /\ UNCHANGED <<shown, rowsShown>>
<1>1. PICK d \in Drafts :
        LET wrong == IF Rejection(d) # NoError THEN Rejection(d)
                     ELSE IF d.runs /\ SampleTables(d) \subseteq exist THEN NoError ELSE "failed"
        IN IF wrong = NoError
             THEN /\ shown' = [shown EXCEPT ![r] = {d}]
                  /\ rowsShown' = [rowsShown EXCEPT ![r] = Fetched(d, there)]
                  /\ UNCHANGED <<error, refused>>
             ELSE /\ error' = [error EXCEPT ![r] = wrong]
                  /\ refused' = [refused EXCEPT ![r] = @ \cup {<<attempts'[r], wrong>>}]
                  /\ UNCHANGED <<shown, rowsShown>>
  BY DEF Attempt
<1> DEFINE wrong == IF Rejection(d) # NoError THEN Rejection(d)
                    ELSE IF d.runs /\ SampleTables(d) \subseteq exist THEN NoError ELSE "failed"
<1>2. wrong \in Errors \cup {NoError} /\ "failed" \in Errors
  BY RejectionType DEF Errors
<1>3. CASE wrong = NoError
  <2>1. Rejection(d) = NoError
    BY <1>3
  <2>2. QED
    BY <1>1, <1>2, <1>3, <2>1 DEF Attempt
<1>4. CASE wrong # NoError
  <2>1. wrong \in Errors
    BY <1>2, <1>4
  <2>2. /\ error' = [error EXCEPT ![r] = wrong]
        /\ refused' = [refused EXCEPT ![r] = refused[r] \cup {<<attempts'[r], wrong>>}]
        /\ UNCHANGED <<shown, rowsShown>>
    BY <1>1, <1>4
  <2>3. QED
    BY <2>1, <2>2 DEF Attempt
<1>5. QED
  BY <1>3, <1>4

\* The types of the agent.
LEMMA SqlType ==
  ASSUME SqlTypeOK, NEW r \in Asking, NEW exist, NEW there, Attempt(r, exist, there)
  PROVE  SqlTypeOK'
<1> USE DEF SqlTypeOK
<1>1. /\ attempts[r] < MaxAttempts
      /\ attempts' = [attempts EXCEPT ![r] = attempts[r] + 1]
  BY AttemptCases
<1>2. attempts[r] + 1 \in 1..MaxAttempts
  BY <1>1, SqlAssumption
<1>3. attempts' \in [Asking -> 0..MaxAttempts] /\ attempts'[r] = attempts[r] + 1
  BY <1>1, <1>2
<1>4. PICK d \in Drafts, wrong \in Errors :
        \/ /\ Rejection(d) = NoError
           /\ shown' = [shown EXCEPT ![r] = {d}]
           /\ rowsShown' = [rowsShown EXCEPT ![r] = Fetched(d, there)]
           /\ UNCHANGED <<error, refused>>
        \/ /\ error' = [error EXCEPT ![r] = wrong]
           /\ refused' = [refused EXCEPT ![r] = refused[r] \cup {<<attempts'[r], wrong>>}]
           /\ UNCHANGED <<shown, rowsShown>>
  BY AttemptCases
<1>5. shown' \in [Asking -> {{}} \cup {{x} : x \in Drafts}]
  BY <1>4
<1>6. rowsShown' \in [Asking -> 0..MaxRows]
  BY <1>4, FetchedType
<1>7. error' \in [Asking -> Errors \cup {NoError}]
  BY <1>4
<1>8. refused' \in [Asking -> SUBSET ((1..MaxAttempts) \X Errors)]
  <2>1. refused[r] \cup {<<attempts'[r], wrong>>} \in SUBSET ((1..MaxAttempts) \X Errors)
    BY <1>2, <1>3
  <2>2. QED
    BY <1>4, <2>1
<1>9. QED
  BY <1>3, <1>5, <1>6, <1>7, <1>8

\* The first components of the pairs of a set and one more.
LEMMA FirstsOf ==
  \A S, a, b : {p[1] : p \in S \cup {<<a, b>>}} = {p[1] : p \in S} \cup {a}
<1>1. TAKE S, a, b
<1>2. <<a, b>>[1] = a
  OBVIOUS
<1> DEFINE x == <<a, b>>
<1> HIDE DEF x
<1>3. ASSUME NEW y \in {p[1] : p \in S \cup {x}}
      PROVE  y \in {p[1] : p \in S} \cup {x[1]}
  <2>1. PICK p \in S \cup {x} : y = p[1]
    OBVIOUS
  <2>2. QED
    BY <2>1
<1>4. ASSUME NEW y \in {p[1] : p \in S} \cup {x[1]}
      PROVE  y \in {p[1] : p \in S \cup {x}}
  BY <1>4
<1>5. {p[1] : p \in S \cup {x}} = {p[1] : p \in S} \cup {x[1]}
  BY <1>3, <1>4
<1>6. QED
  BY <1>2, <1>5 DEF x

\* An attempt over a sample database that is complete leaves a right answer, or
\* one more error.
LEMMA SqlKept ==
  ASSUME SqlTypeOK, SqlInv, Asking = Runs, NEW r \in Runs, NEW exist,
         Attempt(r, exist, AllowedTables)
  PROVE  SqlInv'
<1>0. /\ attempts \in [Runs -> 0..MaxAttempts]
      /\ error \in [Runs -> Errors \cup {NoError}]
      /\ shown \in [Runs -> {{}} \cup {{d} : d \in Drafts}]
      /\ rowsShown \in [Runs -> 0..MaxRows]
      /\ refused \in [Runs -> SUBSET ((1..MaxAttempts) \X Errors)]
  BY DEF SqlTypeOK
<1>1. /\ attempts[r] < MaxAttempts /\ shown[r] = {}
      /\ attempts' = [attempts EXCEPT ![r] = attempts[r] + 1]
  BY AttemptCases
<1>2. PICK d \in Drafts, wrong \in Errors :
        \/ /\ Rejection(d) = NoError
           /\ shown' = [shown EXCEPT ![r] = {d}]
           /\ rowsShown' = [rowsShown EXCEPT ![r] = Fetched(d, AllowedTables)]
           /\ UNCHANGED <<error, refused>>
        \/ /\ error' = [error EXCEPT ![r] = wrong]
           /\ refused' = [refused EXCEPT ![r] = refused[r] \cup {<<attempts'[r], wrong>>}]
           /\ UNCHANGED <<shown, rowsShown>>
  BY AttemptCases
<1>3. \A q \in Runs \ {r} : /\ attempts'[q] = attempts[q] /\ shown'[q] = shown[q]
                            /\ rowsShown'[q] = rowsShown[q]
                            /\ error'[q] = error[q] /\ refused'[q] = refused[q]
  BY <1>0, <1>1, <1>2
<1>4. attempts[r] \in Nat /\ attempts'[r] = attempts[r] + 1
  BY <1>0, <1>1
<1>5. \A x \in shown'[r] : Rejection(x) = NoError /\ rowsShown'[r] = Fetched(x, AllowedTables)
  <2>1. CASE shown' = [shown EXCEPT ![r] = {d}] /\ Rejection(d) = NoError
             /\ rowsShown' = [rowsShown EXCEPT ![r] = Fetched(d, AllowedTables)]
    BY <1>0, <2>1
  <2>2. CASE UNCHANGED <<shown, rowsShown>>
    BY <1>1, <2>2
  <2>3. QED
    BY <1>2, <2>1, <2>2
<1>6. Tried(r)'
  <2>1. CASE shown' = [shown EXCEPT ![r] = {d}]
    <3>1. shown'[r] # {}
      BY <1>0, <2>1
    <3>2. QED
      BY <3>1 DEF Tried
  <2>2. CASE /\ error' = [error EXCEPT ![r] = wrong]
             /\ refused' = [refused EXCEPT ![r] = refused[r] \cup {<<attempts'[r], wrong>>}]
    <3>1. error'[r] = wrong /\ refused'[r] = refused[r] \cup {<<attempts[r] + 1, wrong>>}
      BY <1>0, <1>4, <2>2
    <3>2. {p[1] : p \in refused[r]} = 1..attempts[r]
      BY <1>1 DEF SqlInv, Tried
    <3>3. {p[1] : p \in refused'[r]} = {p[1] : p \in refused[r]} \cup {attempts[r] + 1}
      <4>1. {p[1] : p \in refused[r] \cup {<<attempts[r] + 1, wrong>>}}
              = {p[1] : p \in refused[r]} \cup {attempts[r] + 1}
        BY FirstsOf, Zenon
      <4>2. QED
        BY <3>1, <4>1, Zenon
    <3>4. 1..attempts[r] \cup {attempts[r] + 1} = 1..(attempts[r] + 1)
      BY <1>4
    <3>5. {p[1] : p \in refused'[r]} = 1..attempts'[r]
      BY <1>4, <3>2, <3>3, <3>4
    <3>6. <<attempts'[r], error'[r]>> \in refused'[r]
      BY <1>4, <3>1
    <3>7. QED
      BY <3>5, <3>6 DEF Tried
  <2>3. QED
    BY <1>2, <2>1, <2>2
<1>7. \A q \in Runs \ {r} :
        /\ \A x \in shown'[q] : Rejection(x) = NoError /\ rowsShown'[q] = Fetched(x, AllowedTables)
        /\ Tried(q)'
  <2>1. TAKE q \in Runs \ {r}
  <2>2. Tried(q) /\ \A x \in shown[q] : Rejection(x) = NoError
                                        /\ rowsShown[q] = Fetched(x, AllowedTables)
    BY DEF SqlInv
  <2>3. QED
    BY <1>3, <2>2 DEF Tried
<1>8. QED
  BY <1>5, <1>6, <1>7 DEF SqlInv

-----------------------------------------------------------------------------
(* The steps of Agents.                                                     *)

\* A request that has its dependencies, a run at least, has a complete sample
\* database: it has been given the engine.
LEMMA Complete ==
  ASSUME ResInv, NEW r \in Runs, Resolved(r)
  PROVE  rows = AllowedTables
<1>1. at[r] = "find" /\ todo[r] = <<>> /\ r \in Requests
  BY AgentsAssumption DEF Resolved
<1>2. engine
  BY <1>1, AgentsAssumption DEF ResInv, EngineInv
<1>3. QED
  BY <1>2, AgentsAssumption DEF ResInv, SeedInv

\* Every step of the system is a step of each of its parts.
LEMMA StepParts ==
  ASSUME ResInv, [Next]_vars
  PROVE  /\ ResStep /\ MemStep
         /\ \/ UNCHANGED sqlVars
            \/ \E r \in Runs : Attempt(r, tables, AllowedTables)
<1>0. Requests = Runs \cup Memories \cup Builds
  BY AgentsAssumption
<1>1. ASSUME NEW r \in Requests, Arrive(r)
      PROVE  ResStep /\ MemStep /\ UNCHANGED sqlVars
  BY <1>1 DEF Arrive, ResStep, MemStep
<1>2. ASSUME NEW r \in Requests, Depend(r)
      PROVE  ResStep /\ MemStep /\ UNCHANGED sqlVars
  BY <1>2 DEF Depend, ResStep, MemStep
<1>3. ASSUME NEW r \in Runs, Refuse(r) \/ Remember(r) \/ Route(r) \/ Research(r) \/ Traverse(r)
                             \/ Summarise(r) \/ Record(r) \/ FailRun(r)
      PROVE  ResStep /\ MemStep /\ UNCHANGED sqlVars
  BY <1>3 DEF Refuse, Remember, Route, Research, Traverse, Summarise, Record, FailRun, Conclude,
     ResStep, MemStep
<1>4. ASSUME NEW r \in Runs, Draft(r)
      PROVE  ResStep /\ MemStep /\ Attempt(r, tables, AllowedTables)
  <2>1. rows = AllowedTables
    BY <1>4, Complete DEF Draft, Running
  <2>2. QED
    BY <1>4, <2>1 DEF Draft, ResStep, MemStep
<1>5. ASSUME NEW m \in Memories, AddMemory(m)
      PROVE  ResStep /\ MemStep /\ UNCHANGED sqlVars
  BY <1>5 DEF AddMemory, ResStep, MemStep
<1>6. ASSUME NEW b \in Builds, BuildGraph(b)
      PROVE  ResStep /\ MemStep /\ UNCHANGED sqlVars
  BY <1>0, <1>6 DEF BuildGraph, ResStep, MemStep
<1>7. ASSUME Restart
      PROVE  ResStep /\ MemStep /\ UNCHANGED sqlVars
  BY <1>7 DEF Restart, ResStep, MemStep
<1>8. ASSUME UNCHANGED vars
      PROVE  ResStep /\ MemStep /\ UNCHANGED sqlVars
  BY <1>8 DEF vars, ResStep, MemStep
<1>9. QED
  BY <1>1, <1>2, <1>3, <1>4, <1>5, <1>6, <1>7, <1>8 DEF Next

\* A run that recalls nothing in this step.
LEMMA RunGoes ==
  ASSUME MemTypeOK, MemStep, NEW r \in Runs, RunOf(r),
         recalled'[r] = recalled[r], known'[r] = known[r],
         at'[r] = "idle" => at[r] = "idle" /\ pc'[r] = pc[r],
         pc'[r] = "new" => pc[r] = "new" /\ outcome'[r] = outcome[r],
         pc'[r] \in Recalling => pc[r] \in Recalling,
         outcome'[r] = "declined" =>
            \/ outcome[r] = "declined" /\ pc'[r] # "new"
            \/ recalled[r] = {} /\ pc'[r] = "finished"
  PROVE  RunOf(r)'
<1>1. /\ at'[r] = "idle" => pc'[r] = "new"
      /\ pc'[r] = "new" => recalled'[r] = {} /\ outcome'[r] = "none"
      /\ outcome'[r] = "declined" => recalled'[r] = {} /\ pc'[r] # "new"
  BY DEF RunOf
<1>2. ASSUME recalled'[r] # {} \/ outcome'[r] = "declined" \/ pc'[r] \in Recalling
      PROVE  RecallFollows(r)'
  <2>1. RecallFollows(r)
    BY <1>2 DEF RunOf, Recalling
  <2>2. QED
    BY <2>1, FollowsKept
<1>3. QED
  BY <1>1, <1>2 DEF RunOf, Recalling

\* The runs know what they should after every step.
LEMMA RunKept ==
  ASSUME TypeOK, ResInv, MemInv, RunInv, [Next]_vars
  PROVE  RunInv'
<1>0. /\ MemTypeOK /\ MemStep
      /\ pc \in [Runs -> {"new", "recalled", "routed", "finished", "done", "refused", "failed"}]
      /\ outcome \in [Runs -> Answered \cup {"none"}]
      /\ at \in [Requests -> {"idle", "find", "failed", "dead"} \cup Building]
      /\ recalled \in [Runs -> SUBSET Memories] /\ known \in [Runs -> SUBSET Memories]
      /\ Runs \subseteq Requests
      /\ \A r \in Runs : RunOf(r)
  BY StepParts, AgentsAssumption DEF TypeOK, MemTypeOK, ResTypeOK, RunInv
<1>1. ASSUME NEW r \in Requests, Arrive(r)
      PROVE  RunInv'
  <2>1. /\ at[r] = "idle" /\ at'[r] = "find" /\ \A q \in Requests \ {r} : at'[q] = at[q]
        /\ pc' = pc /\ outcome' = outcome /\ recalled' = recalled
        /\ \A q \in Runs \ {r} : known'[q] = known[q]
    BY <1>0, <1>1 DEF Arrive, Ask, To, Send, memVars, runVars
  <2>2. ASSUME NEW q \in Runs \ {r}
        PROVE  RunOf(q)'
    BY <1>0, <2>1, RunGoes DEF RunOf
  <2>3. r \in Runs => RunOf(r)'
    BY <1>0, <2>1 DEF RunOf, Recalling
  <2>4. QED
    BY <2>2, <2>3 DEF RunInv
<1>2. ASSUME NEW r \in Runs, Remember(r)
      PROVE  RunInv'
  <2>1. /\ at' = at /\ at[r] = "find" /\ pc[r] = "new" /\ pc'[r] = "recalled"
        /\ outcome' = outcome /\ known' = known
        /\ \A q \in Runs \ {r} : pc'[q] = pc[q] /\ recalled'[q] = recalled[q]
    BY <1>0, <1>2 DEF Remember, Running, Resolved, Go, Recall, resVars
  <2>2. ASSUME NEW q \in Runs \ {r}
        PROVE  RunOf(q)'
    BY <1>0, <2>1, <2>2, RunGoes DEF RunOf
  <2>3. RecallFollows(r)'
    BY <1>0, <1>2, RecallRight DEF Remember
  <2>4. RunOf(r)'
    BY <1>0, <2>1, <2>3 DEF RunOf
  <2>5. QED
    BY <2>2, <2>4 DEF RunInv
<1>3. ASSUME NEW r \in Runs, Refuse(r) \/ Route(r) \/ Research(r) \/ Traverse(r)
                             \/ Summarise(r) \/ Record(r) \/ FailRun(r)
      PROVE  RunInv'
  <2>1. /\ at' = at /\ at[r] = "find" /\ known' = known /\ recalled' = recalled
        /\ \A q \in Runs \ {r} : pc'[q] = pc[q] /\ outcome'[q] = outcome[q]
    BY <1>0, <1>3 DEF Refuse, Route, Research, Traverse, Summarise, Record, FailRun, Conclude,
       Running, Resolved, Go, resVars, memVars
  <2>2. /\ pc'[r] # "new" /\ (pc'[r] \in Recalling => pc[r] \in Recalling)
        /\ outcome'[r] = "declined" => \/ outcome[r] = "declined"
                                       \/ recalled[r] = {} /\ pc'[r] = "finished"
    <3>1. CASE Refuse(r) \/ Route(r) \/ Record(r) \/ FailRun(r)
      BY <1>0, <3>1 DEF Refuse, Route, Record, FailRun, Running, Go, Recalling
    <3>2. CASE Research(r)
      BY <1>0, <3>2 DEF Research, Conclude, Running, Go, Recalling
    <3>3. CASE Traverse(r)
      BY <1>0, <3>3 DEF Traverse, Conclude, Running, Go, Recalling
    <3>4. CASE Summarise(r)
      BY <1>0, <3>4 DEF Summarise, Conclude, Running, Go, Recalling
    <3>5. QED
      BY <1>3, <3>1, <3>2, <3>3, <3>4
  <2>3. ASSUME NEW q \in Runs
        PROVE  RunOf(q)'
    <3>1. CASE q = r
      BY <1>0, <2>1, <2>2, <3>1, RunGoes
    <3>2. CASE q # r
      BY <1>0, <2>1, <3>2, RunGoes DEF RunOf
    <3>3. QED
      BY <3>1, <3>2
  <2>4. QED
    BY <2>3 DEF RunInv
<1>4. ASSUME NEW r \in Requests, Depend(r)
      PROVE  RunInv'
  <2>1. /\ pc' = pc /\ outcome' = outcome /\ recalled' = recalled /\ known' = known
    BY <1>4 DEF Depend, runVars, memVars
  <2>2. \A q \in Requests : at'[q] = "idle" => at[q] = "idle"
    BY <1>4, Moves, Goes DEF Depend, ResInv, Building
  <2>3. QED
    BY <1>0, <2>1, <2>2, RunGoes DEF RunInv, RunOf
<1>5. ASSUME \/ \E r \in Runs : Draft(r)
             \/ \E m \in Memories : AddMemory(m)
             \/ \E b \in Builds : BuildGraph(b)
             \/ UNCHANGED vars
      PROVE  RunInv'
  <2>1. /\ pc' = pc /\ outcome' = outcome /\ recalled' = recalled /\ known' = known /\ at' = at
    BY <1>5 DEF Draft, AddMemory, BuildGraph, AddFacts, Flush, Index, CommitItem, LoseItem,
       vars, runVars, memVars, resVars
  <2>2. QED
    BY <1>0, <2>1, RunGoes DEF RunInv, RunOf
<1>6. ASSUME Restart
      PROVE  RunInv'
  <2>1. /\ outcome' = outcome /\ recalled' = recalled /\ known' = known
        /\ \A q \in Runs : /\ pc'[q] \in {"failed", pc[q]}
                           /\ at'[q] = "idle" => at[q] = "idle" /\ pc'[q] = pc[q]
    BY <1>0, <1>6 DEF Restart, Reboot, RebootMemory
  <2>2. QED
    BY <1>0, <2>1, RunGoes DEF RunInv, RunOf, Recalling
<1>7. QED
  BY <1>1, <1>2, <1>3, <1>4, <1>5, <1>6 DEF Next

\* A run comes to an end only with its agent.
LEMMA NamedKept ==
  ASSUME TypeOK, NamedInv, [Next]_vars
  PROVE  NamedInv'
<1>0. /\ pc \in [Runs -> {"new", "recalled", "routed", "finished", "done", "refused", "failed"}]
      /\ agent \in [Runs -> Names \cup {NoAgent}]
      /\ \A q \in Runs : pc[q] = "finished" => agent[q] \in Names
  BY DEF TypeOK, NamedInv
<1>1. ASSUME NEW r \in Runs, Research(r) \/ Traverse(r) \/ Summarise(r)
      PROVE  NamedInv'
  <2>1. /\ agent' = agent /\ agent[r] \in Names
        /\ \A q \in Runs \ {r} : pc'[q] = pc[q]
    BY <1>0, <1>1 DEF Research, Traverse, Summarise, Conclude, Go, Names
  <2>2. QED
    BY <1>0, <2>1 DEF NamedInv
<1>2. ASSUME NEW r \in Runs, Refuse(r) \/ Remember(r) \/ Route(r) \/ Record(r) \/ FailRun(r)
      PROVE  NamedInv'
  <2>1. /\ pc'[r] # "finished"
        /\ \A q \in Runs \ {r} : pc'[q] = pc[q] /\ agent'[q] = agent[q]
    BY <1>0, <1>2 DEF Refuse, Remember, Route, Record, FailRun, Go
  <2>2. QED
    BY <1>0, <2>1 DEF NamedInv
<1>3. ASSUME Restart
      PROVE  NamedInv'
  <2>1. agent' = agent /\ \A q \in Runs : pc'[q] \in {"failed", pc[q]}
    BY <1>3 DEF Restart
  <2>2. QED
    BY <1>0, <2>1 DEF NamedInv
<1>4. CASE UNCHANGED <<pc, agent>>
  BY <1>0, <1>4 DEF NamedInv
<1>5. QED
  BY <1>1, <1>2, <1>3, <1>4 DEF Next, vars, runVars, Arrive, Depend, Draft, AddMemory, BuildGraph

\* The types of what Agents adds.
LEMMA AgentsType ==
  ASSUME TypeOK, ResInv, NamedInv, [Next]_vars
  PROVE  TypeOK'
<1>1. ResTypeOK'
  BY StepParts, ResStepInv DEF ResInv
<1>2. MemTypeOK'
  BY StepParts, MemType DEF TypeOK
<1>3. SqlTypeOK'
  <2>1. CASE UNCHANGED sqlVars
    BY <2>1 DEF TypeOK, SqlTypeOK, sqlVars
  <2>2. CASE \E r \in Runs : Attempt(r, tables, AllowedTables)
    BY <2>2, SqlType, AgentsAssumption DEF TypeOK
  <2>3. QED
    BY <2>1, <2>2, StepParts
<1> DEFINE Places == {"new", "recalled", "routed", "finished", "done", "refused", "failed"}
           Own == /\ pc' \in [Runs -> Places]
                  /\ agent' \in [Runs -> Names \cup {NoAgent}]
                  /\ outcome' \in [Runs -> Answered \cup {"none"}]
                  /\ trace' \subseteq Runs \X Names
                  /\ built' \subseteq Builds
                  /\ crowd' \in Crowds
                  /\ reboots' \in 0..MaxReboots
<1>4. /\ pc \in [Runs -> Places]
      /\ agent \in [Runs -> Names \cup {NoAgent}]
      /\ outcome \in [Runs -> Answered \cup {"none"}]
      /\ trace \subseteq Runs \X Names
      /\ built \subseteq Builds
      /\ crowd \in Crowds
      /\ reboots \in 0..MaxReboots /\ MaxReboots \in Nat
  BY AgentsAssumption DEF TypeOK
<1>5. Own
  <2>1. ASSUME NEW r \in Requests, Arrive(r) \/ Depend(r)
        PROVE  Own
    BY <1>4, <2>1 DEF Arrive, Depend, runVars
  <2>2. ASSUME NEW r \in Runs, Refuse(r) \/ Remember(r) \/ FailRun(r)
        PROVE  Own
    BY <1>4, <2>2 DEF Refuse, Remember, FailRun, Go
  <2>3. ASSUME NEW r \in Runs, Route(r)
        PROVE  Own
    <3>1. Registered(r) \subseteq Names
      BY DEF Registered, Names
    <3>2. \A name : Validated(r, name) \in Names
      BY <3>1 DEF Validated, Names
    <3>3. agent' \in [Runs -> Names \cup {NoAgent}]
      BY <1>4, <2>3, <3>1, <3>2 DEF Route
    <3>4. QED
      BY <1>4, <2>3, <3>3 DEF Route, Go
  <2>4. ASSUME NEW r \in Runs, Research(r) \/ Traverse(r) \/ Summarise(r)
        PROVE  Own
    <3>1. PICK how \in Answered : Conclude(r, how)
      BY <2>4 DEF Research, Traverse, Summarise, Answered
    <3>2. QED
      BY <1>4, <3>1 DEF Conclude, Go
  <2>5. ASSUME NEW r \in Runs, Draft(r)
        PROVE  Own
    BY <1>4, <2>5 DEF Draft, runVars
  <2>6. ASSUME NEW r \in Runs, Record(r)
        PROVE  Own
    <3>1. agent[r] \in Names
      BY <2>6 DEF NamedInv, Record, Running
    <3>2. QED
      BY <1>4, <2>6, <3>1 DEF Record, Go
  <2>7. ASSUME NEW m \in Memories, AddMemory(m)
        PROVE  Own
    BY <1>4, <2>7 DEF AddMemory, runVars
  <2>8. ASSUME NEW b \in Builds, BuildGraph(b)
        PROVE  Own
    BY <1>4, <2>8 DEF BuildGraph
  <2>9. ASSUME Restart
        PROVE  Own
    BY <1>4, <2>9 DEF Restart
  <2>10. ASSUME UNCHANGED vars
         PROVE  Own
    BY <1>4, <2>10 DEF vars, runVars
  <2>11. QED
    BY <2>1, <2>2, <2>3, <2>4, <2>5, <2>6, <2>7, <2>8, <2>9, <2>10 DEF Next
<1>6. QED
  BY <1>1, <1>2, <1>3, <1>5 DEF TypeOK

-----------------------------------------------------------------------------
(* The theorems.                                                            *)

\* The invariant holds at first.
LEMMA InitInv == Init => IInv
<1> SUFFICES ASSUME Init PROVE IInv
  OBVIOUS
<1>1. ResInit /\ MemInit /\ SqlInit
  BY DEF Init
<1>2. ResInv
  BY <1>1, ResInitInv
<1>3. MemTypeOK /\ MemInv
  BY <1>1 DEF MemInit, MemTypeOK, MemInv
<1>4. SqlTypeOK /\ SqlInv
  <2>1. SqlTypeOK
    BY <1>1, SqlAssumption DEF SqlInit, SqlTypeOK
  <2>2. \A r \in Runs : shown[r] = {} /\ attempts[r] = 0 /\ refused[r] = {}
    BY <1>1, AgentsAssumption DEF SqlInit
  <2>3. \A r \in Runs : {p[1] : p \in refused[r]} = 1..attempts[r]
    BY <2>2
  <2>4. SqlInv
    BY <2>2, <2>3 DEF SqlInv, Tried
  <2>5. QED
    BY <2>1, <2>4
<1>5. TypeOK
  BY <1>2, <1>3, <1>4, AgentsAssumption DEF Init, TypeOK, ResInv
<1>6. RunInv /\ NamedInv
  BY <1>1 DEF Init, MemInit, RunInv, RunOf, Recalling, NamedInv
<1>7. QED
  BY <1>2, <1>3, <1>4, <1>5, <1>6 DEF IInv

\* Every step keeps it.
LEMMA StepInv == IInv /\ [Next]_vars => IInv'
<1> SUFFICES ASSUME IInv, [Next]_vars PROVE IInv'
  OBVIOUS
<1> USE DEF IInv
<1>1. ResInv'
  BY StepParts, ResStepInv
<1>2. TypeOK' /\ NamedInv'
  BY AgentsType, NamedKept
<1>3. MemInv'
  BY StepParts, MemKept DEF TypeOK
<1>4. RunInv'
  BY RunKept
<1>5. SqlInv'
  <2>1. CASE UNCHANGED sqlVars
    BY <2>1 DEF SqlInv, Tried, sqlVars
  <2>2. CASE \E r \in Runs : Attempt(r, tables, AllowedTables)
    BY <2>2, SqlKept, AgentsAssumption DEF TypeOK
  <2>3. QED
    BY <2>1, <2>2, StepParts
<1>6. QED
  BY <1>1, <1>2, <1>3, <1>4, <1>5

\* The invariant of the system.
THEOREM Inductive == Spec => []IInv
BY InitInv, StepInv, PTL DEF Spec

\* The variables have their types.
THEOREM TypeCorrect == Spec => []TypeOK
<1>1. IInv => TypeOK
  BY DEF IInv
<1>2. QED
  BY <1>1, Inductive, PTL

\* Whatever requests come together and whenever the process dies: a request
\* fails to get a singleton only if another one built it at the same time, and
\* without such a race no fact is missing from the graph.
THEOREM OnlyRacesMatter == Spec => []OnlyRacesHurt
<1>1. IInv => OnlyRacesHurt
  BY ResImplies DEF IInv
<1>2. QED
  BY <1>1, Inductive, PTL

\* A run recalls what its workspace lists, but for what is being stored or was
\* rolled back, and all that was listed when it was sent, if there is room.
THEOREM RunsRecallRows == Spec => []RecallFollowsRows
<1>1. IInv => RecallFollowsRows
  <2>1. SUFFICES ASSUME IInv, NEW r \in Runs,
                        recalled[r] # {} \/ pc[r] \in {"recalled", "routed", "finished", "done"}
                 PROVE  RecallFollows(r) /\ (outcome[r] = "declined" => known[r] = {})
    BY DEF RecallFollowsRows
  <2>2. RecallFollows(r)
    BY <2>1 DEF IInv, RunInv, RunOf, Recalling
  <2>3. ASSUME outcome[r] = "declined" PROVE known[r] = {}
    <3>1. recalled[r] = {}
      BY <2>1, <2>3 DEF IInv, RunInv, RunOf
    <3>2. Cardinality(recalled[r]) # RecallLimit
      BY <3>1, FS_EmptySet, AgentsAssumption, MemoryAssumption
    <3>3. QED
      BY <2>2, <3>1, <3>2 DEF RecallFollows
  <2>4. QED
    BY <2>2, <2>3
<1>2. QED
  BY <1>1, Inductive, PTL

\* The SQL agent answers from the whole sample data with a statement the guard
\* let through, or has made all its attempts and reports the last error.
THEOREM SqlAnswersAreComplete == Spec => []SqlAnswersHold
<1>1. IInv => SqlAnswersHold
  <2>1. SUFFICES ASSUME IInv, NEW r \in Runs PROVE SqlHolds(r)
    BY DEF SqlAnswersHold
  <2>2. /\ \A d \in shown[r] : Rejection(d) = NoError /\ rowsShown[r] = Fetched(d, AllowedTables)
        /\ Tried(r)
    BY <2>1 DEF IInv, SqlInv
  <2>3. ASSUME SqlGaveUp(r)
        PROVE  /\ {p[1] : p \in refused[r]} = 1..MaxAttempts
               /\ <<MaxAttempts, error[r]>> \in refused[r]
    BY <2>2, <2>3, SqlAssumption DEF SqlGaveUp, Tried
  <2>4. QED
    BY <2>2, <2>3 DEF SqlHolds
<1>2. QED
  BY <1>1, Inductive, PTL

=============================================================================
