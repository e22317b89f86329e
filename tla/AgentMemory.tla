----------------------------- MODULE AgentMemory -----------------------------
(***************************************************************************)
(* Long-term memory, app/memory/__init__.py: rows of table memory_items and *)
(* their vectors in a collection of their own.  remember flushes the row,  *)
(* stores the vector and commits the row, recall reads the vectors only,   *)
(* list_memories the rows only.                                            *)
(*                                                                         *)
(* A memory has the name of the request that adds it.  An organization has *)
(* its own workspaces, so that the scope of a memory is its workspace.     *)
(***************************************************************************)
EXTENDS Naturals, FiniteSets

CONSTANTS
  Memories,     \* requests to POST /workspaces/{id}/memories
  Runs,         \* requests to POST /workspaces/{id}/agents/run
  Workspaces,
  Dims,         \* vector sizes of the embedding models there are
  NoDim,        \* the collection does not exist
  RecallLimit   \* MEMORY_RECALL_LIMIT

ASSUME MemoryAssumption ==
  /\ IsFiniteSet(Memories) /\ Memories \cap Runs = {}
  /\ NoDim \notin Dims
  /\ RecallLimit \in Nat

VARIABLES
  scope,      \* workspace of a request
  adding,     \* where a remember is
  items,      \* committed rows
  vectors,    \* memories with a vector in the collection
  size,       \* vector size of the collection
  model,      \* vector size of the process's embedder
  recalled,   \* memories a run was given
  known       \* history: rows committed when a run was sent

memVars == <<scope, adding, items, vectors, size, model, recalled, known>>

Adding == {"flushed", "indexed"}

MemTypeOK ==
  /\ scope \in [Memories \cup Runs -> Workspaces]
  /\ adding \in [Memories -> {"idle", "stored", "failed"} \cup Adding]
  /\ items \subseteq Memories /\ vectors \subseteq Memories
  /\ size \in Dims \cup {NoDim} /\ model \in Dims
  /\ recalled \in [Runs -> SUBSET Memories]
  /\ known \in [Runs -> SUBSET Memories]

MemInit ==
  /\ scope \in [Memories \cup Runs -> Workspaces]
  /\ adding = [m \in Memories |-> "idle"]
  /\ items = {} /\ vectors = {}
  /\ size = NoDim /\ model \in Dims
  /\ recalled = [r \in Runs |-> {}]
  /\ known = [r \in Runs |-> {}]

-----------------------------------------------------------------------------
(* Step gone wrong.                                                         *)

\* RecallFollowsRows: commit the row, then store the vector.
FlushCommitted(m) ==
  /\ adding[m] = "idle"
  /\ adding' = [adding EXCEPT ![m] = "flushed"]
  /\ items' = items \cup {m}
  /\ UNCHANGED <<scope, vectors, size, model, recalled, known>>

-----------------------------------------------------------------------------
(* remember.                                                                *)

Flush(m) ==
  /\ adding[m] = "idle"
  /\ adding' = [adding EXCEPT ![m] = "flushed"]
  /\ UNCHANGED <<scope, items, vectors, size, model, recalled, known>>

\* ensure_collection creates it with the size of this embedder if there is none,
\* whatever its size if there is one; a vector of another size is refused.
Index(m) ==
  /\ adding[m] = "flushed"
  /\ size' = IF size = NoDim THEN model ELSE size
  /\ \/ size' = model /\ vectors' = vectors \cup {m} /\ adding' = [adding EXCEPT ![m] = "indexed"]
     \/ UNCHANGED vectors /\ adding' = [adding EXCEPT ![m] = "failed"]
  /\ UNCHANGED <<scope, items, model, recalled, known>>

CommitItem(m) ==
  /\ adding[m] = "indexed"
  /\ items' = items \cup {m}
  /\ adding' = [adding EXCEPT ![m] = "stored"]
  /\ UNCHANGED <<scope, vectors, size, model, recalled, known>>

\* The flush or the commit raises: the row is rolled back, a vector stays.
LoseItem(m) ==
  /\ adding[m] \in Adding
  /\ adding' = [adding EXCEPT ![m] = "failed"]
  /\ UNCHANGED <<scope, items, vectors, size, model, recalled, known>>

-----------------------------------------------------------------------------
\* The memories closest to the query, which any may be, of the workspace.
Closest(w) ==
  LET near == {m \in vectors : scope[m] = w}
      n == IF Cardinality(near) < RecallLimit THEN Cardinality(near) ELSE RecallLimit
  IN {S \in SUBSET near : Cardinality(S) = n}

\* list_memories
Listed(w) == {m \in items : scope[m] = w}

Send(r) ==
  /\ known' = [known EXCEPT ![r] = Listed(scope[r])]
  /\ UNCHANGED <<scope, adding, items, vectors, size, model, recalled>>

\* recall finds nothing without a collection and raises on another size.
Recall(r) ==
  /\ size \in {NoDim, model}
  /\ \E S \in Closest(scope[r]) : recalled' = [recalled EXCEPT ![r] = S]
  /\ UNCHANGED <<scope, adding, items, vectors, size, model, known>>

\* The process is started again, perhaps with another embedding model.
RebootMemory ==
  /\ adding' = [m \in Memories |-> IF adding[m] \in Adding THEN "failed" ELSE adding[m]]
  /\ model' \in Dims
  /\ UNCHANGED <<scope, items, vectors, size, recalled, known>>

-----------------------------------------------------------------------------
\* What a run recalls is what its workspace lists, but for a memory whose row is
\* not committed yet or was rolled back after its vector was stored; and what
\* was listed when the run was sent is recalled, unless RecallLimit memories
\* were closer to its query.
RecallFollows(r) ==
  /\ \A m \in recalled[r] :
       /\ scope[m] = scope[r]
       /\ m \in items \/ adding[m] \in {"indexed", "failed"}
  /\ known[r] \subseteq recalled[r] \/ Cardinality(recalled[r]) = RecallLimit

=============================================================================
