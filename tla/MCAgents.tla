------------------------------- MODULE MCAgents -------------------------------
(* Agents on two runs, a memory and a graph build.                         *)
EXTENDS Agents, TLC

MCNeeds ==
  [r \in Requests |->
     IF r \in Runs THEN <<"documents", "memory", "engine", "graph">>
     ELSE IF r \in Memories THEN <<"memory">> ELSE <<"graph", "documents">>]

\* Two first runs, and a run with the other routes.
MCCrowds == {Runs} \cup {{r} \cup Memories \cup Builds : r \in Runs}

MCSymmetry == Permutations(Workspaces) \cup Permutations(Dims) \cup Permutations(Runs)

MCTableOrder == <<"products", "sales">>
MCAllowedTables == {"products", "sales"}

MCDraft(first, names, reads, limit, runs) ==
  [statements |-> 1, first |-> first, forbidden |-> FALSE, names |-> names,
   tables |-> reads, limit |-> limit, runs |-> runs, rows |-> 3]

\* A select without a limit; one with a larger limit that reads more tables than
\* the guard sees, one of the database's own among them; a name that is no table
\* (the guard takes a common table expression for one); and one that the database
\* refuses.
MCDrafts ==
  {MCDraft("SELECT", {"sales"}, {"sales"}, NoLimit, TRUE),
   MCDraft("WITH", {"products"}, {"products", "sales", "schema"}, 5, TRUE),
   MCDraft("WITH", {"sales", "recent"}, {"sales"}, NoLimit, TRUE),
   MCDraft("SELECT", {"sales"}, {"sales"}, 1, FALSE)}

=============================================================================
