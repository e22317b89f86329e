----------------------------- MODULE MCIngestion -----------------------------
(* Small instances of Ingestion for TLC. *)
EXTENDS Ingestion, TLC

CONSTANTS o1, o2, w1, w2

\* Each organization owns one workspace.
OneEach == w1 :> o1 @@ w2 :> o2
OneOnly == w1 :> o1

Symmetry == Permutations(Docs) \cup Permutations(Deletes)
=============================================================================
