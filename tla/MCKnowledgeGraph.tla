--------------------------- MODULE MCKnowledgeGraph ---------------------------
(* Small instances of KnowledgeGraph for TLC: a text names two people and    *)
(* states facts of three, who form a triangle.                              *)
EXTENDS KnowledgeGraph, TLC

CONSTANT Person

Someone(n) == [type |-> Person, name |-> n]
Says(a, r, b) == [source |-> Someone(a), relation |-> r, target |-> Someone(b)]

Mentions == [t \in Texts |-> {Someone("ann"), Someone("bob")}]

States ==
  [t \in Texts |->
    {Says("ann", "reports", "bob"), Says("bob", "reports", "cid"), Says("cid", "manages", "ann")}]
===============================================================================
