---------------------------- MODULE KnowledgeBase ----------------------------
(***************************************************************************)
(* What document ingestion promises about one document, whatever the       *)
(* handlers do in between: its entry in the library and its content in the *)
(* index are two registers that only move forward, and they constrain each *)
(* other.                                                                  *)
(***************************************************************************)
CONSTANT Docs

VARIABLES
  entry,    \* what the library shows of each document
  content   \* what the index holds of each document

vars == <<entry, content>>

Visible == {"ready", "empty", "failed"}

TypeOK ==
  /\ entry \in [Docs -> {"absent", "deleted"} \cup Visible]
  /\ content \in [Docs -> {"none", "indexed", "purged"}]

Init ==
  /\ entry = [d \in Docs |-> "absent"]
  /\ content = [d \in Docs |-> "none"]

\* All of the content appears at once, and only once.
Index(d) ==
  /\ entry[d] = "absent" /\ content[d] = "none"
  /\ content' = [content EXCEPT ![d] = "indexed"]
  /\ UNCHANGED entry

\* The entry appears in its final status; a ready one has its content.
Publish(d) ==
  /\ entry[d] = "absent" /\ content[d] # "purged"
  /\ \E s \in Visible :
       /\ s = "ready" => content[d] = "indexed"
       /\ s = "empty" => content[d] = "none"
       /\ entry' = [entry EXCEPT ![d] = s]
  /\ UNCHANGED content

\* Only what the library shows is ever taken out of the index.
Purge(d) ==
  /\ entry[d] \in Visible
  /\ content' = [content EXCEPT ![d] = "purged"]
  /\ UNCHANGED entry

\* The entry goes after the content.
Remove(d) ==
  /\ entry[d] \in Visible /\ content[d] = "purged"
  /\ entry' = [entry EXCEPT ![d] = "deleted"]
  /\ UNCHANGED content

Next == \E d \in Docs : Index(d) \/ Publish(d) \/ Purge(d) \/ Remove(d)

Spec == Init /\ [][Next]_vars
=============================================================================
