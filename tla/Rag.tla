--------------------------------- MODULE Rag ---------------------------------
(***************************************************************************)
(* From a page to an answer: the page is chunked (Chunking), its chunks    *)
(* are what the workspace stores, and a question is answered from them     *)
(* (Answering).                                                            *)
(***************************************************************************)
EXTENDS Chunking, Answering

CONSTANTS
  AskedTexts,    \* texts that questions are asked about
  MaxPassages    \* bound: ... when they have made no more chunks than that

ASSUME RagAssumption == AskedTexts \subseteq Texts /\ MaxPassages \in Nat

Init == ChunkInit /\ AnswerInit

Chunk == asking = "idle" /\ ChunkNext /\ UNCHANGED answerVars

\* The strategy that an upload has if it names none.
AskAbout(q) ==
  /\ stage = "done" /\ strategy = "recursive"
  /\ text \in {Marked(t) : t \in AskedTexts} /\ Len(chunks) <= MaxPassages
  /\ Ask(q, Len(chunks), \E k \in DOMAIN chunks : Places(chunks[k].text) # {})
  /\ UNCHANGED <<packVars, chunkVars>>

Search == Answer /\ UNCHANGED <<packVars, chunkVars>>

Next == Chunk \/ (\E q \in Questions : AskAbout(q)) \/ Search

Spec == Init /\ [][Next]_<<packVars, chunkVars, answerVars>>

TypeOK == ChunkTypeOK /\ AnswerTypeOK

=============================================================================
