------------------------------ MODULE Answering ------------------------------
(***************************************************************************)
(* How a question finds its evidence: the stretch of the chat handlers     *)
(* between their database calls (app/api/routers/chat.py), the RagEngine   *)
(* and DeepResearchEngine they run, hybrid retrieval and re-ranking        *)
(* (app/rag, app/reasoning, app/insight, app/guardrails).                  *)
(*                                                                         *)
(* What embeddings, BM25 and the re-ranker think of a passage is left      *)
(* open: each may put the passages in any order.                           *)
(***************************************************************************)
EXTENDS Integers, Sequences, FiniteSetsExt

CONSTANTS
  Questions,     \* the questions, see Question
  RrfK,          \* k of reciprocal rank fusion
  DenseK, SparseK, CandidateK,
  TopN,          \* passages of an answer
  PerStepK, MaxSources, MaxSubQuestions   \* of deep research

\* _RULES: the kinds of question, in the order the classifier tries them.
Rules == << "resume_analysis", "contract_review", "academic_review", "risk_assessment",
            "roadmap", "action_plan", "brainstorm", "compare", "strategic_analysis",
            "research", "summary", "explain" >>

\* _ANGLES: the kinds that deep research has three sub-questions for.
Angled == {"resume_analysis", "strategic_analysis", "risk_assessment", "compare",
           "contract_review", "research"}

\* A question: how it is asked, the kinds it has a keyword of, the number of
\* its long parts and whether guard_input refuses it.
Question == [mode : {"answer", "research", "stream"}, hits : SUBSET Range(Rules),
             parts : Nat, refused : BOOLEAN]

ASSUME AnsweringAssumption ==
  /\ Questions \subseteq Question
  /\ {RrfK, DenseK, SparseK, CandidateK, TopN, PerStepK, MaxSources, MaxSubQuestions}
       \subseteq Nat \ {0}

VARIABLES
  asking,      \* "idle", "search", "fused", "compose" or "done"
  corpus,      \* the passages of the workspace, numbered as they were stored
  indexable,   \* some passage has a word that BM25 can index
  mode, kind,
  left,        \* searches still to make
  dense, sparse, fused,   \* the rankings of this search
  finds,       \* what each search found, best first
  pool,        \* `ordered`: all they found, without repetition
  reply

answerVars == <<asking, corpus, indexable, mode, kind, left, dense, sparse, fused, finds, pool,
                reply>>

NoReply == [status |-> "none", citations |-> <<>>, grounding |-> "ungrounded", followUps |-> "none", steps |-> <<>>]

AnswerInit ==
  /\ asking = "idle" /\ corpus = {} /\ indexable = FALSE
  /\ mode = "answer" /\ kind = "general" /\ left = 0
  /\ dense = <<>> /\ sparse = <<>> /\ fused = <<>> /\ finds = <<>> /\ pool = <<>>
  /\ reply = NoReply

AnswerTypeOK ==
  /\ asking \in {"idle", "search", "fused", "compose", "done"}
  /\ corpus \subseteq Nat /\ indexable \in BOOLEAN
  /\ mode \in {"answer", "research", "stream"}
  /\ kind \in Range(Rules) \cup {"general"}
  /\ left \in 0..MaxSubQuestions
  /\ {dense, sparse, fused, pool} \subseteq Seq(corpus)
  /\ finds \in Seq(Seq(corpus))
  /\ reply \in [status : {"none", "refused", "error", "declined", "answered"},
                citations : Seq(corpus), grounding : {"grounded", "partial", "ungrounded"},
                followUps : Range(Rules) \cup {"none", "general"}, steps : Seq(Nat)]

-----------------------------------------------------------------------------
(* Ranking.                                                                 *)

Top(s, n) == SubSeq(s, 1, IF Len(s) < n THEN Len(s) ELSE n)

\* The best k of S, in an order the scores decide.
Rankings(S, k) ==
  LET n == IF Cardinality(S) < k THEN Cardinality(S) ELSE k
  IN {r \in [1..n -> S] : IsInjective(r)}

Rank(s, x) == CHOOSE i \in DOMAIN s : s[i] = x

\* The elements of S in the order R.
Sorted(S, R) ==
  CHOOSE e \in [1..Cardinality(S) -> S] :
    /\ IsInjective(e)
    /\ \A i, j \in DOMAIN e : i < j => <<e[i], e[j]>> \in R

\* What a ranking adds to the score of x, a fraction.
Share(r, x) == IF x \in Range(r) THEN <<1, RrfK + Rank(r, x)>> ELSE <<0, 1>>

\* Gone wrong (EvidenceIsRanked): the second ranking's share replaces the first's.
ScoreLast(d, s, x) == IF x \in Range(s) THEN Share(s, x) ELSE Share(d, x)

Score(d, s, x) ==
  LET a == Share(d, x)  b == Share(s, x)
  IN <<a[1] * b[2] + b[1] * a[2], a[2] * b[2]>>

\* The order in which reciprocal_rank_fusion meets the passages.
Seen(d, s, x) == IF x \in Range(d) THEN Rank(d, x) ELSE Len(d) + Rank(s, x)

\* Equal scores stay in that order.
Before(d, s, x, y) ==
  LET p == Score(d, s, x)  q == Score(d, s, y)
  IN \/ p[1] * q[2] > q[1] * p[2]
     \/ p[1] * q[2] = q[1] * p[2] /\ Seen(d, s, x) < Seen(d, s, y)

\* reciprocal_rank_fusion of the rankings d and s.
Fusion(d, s) ==
  LET S == Range(d) \cup Range(s)
  IN Sorted(S, {p \in S \X S : Before(d, s, p[1], p[2])})

\* What is found and not in the pool yet, as it was found.
Fresh(found, p) ==
  LET S == Range(found) \ Range(p)
  IN Sorted(S, {q \in S \X S : Rank(found, q[1]) < Rank(found, q[2])})

-----------------------------------------------------------------------------
(* Asking.                                                                  *)

\* classify_query: the first rule that a keyword hits.
Classify(hits) ==
  IF hits = {} THEN "general"
  ELSE Rules[Min({i \in DOMAIN Rules : Rules[i] \in hits})]

\* decompose: a compound question's parts, else the angles of its kind, else
\* the question itself.
SubQuestions(q) ==
  LET n == IF q.parts >= 2 THEN q.parts ELSE IF Classify(q.hits) \in Angled THEN 3 ELSE 1
  IN IF n < MaxSubQuestions THEN n ELSE MaxSubQuestions

\* A question about the passages 1..n; guard_input may refuse it.
Ask(q, n, hasWords) ==
  /\ asking = "idle"
  /\ corpus' = 1..n /\ indexable' = hasWords
  /\ mode' = q.mode
  /\ IF q.refused
       THEN /\ asking' = "done"
            /\ reply' = [NoReply EXCEPT !.status = "refused"]
            /\ UNCHANGED <<kind, left>>
       ELSE /\ asking' = "search"
            /\ kind' = Classify(q.hits)
            /\ left' = IF q.mode = "research" THEN SubQuestions(q) ELSE 1
            /\ UNCHANGED reply
  /\ UNCHANGED <<dense, sparse, fused, finds, pool>>

\* HybridRetriever.retrieve: BM25 has no index of nothing ...
Fuse ==
  /\ asking = "search"
  /\ corpus # {} => indexable
  /\ \E d \in Rankings(corpus, DenseK), s \in Rankings(corpus, SparseK) :
       /\ dense' = d /\ sparse' = s
       /\ fused' = Top(Fusion(d, s), CandidateK)
  /\ asking' = "fused"
  /\ UNCHANGED <<corpus, indexable, mode, kind, left, finds, pool, reply>>

\* ... and raises on passages without a single word it indexes.
FailToIndex ==
  /\ asking = "search"
  /\ corpus # {} /\ ~indexable
  /\ asking' = "done"
  /\ reply' = [NoReply EXCEPT !.status = "error"]
  /\ UNCHANGED <<corpus, indexable, mode, kind, left, dense, sparse, fused, finds, pool>>

\* RagEngine.search: the re-ranker keeps the best of the candidates.
Rerank ==
  /\ asking = "fused"
  /\ \E found \in Rankings(Range(fused), IF mode = "research" THEN PerStepK ELSE TopN) :
       /\ finds' = Append(finds, found)
       /\ pool' = pool \o Fresh(found, pool)
  /\ left' = left - 1
  /\ asking' = IF left = 1 THEN "compose" ELSE "search"
  /\ dense' = <<>> /\ sparse' = <<>> /\ fused' = <<>>
  /\ UNCHANGED <<corpus, indexable, mode, kind, reply>>

\* What the searches found, in deep research no more of it than fits.
Evidence == IF mode = "research" THEN Top(pool, MaxSources) ELSE pool

Grounding(n) == IF n >= 2 THEN "grounded" ELSE IF n = 1 THEN "partial" ELSE "ungrounded"

\* The answer is generated from the evidence, which it cites by number, or
\* declined; a streamed one says no more than its citations.
Compose ==
  /\ asking = "compose"
  /\ reply' = [status |-> IF Evidence = <<>> THEN "declined" ELSE "answered",
               citations |-> Evidence,
               grounding |-> IF mode = "stream" THEN "ungrounded" ELSE Grounding(Len(Evidence)),
               followUps |-> IF mode = "stream" THEN "none" ELSE kind,
               steps |-> IF mode = "research" THEN [i \in DOMAIN finds |-> Len(finds[i])] ELSE <<>>]
  /\ asking' = "done"
  /\ UNCHANGED <<corpus, indexable, mode, kind, left, dense, sparse, fused, finds, pool>>

Answer == Fuse \/ FailToIndex \/ Rerank \/ Compose

-----------------------------------------------------------------------------
(* What is promised.                                                        *)

\* The ranks of x in the two rankings, the better one first; a passage that a
\* ranking does not have comes after all of those it has.
Ranks(x) ==
  LET r == IF x \in Range(dense) THEN Rank(dense, x) ELSE Cardinality(corpus) + 1
      t == IF x \in Range(sparse) THEN Rank(sparse, x) ELSE Cardinality(corpus) + 1
  IN IF r <= t THEN <<r, t>> ELSE <<t, r>>

Outranks(x, y) == Ranks(x) # Ranks(y) /\ Ranks(x)[1] <= Ranks(y)[1] /\ Ranks(x)[2] <= Ranks(y)[2]

FusionIsFair ==
  \A x \in Range(dense) \cup Range(sparse), y \in Range(fused) :
    Outranks(x, y) => x \in Range(fused) /\ Rank(fused, x) < Rank(fused, y)

\* A passage that either ranking puts high, the more so one that both do, comes
\* before the others and is not cut in their favour, whichever ranking it is.
\* What an answer cites is in the workspace and cited once; as many
\* sub-questions of deep research as MaxSources has room for are represented
\* with all they found; and a question is declined only where nothing is stored.
EvidenceIsRanked ==
  /\ asking = "fused" => FusionIsFair
  /\ asking = "done" /\ reply.status \in {"answered", "declined"} =>
       /\ reply.status = "declined" <=> corpus = {}
       /\ Range(reply.citations) \subseteq corpus /\ IsInjective(reply.citations)
       /\ \A i \in DOMAIN finds :
            mode # "research" \/ i * PerStepK <= MaxSources =>
              Range(finds[i]) \subseteq Range(reply.citations)

=============================================================================
