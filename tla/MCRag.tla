------------------------------- MODULE MCRag -------------------------------
(* Every short text over a letter, a full stop, a blank and a line break, and *)
(* longer ones with three words and with none.                               *)
EXTENDS Rag

MCKinds == {"x", ".", " ", "n"}
MCAsked == { <<"x", " ", "x", "n", "x">>, <<"x", "n", "n", "x">>, <<".", ".", "n", ".">>,
             <<" ", "n">>, <<"x">> }
MCLong == { <<"x", "x", ".", " ", "x", "n", "n", "x", "x", "x", " ", "x">>,
            <<"x", ".", " ", ".", "x", "x", "x", "x", "x", "n", "x">>,
            <<"x", "x", "x", "x", "x", "x", "x", "x">> }
MCTexts == UNION {[1..n -> MCKinds] : n \in 1..5} \cup MCAsked \cup MCLong
MCSeparators == << <<"n", "n">>, <<"n">>, <<".", " ">>, <<" ">>, <<>> >>

Plain(m, h, p) == [mode |-> m, hits |-> h, parts |-> p, refused |-> FALSE]
MCQuestions ==
  { Plain("answer", {"contract_review", "roadmap"}, 1), Plain("answer", {}, 0),
    Plain("stream", {"explain"}, 1),
    Plain("research", {"explain"}, 5), Plain("research", {"compare", "summary"}, 1),
    Plain("research", {}, 1),
    [Plain("answer", {}, 1) EXCEPT !.refused = TRUE] }
=============================================================================
