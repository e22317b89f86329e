------------------------------- MODULE Chunking -------------------------------
(***************************************************************************)
(* How the text of a page becomes chunks, app/chunking/chunkers.py: the    *)
(* four strategies of chunk_document.  A step is a turn of one of its      *)
(* loops.                                                                  *)
(***************************************************************************)
EXTENDS Packing

CONSTANTS
  Texts,        \* texts of a page, sequences of kinds
  Sizes, Overlaps,
  Separators,   \* the hierarchy, sequences of kinds; the last one is empty
  ChildSize, ChildOverlap

Strategies == {"fixed", "recursive", "semantic", "parent_child"}

ASSUME ChunkingAssumption ==
  /\ Texts \subseteq Seq(Kinds)
  /\ Separators \in Seq(Seq(Kinds)) /\ Separators # <<>>
  /\ Separators[Len(Separators)] = <<>>
  /\ Sizes \subseteq Nat \ {0} /\ Overlaps \subseteq Nat
  /\ ChildSize \in Nat \ {0} /\ ChildOverlap \in Nat
  /\ " " \in Blank

VARIABLES
  text, strategy,
  stage,      \* "split", "pack", "window", "sentences", "joining" or "done"
  work,       \* what _split has before it, see Item
  rest,       \* what is left of the text for "fixed" and "semantic"
  parents,    \* parent chunks whose children are still to be made
  chunks      \* the result: records of text and the parent it carries

chunkVars == <<text, strategy, stage, work, rest, parents, chunks>>

Marked(t) == [i \in DOMAIN t |-> <<t[i], i>>]

\* A text that _split is called for with the separators from a level on, or what
\* is left of one ("open") that the separator of that level is cutting up.
Item == [text : Seq(Char), level : Nat \ {0}, open : BOOLEAN]
Call(t, l) == [text |-> t, level |-> l, open |-> FALSE]

ChunkInit ==
  /\ text \in {Marked(t) : t \in Texts}
  /\ strategy \in Strategies
  /\ size \in Sizes
  /\ overlap \in IF strategy \in {"fixed", "recursive"} THEN Overlaps ELSE {0}
  /\ stage = CASE strategy = "fixed" -> "window" [] strategy = "semantic" -> "sentences" [] OTHER -> "split"
  /\ work = IF stage = "split" THEN <<Call(text, 1)>> ELSE <<>>
  /\ rest = CASE strategy = "fixed" -> text [] strategy = "semantic" -> Strip(text) [] OTHER -> <<>>
  /\ pieces = <<>> /\ current = <<>> /\ merged = <<>>
  /\ parents = <<>> /\ chunks = <<>>

ChunkTypeOK ==
  /\ PackTypeOK
  /\ text \in Seq(Char) /\ strategy \in Strategies
  /\ stage \in {"split", "pack", "window", "sentences", "joining", "done"}
  /\ work \in Seq(Item) /\ rest \in Seq(Char) /\ parents \in Seq(Seq(Char))
  /\ chunks \in Seq([text : Seq(Char), parent : Seq(Char)])

Alone(t) == [text |-> t, parent |-> t]

-----------------------------------------------------------------------------
(* recursive_chunks, and parent_child_chunks, which calls it for the parents *)
(* and then for each of them.                                               *)

\* Small enough, or no separator is left.
Whole(item) == ~item.open /\ (Len(item.text) <= size \/ item.level > Len(Separators))

\* Where sep begins in t
Matches(t, sep) == {j \in 1..(Len(t) - Len(sep) + 1) : \A k \in DOMAIN sep : t[j + k - 1][1] = sep[k]}

\* The separator is put back after every part, the last one too, but not after
\* an empty one.
Rejoined(part, sep) ==
  IF part = <<>> THEN part ELSE part \o [k \in DOMAIN sep |-> <<sep[k], 0>>]

Keep ==
  /\ stage = "split" /\ work # <<>> /\ Whole(Head(work))
  /\ pieces' = Append(pieces, Head(work).text)
  /\ work' = Tail(work)
  /\ UNCHANGED <<size, overlap, current, merged, text, strategy, stage, rest, parents, chunks>>

\* The next part of t.split(sep), or of list(t), and what is left after it
PartLen(t, sep) ==
  IF sep = <<>> THEN 1 ELSE IF Matches(t, sep) = {} THEN Len(t) ELSE Min(Matches(t, sep)) - 1
NextPart(t, sep) == SubSeq(t, 1, PartLen(t, sep))
IsLast(t, sep) == IF sep = <<>> THEN Len(t) = 1 ELSE Matches(t, sep) = {}
AfterPart(t, sep) == SubSeq(t, PartLen(t, sep) + Len(sep) + 1, Len(t))

CutOff ==
  /\ stage = "split" /\ work # <<>> /\ ~Whole(Head(work))
  /\ LET t == Head(work).text
         l == Head(work).level
         part == Call(Rejoined(NextPart(t, Separators[l]), Separators[l]), l + 1)
         more == [text |-> AfterPart(t, Separators[l]), level |-> l, open |-> TRUE]
         later == IF IsLast(t, Separators[l]) THEN Tail(work) ELSE <<more>> \o Tail(work)
     IN work' = <<part>> \o later
  /\ UNCHANGED <<packVars, text, strategy, stage, rest, parents, chunks>>

BeginPacking ==
  /\ stage = "split" /\ work = <<>>
  /\ stage' = "pack"
  /\ UNCHANGED <<packVars, text, strategy, work, rest, parents, chunks>>

PackPiece ==
  /\ stage = "pack"
  /\ Extend \/ Cut
  /\ UNCHANGED chunkVars

\* recursive_chunks returns: its chunks are the page's, or the parents, or the
\* children of the first parent.
Return ==
  /\ stage = "pack" /\ pieces = <<>>
  /\ IF strategy = "recursive"
       THEN chunks' = [i \in DOMAIN WithCurrent |-> Alone(WithCurrent[i])] /\ UNCHANGED parents
     ELSE IF parents = <<>>
       THEN parents' = WithCurrent /\ UNCHANGED chunks
     ELSE /\ chunks' = chunks \o [i \in DOMAIN WithCurrent |->
                                    [text |-> WithCurrent[i], parent |-> Head(parents)]]
          /\ parents' = Tail(parents)
  /\ current' = <<>> /\ merged' = <<>>
  /\ IF parents' = <<>>
       THEN stage' = "done" /\ UNCHANGED <<size, overlap, work>>
       ELSE /\ stage' = "split" /\ work' = <<Call(Head(parents'), 1)>>
            /\ size' = ChildSize /\ overlap' = ChildOverlap
  /\ UNCHANGED <<pieces, text, strategy, rest>>

-----------------------------------------------------------------------------
(* fixed_chunks: windows of `size`, each `step` after the last.             *)

Step == IF size - overlap > 1 THEN size - overlap ELSE 1
Window == SubSeq(rest, 1, IF size < Len(rest) THEN size ELSE Len(rest))

Slide ==
  /\ stage = "window"
  /\ IF rest = <<>> THEN stage' = "done" /\ UNCHANGED <<rest, chunks>>
     ELSE /\ chunks' = IF IsBlank(Window) THEN chunks ELSE Append(chunks, Alone(Window))
          /\ rest' = SubSeq(rest, Step + 1, Len(rest))
          /\ UNCHANGED stage
  /\ UNCHANGED <<packVars, text, strategy, work, parents>>

-----------------------------------------------------------------------------
(* semantic_chunks: `pieces` are the sentences, `current` those of a chunk   *)
(* joined by blanks, `size` is max_chars.                                    *)

Space == <<<<" ", 0>>>>

\* _split_sentences: after a full stop that blanks follow.
ReadSentence ==
  /\ stage = "sentences" /\ rest # <<>>
  /\ LET ends == {i \in 1..(Len(rest) - 1) : rest[i][1] = "." /\ rest[i + 1][1] \in Blank}
         n == IF ends = {} THEN Len(rest) ELSE Min(ends)
     IN /\ pieces' = Append(pieces, SubSeq(rest, 1, n))
        /\ rest' = Strip(SubSeq(rest, n + 1, Len(rest)))
  /\ UNCHANGED <<size, overlap, current, merged, text, strategy, stage, work, parents, chunks>>

FirstSentence ==
  /\ stage = "sentences" /\ rest = <<>>
  /\ IF pieces = <<>> THEN stage' = "done" /\ UNCHANGED <<pieces, current>>
     ELSE current' = Head(pieces) /\ pieces' = Tail(pieces) /\ stage' = "joining"
  /\ UNCHANGED <<size, overlap, merged, text, strategy, work, rest, parents, chunks>>

\* Any two neighbours may be similar; a long chunk is ended anyway.
JoinSentence ==
  /\ stage = "joining" /\ pieces # <<>>
  /\ \/ /\ Len(current) + 1 + Len(Head(pieces)) <= size
        /\ current' = current \o Space \o Head(pieces)
        /\ UNCHANGED chunks
     \/ /\ current' = Head(pieces)
        /\ chunks' = Append(chunks, Alone(current))
  /\ pieces' = Tail(pieces)
  /\ UNCHANGED <<size, overlap, merged, text, strategy, stage, work, rest, parents>>

EndSentences ==
  /\ stage = "joining" /\ pieces = <<>>
  /\ chunks' = Append(chunks, Alone(current))
  /\ current' = <<>>
  /\ stage' = "done"
  /\ UNCHANGED <<size, overlap, pieces, merged, text, strategy, work, rest, parents>>

ChunkNext ==
  \/ Keep \/ CutOff \/ BeginPacking \/ PackPiece \/ Return \/ Slide
  \/ ReadSentence \/ FirstSentence \/ JoinSentence \/ EndSentences

-----------------------------------------------------------------------------
(* What is promised.                                                        *)

\* The characters that no strategy can lose: neither blank nor in a separator.
Ink == Kinds \ (Blank \cup UNION {Range(Separators[l]) : l \in DOMAIN Separators})

\* Where they are in the text, those of a chunk say
Places(s) == {s[i][2] : i \in {j \in DOMAIN s : s[j][1] \in Ink}}

Orderly(s) ==
  \A i, j \in DOMAIN s : i < j /\ s[i][1] \in Ink /\ s[j][1] \in Ink => s[i][2] < s[j][2]

\* A stretch of s: none of its places is skipped.
Unbroken(p, s) == \A i, k \in p, j \in s : i < j /\ j < k => j \in p

\* p ends before q begins.
Apart(p, q) == \A i \in p, j \in q : i < j
Covered(ss) == UNION {Places(ss[i]) : i \in DOMAIN ss}

\* p does not begin after q.
Leads(p, q) == p # {} => \A j \in q : \E i \in p : i <= j

\* A chunk that repeats the end of the one before it may exceed `size` by that
\* much; a sentence is never cut by "semantic".
Longest(c) ==
  CASE strategy = "fixed" -> size
    [] strategy = "semantic" -> IF Space[1] \in Range(c.text) THEN size ELSE Len(text)
    [] OTHER -> size + overlap

\* Chunks are what can be found of a page: every word of it is in one, and the words
\* of each chunk are an unbroken stretch of those of the text, in the text's order;
\* no chunk is longer than its strategy allows, and a child is a stretch of its
\* parent.  Words are what is neither white space nor part of a separator: of the
\* full stop and the line breaks, which _split adds after its pieces, at the end of
\* a text too, and which strip() and the windows drop, only the length is bounded,
\* and a chunk that is no more than a full stop is not excluded.
ChunksCoverText ==
  stage = "done" =>
    /\ \A i \in Places(text) : \E k \in DOMAIN chunks : i \in Places(chunks[k].text)
    /\ \A k \in DOMAIN chunks :
         LET c == chunks[k]
         IN /\ ~IsBlank(c.text) /\ Len(c.text) <= Longest(c)
            /\ Orderly(c.text) /\ Unbroken(Places(c.text), Places(text))
            /\ Places(c.text) \subseteq Places(text) \cap Places(c.parent)
            /\ \A n \in 1..(k - 1) : Leads(Places(chunks[n].text), Places(c.text))

=============================================================================
