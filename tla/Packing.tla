------------------------------- MODULE Packing -------------------------------
(***************************************************************************)
(* The second half of recursive_chunks, app/chunking/chunkers.py: small    *)
(* pieces of a text are merged up to `size`, a chunk repeats the last      *)
(* `overlap` characters of the one before it.                              *)
(*                                                                         *)
(* A character is a pair of its kind and its position in the text, 0 if it *)
(* is not from the text.                                                   *)
(***************************************************************************)
EXTENDS Integers, Sequences, FiniteSetsExt

CONSTANTS
  Kinds,   \* kinds of characters
  Blank    \* those that strip() removes

ASSUME BlankAssumption == Blank \subseteq Kinds

VARIABLES
  size, overlap,
  pieces,    \* what is left to merge
  current,   \* the chunk being filled
  merged     \* the chunks that are finished

packVars == <<size, overlap, pieces, current, merged>>

Char == Kinds \X Nat
IsBlank(s) == \A i \in DOMAIN s : s[i][1] \in Blank

PackTypeOK ==
  /\ size \in Nat \ {0} /\ overlap \in Nat
  /\ pieces \in Seq(Seq(Char)) /\ current \in Seq(Char) /\ merged \in Seq(Seq(Char))

-----------------------------------------------------------------------------
\* str.strip()
Strip(s) ==
  LET inked == {i \in DOMAIN s : s[i][1] \notin Blank}
  IN IF IsBlank(s) THEN <<>> ELSE SubSeq(s, Min(inked), Max(inked))

\* merged with the current chunk, unless that is blank
WithCurrent == IF IsBlank(current) THEN merged ELSE Append(merged, Strip(current))

\* Gone wrong (ChunksCoverText): current[-overlap:] for no overlap, which is all
\* of the chunk.
KeptAlways == IF overlap = 0 \/ Len(current) <= overlap THEN current
              ELSE SubSeq(current, Len(current) - overlap + 1, Len(current))

\* current[-overlap:] if overlap else ""
Kept == IF Len(current) <= overlap THEN current
        ELSE SubSeq(current, Len(current) - overlap + 1, Len(current))

Fits == Len(current) + Len(Head(pieces)) <= size

\* The piece still fits in the chunk ...
Extend ==
  /\ pieces # <<>> /\ Fits
  /\ current' = current \o Head(pieces)
  /\ pieces' = Tail(pieces)
  /\ UNCHANGED <<size, overlap, merged>>

\* ... or begins the next one, after what that repeats.
Cut ==
  /\ pieces # <<>> /\ ~Fits
  /\ merged' = WithCurrent
  /\ current' = Kept \o Head(pieces)
  /\ pieces' = Tail(pieces)
  /\ UNCHANGED <<size, overlap>>

=============================================================================
