------------------------------ MODULE RagProofs ------------------------------
(***************************************************************************)
(* Chunks cover the text they are made from, and the evidence of an answer *)
(* is ranked, for every text, size, overlap and separator hierarchy and    *)
(* for every ranking: ChunksCoverText and EvidenceIsRanked are invariants  *)
(* of Rag.                                                                 *)
(*                                                                         *)
(* The chunking is inductive once it says what is in the hands of the      *)
(* loops: the pieces, the current chunk and what is still to be split lie  *)
(* one behind the other in the text (Row), and together with the finished  *)
(* chunks they have all of its places (StageInv).  The answering is, once  *)
(* it says that what is fused is the fusion of the two rankings and where  *)
(* in the pool what a search found is (AnswerInv).                         *)
(***************************************************************************)
EXTENDS Rag, FiniteSetTheorems, SequenceTheorems, LeastElement

ChunkRecord == [text : Seq(Char), parent : Seq(Char)]

-----------------------------------------------------------------------------
(* Numbers and characters.                                                  *)

\* The least number of a set is in it.
LEMMA MinOf ==
  ASSUME NEW A \in SUBSET Nat, A # {}
  PROVE  Min(A) \in A /\ \A i \in A : Min(A) <= i
<1>1. PICK i \in A : \A j \in A : ~ (j < i)
  BY LeastNatural
<1>2. \A j \in A : i <= j
  BY <1>1
<1>3. QED
  BY <1>2 DEF Min

\* A bounded set of numbers has a largest one.
LEMMA MaxOf ==
  ASSUME NEW n \in Nat, NEW A \in SUBSET (0..n), A # {}
  PROVE  Max(A) \in A /\ \A i \in A : i <= Max(A)
<1> DEFINE B == {n - i : i \in A}
<1>1. B \in SUBSET Nat /\ B # {}
  <2>1. \A i \in A : n - i \in Nat
    OBVIOUS
  <2>2. QED
    BY <2>1
<1>2. PICK k \in B : \A j \in B : ~ (j < k)
  BY <1>1, LeastNatural
<1>3. PICK i \in A : k = n - i
  BY <1>2
<1>4. ASSUME NEW j \in A
      PROVE  j <= i
  <2>1. n - j \in B /\ ~ (n - j < n - i)
    BY <1>2, <1>3
  <2>2. i \in Int /\ j \in Int
    OBVIOUS
  <2>3. QED
    BY <2>1, <2>2
<1>5. QED
  BY <1>4 DEF Max

-----------------------------------------------------------------------------
(* Places of a text.                                                        *)

\* A place of a text is the position of a character with ink.
LEMMA PlaceOf ==
  ASSUME NEW s, NEW p
  PROVE  p \in Places(s) <=> \E i \in DOMAIN s : s[i][1] \in Ink /\ s[i][2] = p
  BY DEF Places

\* One text after another
LEMMA PlacesConcat ==
  ASSUME NEW s \in Seq(Char), NEW t \in Seq(Char)
  PROVE  /\ Places(s \o t) = Places(s) \cup Places(t)
         /\ Orderly(s) /\ Orderly(t) /\ Apart(Places(s), Places(t)) => Orderly(s \o t)
<1> DEFINE c == s \o t
<1>1. /\ c \in Seq(Char) /\ Len(c) = Len(s) + Len(t) /\ Len(s) \in Nat /\ Len(t) \in Nat
      /\ DOMAIN c = 1..(Len(s) + Len(t)) /\ DOMAIN s = 1..Len(s) /\ DOMAIN t = 1..Len(t)
      /\ \A i \in 1..Len(s) : c[i] = s[i]
      /\ \A i \in 1..Len(t) : c[Len(s) + i] = t[i]
      /\ \A i \in 1..(Len(s) + Len(t)) : i \in 1..Len(s) \/ (i - Len(s)) \in 1..Len(t)
  OBVIOUS
<1> HIDE DEF c
<1>2. ASSUME NEW p \in Places(c)
      PROVE  p \in Places(s) \cup Places(t)
  <2>1. PICK i \in DOMAIN c : c[i][1] \in Ink /\ c[i][2] = p
    BY PlaceOf
  <2>2. CASE i \in 1..Len(s)
    BY <2>1, <2>2, <1>1, PlaceOf
  <2>3. CASE (i - Len(s)) \in 1..Len(t)
    <3>1. c[i] = t[i - Len(s)]
      BY <2>3, <1>1
    <3>2. QED
      BY <2>1, <3>1, <2>3, <1>1, PlaceOf
  <2>4. QED
    BY <2>2, <2>3, <1>1
<1>3. ASSUME NEW p \in Places(s) \cup Places(t)
      PROVE  p \in Places(c)
  <2>1. CASE p \in Places(s)
    <3>1. PICK i \in DOMAIN s : s[i][1] \in Ink /\ s[i][2] = p
      BY PlaceOf, <2>1
    <3>2. i \in DOMAIN c /\ c[i] = s[i]
      BY <3>1, <1>1
    <3>3. QED
      BY <3>1, <3>2, PlaceOf
  <2>2. CASE p \in Places(t)
    <3>1. PICK i \in DOMAIN t : t[i][1] \in Ink /\ t[i][2] = p
      BY PlaceOf, <2>2
    <3>2. Len(s) + i \in DOMAIN c /\ c[Len(s) + i] = t[i]
      BY <3>1, <1>1
    <3>3. QED
      BY <3>1, <3>2, PlaceOf
  <2>3. QED
    BY <2>1, <2>2
<1>4. ASSUME Orderly(s), Orderly(t), Apart(Places(s), Places(t)),
             NEW i \in DOMAIN c, NEW j \in DOMAIN c, i < j, c[i][1] \in Ink, c[j][1] \in Ink
      PROVE  c[i][2] < c[j][2]
  <2>1. CASE j \in 1..Len(s)
    BY <2>1, <1>1, <1>4 DEF Orderly
  <2>2. CASE i \notin 1..Len(s)
    <3>1. /\ i - Len(s) \in 1..Len(t) /\ j - Len(s) \in 1..Len(t) /\ i - Len(s) < j - Len(s)
          /\ c[i] = t[i - Len(s)] /\ c[j] = t[j - Len(s)]
      BY <2>2, <1>1, <1>4
    <3>2. QED
      BY <3>1, <1>1, <1>4 DEF Orderly
  <2>3. CASE i \in 1..Len(s) /\ j \notin 1..Len(s)
    <3>1. j - Len(s) \in 1..Len(t) /\ c[j] = t[j - Len(s)] /\ c[i] = s[i]
      BY <2>3, <1>1, <1>4
    <3>2. c[i][2] \in Places(s) /\ c[j][2] \in Places(t)
      BY <3>1, <2>3, <1>1, <1>4, PlaceOf
    <3>3. QED
      BY <3>2, <1>4 DEF Apart
  <2>4. QED
    BY <2>1, <2>2, <2>3, <1>1
<1>5. Orderly(s) /\ Orderly(t) /\ Apart(Places(s), Places(t)) => Orderly(c)
  BY <1>4 DEF Orderly
<1>6. QED
  BY <1>2, <1>3, <1>5 DEF c

\* t is what s has from m to n.
IsPart(t, s, m, n) ==
  /\ t \in Seq(Char) /\ Len(t) = (IF m <= n THEN n - m + 1 ELSE 0)
  /\ DOMAIN t = 1..Len(t) /\ DOMAIN s = 1..Len(s) /\ Len(s) \in Nat
  /\ \A i \in DOMAIN t : t[i] = s[m + i - 1] /\ m + i - 1 \in m..n
  /\ \A i \in m..n : i \in DOMAIN s /\ i - m + 1 \in DOMAIN t /\ t[i - m + 1] = s[i]
  /\ Places(t) \subseteq Places(s)
  /\ Orderly(s) => Orderly(t)

\* A part of a text has some of its places, in their order.
LEMMA PartOf ==
  ASSUME NEW s \in Seq(Char), NEW m \in 1..(Len(s) + 1), NEW n \in 0..Len(s)
  PROVE  IsPart(SubSeq(s, m, n), s, m, n)
<1> DEFINE t == SubSeq(s, m, n)
<1>0. Len(s) \in Nat /\ DOMAIN s = 1..Len(s) /\ m \in Int /\ n \in Int
  OBVIOUS
<1>1. t \in Seq(Char) /\ Len(t) = (IF m <= n THEN n - m + 1 ELSE 0)
      /\ \A i \in 1..(n - m + 1) : t[i] = s[m + i - 1]
  <2>1. \A i \in m..n : i \in 1..Len(s)
    BY <1>0
  <2>2. CASE m <= n
    BY <1>0, <2>2
  <2>3. CASE n < m
    BY <1>0, <2>3
  <2> QED
    BY <1>0, <2>2, <2>3
<1>2. DOMAIN t = 1..Len(t) /\ Len(t) \in Nat
  BY <1>1
<1> HIDE DEF t
<1>3. \A i \in DOMAIN t : t[i] = s[m + i - 1] /\ m + i - 1 \in m..n
  BY <1>0, <1>1, <1>2
<1>4. \A i \in m..n : i \in DOMAIN s /\ i - m + 1 \in DOMAIN t /\ t[i - m + 1] = s[i]
  <2> SUFFICES ASSUME NEW i \in m..n
               PROVE  i \in DOMAIN s /\ i - m + 1 \in DOMAIN t /\ t[i - m + 1] = s[i]
    OBVIOUS
  <2>1. i \in Int /\ m <= i /\ i <= n /\ m <= n
    BY <1>0
  <2>2. i - m + 1 \in 1..(n - m + 1) /\ m + (i - m + 1) - 1 = i
    BY <2>1, <1>0
  <2>3. QED
    BY <2>1, <2>2, <1>0, <1>1, <1>2
<1>5. Places(t) \subseteq Places(s)
  <2> SUFFICES ASSUME NEW p \in Places(t)
               PROVE  p \in Places(s)
    OBVIOUS
  <2>1. PICK i \in DOMAIN t : t[i][1] \in Ink /\ t[i][2] = p
    BY PlaceOf
  <2>2. m + i - 1 \in DOMAIN s /\ t[i] = s[m + i - 1]
    BY <1>3, <1>4
  <2>3. QED
    BY <2>1, <2>2, PlaceOf
<1>6. ASSUME Orderly(s)
      PROVE  Orderly(t)
  <2> SUFFICES ASSUME NEW i \in DOMAIN t, NEW j \in DOMAIN t, i < j, t[i][1] \in Ink, t[j][1] \in Ink
               PROVE  t[i][2] < t[j][2]
    BY DEF Orderly
  <2>1. /\ m + i - 1 \in DOMAIN s /\ t[i] = s[m + i - 1]
        /\ m + j - 1 \in DOMAIN s /\ t[j] = s[m + j - 1]
    BY <1>3, <1>4
  <2>2. m + i - 1 < m + j - 1
    BY <1>0, <1>2
  <2>3. QED
    BY <2>1, <2>2, <1>6 DEF Orderly
<1>7. QED
  BY <1>0, <1>1, <1>2, <1>3, <1>4, <1>5, <1>6 DEF t, IsPart

\* A text is cut in two and what is between the parts has no ink.
LEMMA CutInTwo ==
  ASSUME NEW s \in Seq(Char), NEW m \in 0..Len(s), NEW n \in m..Len(s),
         \A i \in (m + 1)..n : s[i][1] \notin Ink
  PROVE  LET a == SubSeq(s, 1, m)  b == SubSeq(s, n + 1, Len(s))
         IN /\ Places(s) = Places(a) \cup Places(b)
            /\ Orderly(s) => Apart(Places(a), Places(b))
<1> DEFINE a == SubSeq(s, 1, m)  b == SubSeq(s, n + 1, Len(s))
<1>0. /\ Len(s) \in Nat /\ DOMAIN s = 1..Len(s) /\ m \in Int /\ n \in Int /\ m <= n /\ n <= Len(s) /\ 0 <= m
      /\ m \in 0..Len(s) /\ n + 1 \in 1..(Len(s) + 1) /\ 1 \in 1..(Len(s) + 1) /\ Len(s) \in 0..Len(s)
  OBVIOUS
<1> HIDE DEF a, b
<1>1. /\ \A i \in DOMAIN a : a[i] = s[i] /\ i \in 1..m
      /\ \A i \in 1..m : i \in DOMAIN s /\ i \in DOMAIN a /\ a[i] = s[i]
      /\ Places(a) \subseteq Places(s)
  <2>1. IsPart(a, s, 1, m)
    BY <1>0, PartOf DEF a
  <2>2. /\ \A i \in DOMAIN a : a[i] = s[1 + i - 1] /\ 1 + i - 1 \in 1..m
        /\ \A i \in 1..m : i \in DOMAIN s /\ i - 1 + 1 \in DOMAIN a /\ a[i - 1 + 1] = s[i]
        /\ Places(a) \subseteq Places(s)
        /\ DOMAIN a = 1..Len(a)
    BY <2>1 DEF IsPart
  <2>3. \A i \in DOMAIN a : i \in Int /\ 1 + i - 1 = i
    BY <2>2
  <2>4. \A i \in 1..m : i - 1 + 1 = i
    BY <1>0
  <2> QED
    BY <2>2, <2>3, <2>4
<1>2. /\ \A i \in DOMAIN b : b[i] = s[n + 1 + i - 1] /\ n + 1 + i - 1 \in (n + 1)..Len(s)
      /\ \A i \in (n + 1)..Len(s) : i \in DOMAIN s /\ i - (n + 1) + 1 \in DOMAIN b /\ b[i - (n + 1) + 1] = s[i]
      /\ Places(b) \subseteq Places(s)
  <2>1. IsPart(b, s, n + 1, Len(s))
    BY <1>0, PartOf DEF b
  <2>2. QED
    BY <2>1 DEF IsPart
<1>3. ASSUME NEW p \in Places(s)
      PROVE  p \in Places(a) \cup Places(b)
  <2>1. PICK i \in DOMAIN s : s[i][1] \in Ink /\ s[i][2] = p
    BY PlaceOf
  <2>2. i \in 1..m \/ i \in (n + 1)..Len(s)
    <3>1. i \notin (m + 1)..n
      BY <2>1
    <3>2. QED
      BY <3>1, <1>0
  <2>3. CASE i \in 1..m
    BY <2>1, <2>3, <1>1, PlaceOf
  <2>4. CASE i \in (n + 1)..Len(s)
    BY <2>1, <2>4, <1>2, PlaceOf
  <2>5. QED
    BY <2>2, <2>3, <2>4
<1>4. ASSUME Orderly(s), NEW p \in Places(a), NEW q \in Places(b)
      PROVE  p < q
  <2>1. PICK i \in DOMAIN a : a[i][1] \in Ink /\ a[i][2] = p
    BY PlaceOf
  <2>2. PICK j \in DOMAIN b : b[j][1] \in Ink /\ b[j][2] = q
    BY PlaceOf
  <2> DEFINE k == n + 1 + j - 1
  <2>3. k \in (n + 1)..Len(s) /\ b[j] = s[k]
    BY <1>2
  <2> HIDE DEF k
  <2>4. i \in DOMAIN s /\ k \in DOMAIN s /\ i < k /\ a[i] = s[i]
    BY <2>3, <1>0, <1>1, <1>2
  <2>5. QED
    BY <2>1, <2>2, <2>3, <2>4, <1>4 DEF Orderly
<1>5. QED
  BY <1>1, <1>2, <1>3, <1>4 DEF a, b, Apart

\* The end of a text holds all that comes after any place of it.
LEMMA EndOf ==
  ASSUME NEW s \in Seq(Char), Orderly(s), NEW m \in 1..(Len(s) + 1)
  PROVE  \A i \in Places(SubSeq(s, m, Len(s))), j \in Places(s) :
           i < j => j \in Places(SubSeq(s, m, Len(s)))
<1>1. /\ Len(s) \in Nat /\ m - 1 \in 0..Len(s) /\ m - 1 \in (m - 1)..Len(s) /\ (m - 1) + 1 = m
      /\ \A i \in ((m - 1) + 1)..(m - 1) : s[i][1] \notin Ink
  OBVIOUS
<1> DEFINE a == SubSeq(s, 1, m - 1)  b == SubSeq(s, m, Len(s))
<1>2. Places(s) = Places(a) \cup Places(b) /\ Apart(Places(a), Places(b))
  BY <1>1, CutInTwo
<1> HIDE DEF a
<1>3. Places(b) \subseteq Nat /\ Places(a) \subseteq Nat
  <2>1. Places(s) \subseteq Nat
    BY DEF Places, Char
  <2>2. QED
    BY <2>1, <1>2
<1> HIDE DEF b
<1>4. \A i \in Places(b), j \in Places(s) : i < j => j \in Places(b)
  BY <1>2, <1>3 DEF Apart
<1>5. QED
  BY <1>4 DEF b

\* A blank text has no place.
LEMMA BlankHasNone ==
  ASSUME NEW s, IsBlank(s)
  PROVE  Places(s) = {} /\ Orderly(s)
  BY DEF IsBlank, Places, Ink, Orderly

\* Nor has the empty one.
LEMMA EmptyHasNone == IsBlank(<<>>) /\ Places(<<>>) = {} /\ Orderly(<<>>)
<1>1. IsBlank(<<>>)
  BY DEF IsBlank
<1>2. QED
  BY <1>1, BlankHasNone

\* strip() takes no ink away.
LEMMA StripKeeps ==
  ASSUME NEW s \in Seq(Char)
  PROVE  /\ Strip(s) \in Seq(Char) /\ Len(Strip(s)) \in Nat /\ Len(Strip(s)) <= Len(s)
         /\ Places(Strip(s)) = Places(s)
         /\ Orderly(s) => Orderly(Strip(s))
         /\ ~IsBlank(s) => ~IsBlank(Strip(s))
         /\ Strip(s) # <<>> => Strip(s)[1][1] \notin Blank
         /\ \A i \in DOMAIN Strip(s) : \E j \in DOMAIN s : Strip(s)[i] = s[j]
<1>1. CASE IsBlank(s)
  <2>1. Strip(s) = <<>> /\ <<>> \in Seq(Char) /\ Len(<<>>) = 0 /\ DOMAIN <<>> = {} /\ 0 <= Len(s)
    BY <1>1 DEF Strip
  <2>2. QED
    BY <2>1, <1>1, BlankHasNone, EmptyHasNone
<1>2. CASE ~IsBlank(s)
  <2> DEFINE A == {i \in DOMAIN s : s[i][1] \notin Blank}  m == Min(A)  n == Max(A)  t == SubSeq(s, m, n)
  <2>0. Len(s) \in Nat /\ DOMAIN s = 1..Len(s) /\ Strip(s) = t
    <3>1. Strip(s) = t
      BY <1>2, Zenon DEF Strip
    <3>2. Len(s) \in Nat /\ DOMAIN s = 1..Len(s)
      OBVIOUS
    <3>3. QED
      BY <3>1, <3>2
  <2>1. A # {} /\ A \in SUBSET Nat /\ A \in SUBSET (0..Len(s))
    BY <2>0, <1>2 DEF IsBlank
  <2>2. m \in A /\ \A i \in A : m <= i
    BY <2>1, MinOf
  <2>3. n \in A /\ \A i \in A : i <= n
    BY <2>0, <2>1, MaxOf
  <2> HIDE DEF m, n, t
  <2>4. /\ m \in 1..(Len(s) + 1) /\ n \in 0..Len(s) /\ m <= n /\ m \in m..n /\ n \in m..n
        /\ m \in Nat /\ n \in Nat
    BY <2>0, <2>2, <2>3
  <2>5. IsPart(t, s, m, n)
    BY <2>4, PartOf DEF t
  <2>6. /\ \A i \in m..n : i \in DOMAIN s /\ i - m + 1 \in DOMAIN t /\ t[i - m + 1] = s[i]
        /\ \A i \in DOMAIN t : t[i] = s[m + i - 1] /\ m + i - 1 \in m..n
    BY <2>5 DEF IsPart
  <2>7. m - m + 1 = 1 /\ t[1] = s[m] /\ 1 \in DOMAIN t
    <3>1. m - m + 1 = 1
      BY <2>4
    <3>2. m - m + 1 \in DOMAIN t /\ t[m - m + 1] = s[m]
      BY <2>4, <2>6
    <3>3. QED
      BY <3>1, <3>2
  <2>8. t[1][1] \notin Blank /\ ~IsBlank(t)
    BY <2>2, <2>7 DEF IsBlank
  <2>9. Places(s) \subseteq Places(t)
    <3> SUFFICES ASSUME NEW p \in Places(s)
                 PROVE  p \in Places(t)
      OBVIOUS
    <3>1. PICK i \in DOMAIN s : s[i][1] \in Ink /\ s[i][2] = p
      BY PlaceOf
    <3>2. i \in A
      BY <3>1 DEF Ink
    <3>3. i \in m..n
      BY <3>2, <2>0, <2>2, <2>3, <2>4
    <3>4. QED
      BY <3>1, <3>3, <2>6, PlaceOf
  <2>10. \A i \in DOMAIN t : \E j \in DOMAIN s : t[i] = s[j]
    BY <2>6
  <2>11. /\ t \in Seq(Char) /\ Len(t) \in Nat /\ Len(t) <= Len(s) /\ Places(t) \subseteq Places(s)
         /\ Orderly(s) => Orderly(t)
    <3>1. t \in Seq(Char) /\ Len(t) = n - m + 1 /\ Places(t) \subseteq Places(s) /\ (Orderly(s) => Orderly(t))
      BY <2>4, <2>5 DEF IsPart
    <3>2. QED
      BY <3>1, <2>0, <2>4
  <2>12. QED
    BY <2>0, <2>8, <2>9, <2>10, <2>11
<1>3. QED
  BY <1>1, <1>2

\* Putting a separator back adds no ink.
LEMMA RejoinedKeeps ==
  ASSUME NEW l \in DOMAIN Separators, NEW part \in Seq(Char)
  PROVE  LET r == Rejoined(part, Separators[l])
         IN /\ r \in Seq(Char) /\ Places(r) = Places(part)
            /\ Orderly(part) => Orderly(r)
            /\ Separators[l] = <<>> => r = part
<1> DEFINE sep == Separators[l]  tail == [k \in DOMAIN sep |-> <<sep[k], 0>>]
<1>1. sep \in Seq(Kinds)
  <2>1. Separators \in Seq(Seq(Kinds))
    BY ChunkingAssumption
  <2>2. QED
    BY <2>1
<1>2. DOMAIN sep = 1..Len(sep) /\ Len(sep) \in Nat /\ \A k \in DOMAIN sep : sep[k] \in Kinds
  BY <1>1
<1>3. tail \in Seq(Char) /\ Len(tail) = Len(sep)
  <2>1. \A k \in DOMAIN sep : <<sep[k], 0>> \in Char
    BY <1>2 DEF Char
  <2>2. QED
    BY <1>2, <2>1
<1>4. \A k \in DOMAIN tail : tail[k][1] \notin Ink
  <2>1. \A k \in DOMAIN sep : sep[k] \notin Ink
    BY DEF Ink, Range
  <2>2. QED
    BY <2>1
<1>5. Places(tail) = {} /\ Orderly(tail)
  BY <1>4 DEF Places, Orderly
<1> HIDE DEF tail
<1>6. CASE part = <<>>
  BY <1>6 DEF Rejoined
<1>7. CASE part # <<>>
  <2>1. Rejoined(part, sep) = part \o tail
    BY <1>7 DEF Rejoined, tail
  <2>2. Apart(Places(part), Places(tail))
    BY <1>5 DEF Apart
  <2>3. sep = <<>> => part \o tail = part
    <3>1. sep = <<>> => tail = <<>>
      BY <1>2, <1>3
    <3>2. part \o <<>> = part
      OBVIOUS
    <3>3. QED
      BY <3>1, <3>2
  <2>4. part \o tail \in Seq(Char)
    BY <1>3
  <2>5. Places(part \o tail) = Places(part) /\ (Orderly(part) => Orderly(part \o tail))
    <3>1. /\ Places(part \o tail) = Places(part) \cup Places(tail)
          /\ Orderly(part) /\ Orderly(tail) /\ Apart(Places(part), Places(tail)) => Orderly(part \o tail)
      BY <1>3, PlacesConcat
    <3>2. QED
      BY <3>1, <2>2, <1>5
  <2>6. QED
    BY <2>1, <2>3, <2>4, <2>5
<1>8. QED
  BY <1>6, <1>7

\* The next part and what is left have all the ink of the text.
LEMMA CutsPart ==
  ASSUME NEW l \in DOMAIN Separators, NEW t \in Seq(Char), Separators[l] = <<>> => t # <<>>
  PROVE  LET sep == Separators[l]
             a == NextPart(t, sep)
             b == IF IsLast(t, sep) THEN <<>> ELSE AfterPart(t, sep)
         IN /\ a \in Seq(Char) /\ b \in Seq(Char)
            /\ Places(t) = Places(a) \cup Places(b)
            /\ Orderly(t) => Orderly(a) /\ Orderly(b) /\ Apart(Places(a), Places(b))
            /\ sep = <<>> => Len(a) = 1 /\ (~IsLast(t, sep) => b # <<>>)
<1> DEFINE sep == Separators[l]  n == PartLen(t, sep)  e == n + Len(sep)
<1>0. sep \in Seq(Kinds) /\ Len(sep) \in Nat /\ DOMAIN sep = 1..Len(sep) /\ Len(t) \in Nat
      /\ (sep # <<>> => Len(sep) > 0) /\ (t # <<>> => Len(t) > 0) /\ (sep = <<>> => Len(sep) = 0)
  <2>1. Separators \in Seq(Seq(Kinds))
    BY ChunkingAssumption
  <2>2. sep \in Seq(Kinds)
    BY <2>1
  <2>3. QED
    BY <2>2
<1>00. sep = <<>> => t # <<>>
  OBVIOUS
<1> HIDE DEF sep, n, e
<1>1. ASSUME NEW i \in 1..Len(t), NEW k \in DOMAIN sep, t[i][1] = sep[k]
      PROVE  t[i][1] \notin Ink
  BY <1>1 DEF Ink, Range, sep
<1>2. /\ n \in 0..Len(t)
      /\ IsLast(t, sep) => n = Len(t)
      /\ ~IsLast(t, sep) => e \in n..Len(t) /\ \A i \in (n + 1)..e : t[i][1] \notin Ink
      /\ sep = <<>> => n = 1 /\ e = 1 /\ n \in 1..Len(t)
  <2>1. CASE sep = <<>>
    <3>1. n = 1 /\ e = 1 /\ (IsLast(t, sep) => Len(t) = 1)
      BY <2>1, <1>0 DEF n, e, PartLen, IsLast
    <3>2. QED
      BY <2>1, <3>1, <1>0, <1>00
  <2>2. CASE sep # <<>> /\ Matches(t, sep) = {}
    <3>1. n = Len(t) /\ IsLast(t, sep)
      BY <2>2 DEF n, PartLen, IsLast
    <3>2. QED
      BY <2>2, <3>1, <1>0
  <2>3. CASE sep # <<>> /\ Matches(t, sep) # {}
    <3> DEFINE m == Min(Matches(t, sep))
    <3>1. n = m - 1 /\ ~IsLast(t, sep) /\ e = n + Len(sep)
      BY <2>3 DEF n, e, PartLen, IsLast
    <3>2. Matches(t, sep) \in SUBSET Nat
      BY <1>0 DEF Matches
    <3>3. m \in Matches(t, sep)
      BY <2>3, <3>2, MinOf
    <3> HIDE DEF m
    <3>4. m \in 1..(Len(t) - Len(sep) + 1) /\ \A k \in DOMAIN sep : t[m + k - 1][1] = sep[k]
      BY <3>3 DEF Matches
    <3>5. n \in Nat /\ e \in Nat /\ n < e /\ e <= Len(t)
      BY <2>3, <3>1, <3>4, <1>0
    <3>6. m \in Nat /\ n + 1 = m
      BY <3>1, <3>4
    <3>7. ASSUME NEW i \in (n + 1)..e
          PROVE  t[i][1] \notin Ink
      <4>0. i \in Int /\ n + 1 <= i /\ i <= n + Len(sep)
        BY <3>1, <3>5, <1>0
      <4>1. i - n \in DOMAIN sep /\ m + (i - n) - 1 = i /\ i \in 1..Len(t)
        BY <4>0, <3>1, <3>5, <3>6, <1>0
      <4>2. t[i][1] = sep[i - n]
        BY <3>4, <4>1
      <4>3. QED
        BY <4>1, <4>2, <1>1
    <3>8. QED
      BY <2>3, <3>1, <3>5, <3>7, <1>0
  <2>4. QED
    BY <2>1, <2>2, <2>3
<1> DEFINE a == NextPart(t, sep)  b == AfterPart(t, sep)
<1>3. IsPart(a, t, 1, n)
  BY <1>0, <1>2, PartOf DEF NextPart, n
<1>4. /\ a \in Seq(Char) /\ Len(a) = (IF 1 <= n THEN n - 1 + 1 ELSE 0) /\ (Orderly(t) => Orderly(a))
      /\ Places(a) \subseteq Places(t)
      /\ \A i \in DOMAIN a : a[i] = t[1 + i - 1] /\ 1 + i - 1 \in 1..n
  BY <1>3 DEF IsPart
<1>5. sep = <<>> => Len(a) = 1
  BY <1>2, <1>4
<1>6. CASE IsLast(t, sep)
  <2>1. a = SubSeq(t, 1, Len(t))
    BY <1>2, <1>6 DEF NextPart, n
  <2>2. a = t
    BY <2>1, SubSeqFull
  <2>3. Apart(Places(a), Places(<<>>)) /\ <<>> \in Seq(Char)
    BY EmptyHasNone DEF Apart
  <2>4. QED
    BY <2>2, <2>3, <1>5, <1>6, EmptyHasNone DEF sep
<1>7. CASE ~IsLast(t, sep)
  <2>1. e \in n..Len(t) /\ \A i \in (n + 1)..e : t[i][1] \notin Ink
    BY <1>2, <1>7
  <2>2. a = SubSeq(t, 1, n) /\ b = SubSeq(t, e + 1, Len(t))
    BY DEF NextPart, AfterPart, n, e
  <2>3. Places(t) = Places(a) \cup Places(b) /\ (Orderly(t) => Apart(Places(a), Places(b)))
    BY <2>1, <2>2, <1>2, CutInTwo
  <2>4. e + 1 \in 1..(Len(t) + 1) /\ Len(t) \in 0..Len(t) /\ e \in Nat
    BY <2>1, <1>0, <1>2
  <2>5. IsPart(b, t, e + 1, Len(t))
    BY <2>2, <2>4, PartOf
  <2>6. /\ b \in Seq(Char) /\ (Orderly(t) => Orderly(b))
        /\ Len(b) = (IF e + 1 <= Len(t) THEN Len(t) - (e + 1) + 1 ELSE 0)
    BY <2>5 DEF IsPart
  <2> HIDE DEF a, b
  <2>7. sep = <<>> => b # <<>>
    <3> SUFFICES ASSUME sep = <<>>
                 PROVE  b # <<>>
      OBVIOUS
    <3>1. e = 1 /\ Len(t) # 1 /\ Len(t) >= 1
      BY <1>2, <1>7, <1>0, <1>00 DEF IsLast
    <3>2. e + 1 <= Len(t) /\ Len(t) - (e + 1) + 1 > 0
      <4>1. \A k \in Nat : k # 1 /\ k >= 1 => 1 + 1 <= k /\ k - (1 + 1) + 1 > 0
        OBVIOUS
      <4>2. Len(t) \in Nat
        BY <1>0
      <4>3. QED
        BY <4>1, <4>2, <3>1
    <3>3. Len(b) = Len(t) - (e + 1) + 1
      BY <3>2, <2>6
    <3>4. Len(<<>>) = 0
      OBVIOUS
    <3>5. QED
      BY <3>2, <3>3, <3>4
  <2>8. QED
    BY <2>3, <2>6, <2>7, <1>4, <1>5, <1>7 DEF sep, a, b
<1>8. QED
  BY <1>6, <1>7

\* What a page says, with its places
LEMMA MarkedText ==
  ASSUME NEW t \in Seq(Kinds)
  PROVE  /\ Marked(t) \in Seq(Char) /\ Orderly(Marked(t))
         /\ \A i \in DOMAIN Marked(t) : Marked(t)[i][2] > 0
<1>1. DOMAIN t = 1..Len(t) /\ Len(t) \in Nat /\ \A i \in DOMAIN t : t[i] \in Kinds
  OBVIOUS
<1>2. \A i \in DOMAIN t : <<t[i], i>> \in Char /\ i > 0
  BY <1>1 DEF Char
<1>3. QED
  BY <1>1, <1>2 DEF Marked, Orderly

-----------------------------------------------------------------------------
(* Texts that lie one after the other.                                      *)

Row(ss) ==
  /\ \A i \in DOMAIN ss : Orderly(ss[i])
  /\ \A i, j \in DOMAIN ss : i < j => Apart(Places(ss[i]), Places(ss[j]))

\* No text is a row of texts.
LEMMA RowOfNone == Row(<<>>) /\ Covered(<<>>) = {}
  BY DEF Row, Covered

\* A row without its first text
LEMMA RowTail ==
  ASSUME NEW ss \in Seq(Seq(Char)), ss # <<>>
  PROVE  /\ Tail(ss) \in Seq(Seq(Char)) /\ Head(ss) \in Seq(Char)
         /\ Covered(ss) = Places(Head(ss)) \cup Covered(Tail(ss))
         /\ Row(ss) => /\ Row(Tail(ss)) /\ Orderly(Head(ss))
                       /\ Apart(Places(Head(ss)), Covered(Tail(ss)))
<1> DEFINE t == Tail(ss)
<1>1. /\ Len(ss) \in Nat /\ DOMAIN ss = 1..Len(ss) /\ t \in Seq(Seq(Char)) /\ Len(t) = Len(ss) - 1
      /\ DOMAIN t = 1..Len(t) /\ Head(ss) = ss[1] /\ ss[1] \in Seq(Char) /\ 1 \in DOMAIN ss
      /\ \A i \in DOMAIN t : t[i] = ss[i + 1] /\ i + 1 \in DOMAIN ss
  OBVIOUS
<1> HIDE DEF t
<1>2. \A i \in DOMAIN ss : i = 1 \/ (i - 1 \in DOMAIN t /\ t[i - 1] = ss[i])
  <2> SUFFICES ASSUME NEW i \in DOMAIN ss, i # 1
               PROVE  i - 1 \in DOMAIN t /\ t[i - 1] = ss[i]
    OBVIOUS
  <2>1. i - 1 \in DOMAIN t /\ (i - 1) + 1 = i
    BY <1>1
  <2>2. QED
    BY <2>1, <1>1
<1>3. Covered(ss) = Places(Head(ss)) \cup Covered(t)
  <2>1. ASSUME NEW p \in Covered(ss)
        PROVE  p \in Places(ss[1]) \cup Covered(t)
    BY <1>2 DEF Covered
  <2>2. ASSUME NEW p \in Places(ss[1]) \cup Covered(t)
        PROVE  p \in Covered(ss)
    BY <1>1 DEF Covered
  <2>3. QED
    BY <2>1, <2>2, <1>1
<1>4. ASSUME Row(ss)
      PROVE  Row(t) /\ Orderly(ss[1]) /\ Apart(Places(ss[1]), Covered(t))
  <2>1. \A i \in DOMAIN t : Orderly(t[i])
    BY <1>1, <1>4 DEF Row
  <2>2. ASSUME NEW i \in DOMAIN t, NEW j \in DOMAIN t, i < j
        PROVE  Apart(Places(t[i]), Places(t[j]))
    <3>1. i + 1 \in DOMAIN ss /\ j + 1 \in DOMAIN ss /\ i + 1 < j + 1 /\ t[i] = ss[i + 1] /\ t[j] = ss[j + 1]
      BY <1>1, <2>2
    <3>2. QED
      BY <3>1, <1>4 DEF Row
  <2>3. ASSUME NEW i \in DOMAIN t
        PROVE  Apart(Places(ss[1]), Places(t[i]))
    <3>1. i + 1 \in DOMAIN ss /\ 1 < i + 1 /\ t[i] = ss[i + 1]
      BY <1>1
    <3>2. QED
      BY <3>1, <1>1, <1>4 DEF Row
  <2>4. Apart(Places(ss[1]), Covered(t))
    BY <2>3 DEF Apart, Covered
  <2>5. QED
    BY <2>1, <2>2, <2>4, <1>1, <1>4 DEF Row
<1>5. QED
  BY <1>1, <1>3, <1>4 DEF t

\* A row that a text is put behind
LEMMA RowAppend ==
  ASSUME NEW ss \in Seq(Seq(Char)), NEW t \in Seq(Char)
  PROVE  /\ Append(ss, t) \in Seq(Seq(Char))
         /\ Covered(Append(ss, t)) = Covered(ss) \cup Places(t)
         /\ Row(ss) /\ Orderly(t) /\ Apart(Covered(ss), Places(t)) => Row(Append(ss, t))
<1> DEFINE a == Append(ss, t)  n == Len(ss) + 1
<1>1. /\ Len(ss) \in Nat /\ DOMAIN ss = 1..Len(ss) /\ a \in Seq(Seq(Char)) /\ DOMAIN a = 1..n
      /\ a[n] = t /\ \A i \in DOMAIN ss : a[i] = ss[i] /\ i \in DOMAIN a /\ i < n
      /\ \A i \in DOMAIN a : i = n \/ i \in DOMAIN ss
      /\ n \in DOMAIN a
  OBVIOUS
<1> HIDE DEF a, n
<1>2. Covered(a) = Covered(ss) \cup Places(t)
  BY <1>1 DEF Covered
<1>3. ASSUME Row(ss), Orderly(t), Apart(Covered(ss), Places(t))
      PROVE  Row(a)
  <2>1. \A i \in DOMAIN a : Orderly(a[i])
    BY <1>1, <1>3 DEF Row
  <2>2. ASSUME NEW i \in DOMAIN a, NEW j \in DOMAIN a, i < j
        PROVE  Apart(Places(a[i]), Places(a[j]))
    <3>1. CASE j \in DOMAIN ss
      <4>1. i \in DOMAIN ss
        BY <1>1, <2>2, <3>1
      <4>2. QED
        BY <4>1, <1>1, <1>3, <2>2, <3>1 DEF Row
    <3>2. CASE j = n
      <4>1. i \in DOMAIN ss
        BY <1>1, <2>2, <3>2
      <4>2. a[i] = ss[i] /\ a[j] = t
        BY <4>1, <1>1, <3>2
      <4>3. QED
        BY <4>1, <4>2, <1>3 DEF Apart, Covered
    <3>3. QED
      BY <3>1, <3>2, <1>1
  <2>3. QED
    BY <2>1, <2>2 DEF Row
<1>4. QED
  BY <1>1, <1>2, <1>3 DEF a

\* A row that a text is put before
LEMMA RowPush ==
  ASSUME NEW ss \in Seq(Seq(Char)), NEW t \in Seq(Char)
  PROVE  /\ <<t>> \o ss \in Seq(Seq(Char))
         /\ Covered(<<t>> \o ss) = Places(t) \cup Covered(ss)
         /\ Row(ss) /\ Orderly(t) /\ Apart(Places(t), Covered(ss)) => Row(<<t>> \o ss)
<1> DEFINE a == <<t>> \o ss
<1>1. /\ Len(ss) \in Nat /\ DOMAIN ss = 1..Len(ss) /\ a \in Seq(Seq(Char))
      /\ DOMAIN a = 1..(Len(ss) + 1) /\ a[1] = t /\ 1 \in DOMAIN a
      /\ \A i \in DOMAIN ss : a[i + 1] = ss[i] /\ i + 1 \in DOMAIN a
  OBVIOUS
<1> HIDE DEF a
<1>2. \A i \in DOMAIN a : i = 1 \/ (i - 1 \in DOMAIN ss /\ a[i] = ss[i - 1])
  <2> SUFFICES ASSUME NEW i \in DOMAIN a, i # 1
               PROVE  i - 1 \in DOMAIN ss /\ a[i] = ss[i - 1]
    OBVIOUS
  <2>1. i - 1 \in DOMAIN ss /\ (i - 1) + 1 = i
    BY <1>1
  <2>2. QED
    BY <2>1, <1>1
<1>3. Covered(a) = Places(t) \cup Covered(ss)
  <2>1. ASSUME NEW p \in Covered(a)
        PROVE  p \in Places(t) \cup Covered(ss)
    BY <1>1, <1>2 DEF Covered
  <2>2. ASSUME NEW p \in Places(t) \cup Covered(ss)
        PROVE  p \in Covered(a)
    BY <1>1 DEF Covered
  <2>3. QED
    BY <2>1, <2>2
<1>4. ASSUME Row(ss), Orderly(t), Apart(Places(t), Covered(ss))
      PROVE  Row(a)
  <2>1. \A i \in DOMAIN a : Orderly(a[i])
    BY <1>1, <1>2, <1>4 DEF Row
  <2>2. ASSUME NEW i \in DOMAIN a, NEW j \in DOMAIN a, i < j
        PROVE  Apart(Places(a[i]), Places(a[j]))
    <3>1. j - 1 \in DOMAIN ss /\ a[j] = ss[j - 1]
      BY <1>1, <1>2, <2>2
    <3>2. CASE i = 1
      BY <3>1, <3>2, <1>1, <1>4 DEF Apart, Covered
    <3>3. CASE i # 1
      <4>1. i - 1 \in DOMAIN ss /\ a[i] = ss[i - 1] /\ i - 1 < j - 1
        BY <1>1, <1>2, <2>2, <3>3
      <4>2. QED
        BY <4>1, <3>1, <1>4 DEF Row
    <3>4. QED
      BY <3>2, <3>3
  <2>3. QED
    BY <2>1, <2>2 DEF Row
<1>5. QED
  BY <1>1, <1>3, <1>4 DEF a

\* The texts of what _split has before it
TextsOf(ws) == [i \in DOMAIN ws |-> ws[i].text]

\* The texts of what a call is put before, or the first is taken from
LEMMA TextsOfWork ==
  ASSUME NEW ws \in Seq(Item)
  PROVE  /\ TextsOf(ws) \in Seq(Seq(Char))
         /\ ws # <<>> => /\ TextsOf(ws) # <<>> /\ Head(TextsOf(ws)) = Head(ws).text
                         /\ Tail(TextsOf(ws)) = TextsOf(Tail(ws))
         /\ \A w \in Item : TextsOf(<<w>> \o ws) = <<w.text>> \o TextsOf(ws)
<1> DEFINE t == TextsOf(ws)
<1>1. \A w \in Item : w.text \in Seq(Char)
  BY DEF Item
<1>2. t \in Seq(Seq(Char)) /\ Len(t) = Len(ws) /\ \A i \in 1..Len(ws) : t[i] = ws[i].text
  BY <1>1 DEF TextsOf
<1> HIDE DEF t
<1>3. ASSUME ws # <<>>
      PROVE  t # <<>> /\ Head(t) = Head(ws).text /\ Tail(t) = TextsOf(Tail(ws))
  <2>1. Len(ws) \in Nat \ {0} /\ Tail(ws) \in Seq(Item) /\ Len(Tail(ws)) = Len(ws) - 1 /\ Head(ws) = ws[1]
        /\ \A i \in 1..(Len(ws) - 1) : Tail(ws)[i] = ws[i + 1]
    BY <1>3
  <2>2. t # <<>> /\ Head(t) = t[1] /\ Tail(t) \in Seq(Seq(Char)) /\ Len(Tail(t)) = Len(ws) - 1
        /\ \A i \in 1..(Len(ws) - 1) : Tail(t)[i] = t[i + 1]
    BY <1>2, <2>1
  <2>3. \A i \in 1..(Len(ws) - 1) : i + 1 \in 1..Len(ws) /\ Tail(t)[i] = Tail(ws)[i].text
    BY <2>1, <2>2, <1>2
  <2>4. TextsOf(Tail(ws)) \in Seq(Seq(Char)) /\ Len(TextsOf(Tail(ws))) = Len(ws) - 1
        /\ \A i \in 1..(Len(ws) - 1) : TextsOf(Tail(ws))[i] = Tail(ws)[i].text
    BY <2>1, <1>1 DEF TextsOf
  <2>5. Tail(t) = TextsOf(Tail(ws))
    BY <2>2, <2>3, <2>4, SeqEqual
  <2>6. QED
    BY <1>2, <2>1, <2>2, <2>5
<1>4. ASSUME NEW w \in Item
      PROVE  TextsOf(<<w>> \o ws) = <<w.text>> \o t
  <2>1. /\ <<w>> \o ws \in Seq(Item) /\ Len(<<w>> \o ws) = Len(ws) + 1 /\ (<<w>> \o ws)[1] = w /\ Len(ws) \in Nat
        /\ \A i \in 2..(Len(ws) + 1) : (<<w>> \o ws)[i] = ws[i - 1]
    OBVIOUS
  <2>2. /\ <<w.text>> \o t \in Seq(Seq(Char)) /\ Len(<<w.text>> \o t) = Len(ws) + 1 /\ (<<w.text>> \o t)[1] = w.text
        /\ \A i \in 2..(Len(ws) + 1) : (<<w.text>> \o t)[i] = t[i - 1]
    BY <1>1, <1>2
  <2>3. TextsOf(<<w>> \o ws) \in Seq(Seq(Char)) /\ Len(TextsOf(<<w>> \o ws)) = Len(ws) + 1
        /\ \A i \in 1..(Len(ws) + 1) : TextsOf(<<w>> \o ws)[i] = (<<w>> \o ws)[i].text
    BY <1>1, <2>1 DEF TextsOf
  <2>4. ASSUME NEW i \in 1..(Len(ws) + 1)
        PROVE  TextsOf(<<w>> \o ws)[i] = (<<w.text>> \o t)[i]
    <3>1. CASE i = 1
      BY <3>1, <2>1, <2>2, <2>3
    <3>2. CASE i # 1
      <4>1. i \in 2..(Len(ws) + 1) /\ i - 1 \in 1..Len(ws)
        BY <2>1, <3>2
      <4>2. QED
        BY <4>1, <2>1, <2>2, <2>3, <1>2
    <3>3. QED
      BY <3>1, <3>2
  <2>5. QED
    BY <2>2, <2>3, <2>4, SeqEqual
<1>5. QED
  BY <1>2, <1>3, <1>4 DEF t

-----------------------------------------------------------------------------
(* The inductive invariant of the chunking.                                 *)

\* A stretch of a text whose places are p
Found(c, p) == ~IsBlank(c) /\ Orderly(c) /\ Places(c) \subseteq p /\ Unbroken(Places(c), p)

ChunkInv ==
  \A k \in DOMAIN chunks :
    /\ Found(chunks[k].text, Places(text)) /\ Len(chunks[k].text) <= Longest(chunks[k])
    /\ Places(chunks[k].text) \subseteq Places(chunks[k].parent)
    /\ \A n \in 1..(k - 1) : Leads(Places(chunks[n].text), Places(chunks[k].text))

Had == UNION {Places(chunks[k].text) : k \in DOMAIN chunks}

\* What recursive_chunks is cutting
Source == IF parents = <<>> THEN text ELSE Head(parents)

\* A text that no separator is more for has one character.
WorkOf(w) ==
  /\ w.level \in 1..(Len(Separators) + 1)
  /\ w.level > Len(Separators) => Len(w.text) <= 1 /\ ~w.open
  /\ w.open /\ Separators[w.level] = <<>> => w.text # <<>>

\* _split loses no place and disturbs no order, and all it leaves is short.
SplitInv ==
  /\ merged = <<>> /\ current = <<>>
  /\ Row(pieces) /\ Row(TextsOf(work)) /\ Apart(Covered(pieces), Covered(TextsOf(work)))
  /\ Covered(pieces) \cup Covered(TextsOf(work)) = Places(Source)
  /\ \A i \in DOMAIN work : WorkOf(work[i])
  /\ \A i \in DOMAIN pieces : Len(pieces[i]) <= size

Taken == Places(Source) \ Covered(pieces)

\* A finished chunk m and what is filled after it
Precedes(m, s) == Leads(Places(m), Places(s)) /\ (overlap = 0 => Apart(Places(m), Places(s)))

MergedOf(m) ==
  Found(m, Places(Source)) /\ Len(m) <= size + overlap /\ Places(m) \subseteq Taken

\* The current chunk is the last stretch of what is taken.
PackInv ==
  /\ work = <<>>
  /\ Row(pieces) /\ Covered(pieces) \subseteq Places(Source) /\ Apart(Taken, Covered(pieces))
  /\ \A i \in DOMAIN pieces : Len(pieces[i]) <= size
  /\ Orderly(current) /\ Places(current) \subseteq Taken /\ Len(current) <= size + overlap
  /\ \A i \in Places(current), j \in Taken : i < j => j \in Places(current)
  /\ Taken \subseteq Places(current) \cup Covered(merged)
  /\ \A k \in DOMAIN merged :
       /\ MergedOf(merged[k])
       /\ Precedes(merged[k], current)
       /\ \A n \in 1..(k - 1) : Precedes(merged[n], merged[k])

\* The parents lie one after the other, and after the children made so far.
ParentInv ==
  /\ Row(parents)
  /\ \A i \in DOMAIN parents : Found(parents[i], Places(text))
  /\ Apart(Had, Covered(parents))
  /\ IF parents = <<>> THEN chunks = <<>> /\ (strategy = "parent_child" => overlap = 0)
     ELSE /\ strategy = "parent_child" /\ size = ChildSize /\ overlap = ChildOverlap
          /\ Places(text) \subseteq Had \cup Covered(parents)

WindowInv ==
  /\ parents = <<>>
  /\ Orderly(rest) /\ Places(rest) \subseteq Places(text)
  /\ \A i \in Places(rest), j \in Places(text) : i < j => j \in Places(rest)
  /\ Places(text) \subseteq Had \cup Places(rest)
  /\ \A k \in DOMAIN chunks : Leads(Places(chunks[k].text), Places(rest))

FromText(s) == Len(s) <= Len(text) /\ \A i \in DOMAIN s : s[i][2] > 0

SentenceInv ==
  /\ parents = <<>> /\ chunks = <<>> /\ current = <<>>
  /\ Row(pieces) /\ Orderly(rest) /\ Apart(Covered(pieces), Places(rest))
  /\ Places(text) = Covered(pieces) \cup Places(rest)
  /\ \A i \in DOMAIN pieces : ~IsBlank(pieces[i]) /\ FromText(pieces[i])
  /\ FromText(rest)
  /\ rest # <<>> => rest[1][1] \notin Blank

JoinInv ==
  /\ parents = <<>> /\ rest = <<>>
  /\ Row(pieces) /\ Orderly(current) /\ ~IsBlank(current)
  /\ Places(text) = Had \cup Places(current) \cup Covered(pieces)
  /\ Apart(Had, Places(current)) /\ Apart(Had, Covered(pieces))
  /\ Apart(Places(current), Covered(pieces))
  /\ \A i \in DOMAIN pieces : ~IsBlank(pieces[i]) /\ FromText(pieces[i])
  /\ Len(current) <= IF Space[1] \in Range(current) THEN size ELSE Len(text)

StageInv ==
  /\ stage = "split" => SplitInv /\ ParentInv
  /\ stage = "pack" => PackInv /\ ParentInv
  /\ stage = "window" => WindowInv
  /\ stage = "sentences" => SentenceInv
  /\ stage = "joining" => JoinInv
  /\ stage = "done" => Places(text) \subseteq Had

StrategyInv ==
  /\ Orderly(text) /\ \A i \in DOMAIN text : text[i][2] > 0
  /\ stage = "window" => strategy = "fixed"
  /\ stage \in {"sentences", "joining"} => strategy = "semantic"
  /\ stage \in {"split", "pack"} => strategy \in {"recursive", "parent_child"}

ChunkingInv == ChunkTypeOK /\ StrategyInv /\ ChunkInv /\ StageInv

-----------------------------------------------------------------------------
(* Splitting.                                                               *)

\* A place is a number.
LEMMA PlacesAreNumbers ==
  ASSUME NEW s \in Seq(Char)
  PROVE  Places(s) \subseteq Nat
  BY DEF Places, Char

\* The chunks stay as they are while a text is split and merged.
LEMMA ChunksAside ==
  ASSUME ChunkInv, ParentInv, StrategyInv, UNCHANGED <<chunks, parents, text, strategy, size, overlap>>
  PROVE  ChunkInv' /\ ParentInv' /\ (Orderly(text) /\ \A i \in DOMAIN text : text[i][2] > 0)' /\ Had' = Had
         /\ Source' = Source
  BY DEF ChunkInv, ParentInv, StrategyInv, Longest, Had, Source

\* What _split takes up next
LEMMA HeadOfWork ==
  ASSUME ChunkTypeOK, work # <<>>
  PROVE  /\ Head(work) \in Item /\ Head(work) = work[1] /\ 1 \in DOMAIN work
         /\ Tail(work) \in Seq(Item) /\ work \in Seq(Item) /\ size \in Nat \ {0}
         /\ Head(work).text \in Seq(Char) /\ Len(Head(work).text) \in Nat
         /\ Head(work).level \in Nat \ {0} /\ Head(work).open \in BOOLEAN
         /\ \A i \in DOMAIN Tail(work) : i + 1 \in DOMAIN work /\ Tail(work)[i] = work[i + 1]
<1>1. work \in Seq(Item) /\ size \in Nat \ {0}
  BY DEF ChunkTypeOK, PackTypeOK
<1>2. /\ Head(work) \in Item /\ Head(work) = work[1] /\ 1 \in DOMAIN work
      /\ Tail(work) \in Seq(Item)
      /\ \A i \in DOMAIN Tail(work) : i + 1 \in DOMAIN work /\ Tail(work)[i] = work[i + 1]
  BY <1>1
<1>3. /\ Head(work).text \in Seq(Char)
      /\ Head(work).level \in Nat \ {0} /\ Head(work).open \in BOOLEAN
  BY <1>2 DEF Item
<1>4. Len(Head(work).text) \in Nat
  BY <1>3
<1>5. QED
  BY <1>1, <1>2, <1>3, <1>4

\* A text that is small enough becomes a piece.
LEMMA KeepInv ==
  ASSUME ChunkingInv, Keep
  PROVE  ChunkingInv'
<1> DEFINE w == Head(work)
<1>1. /\ stage = "split" /\ work # <<>> /\ Whole(w) /\ pieces' = Append(pieces, w.text) /\ work' = Tail(work)
      /\ UNCHANGED <<size, overlap, current, merged, text, strategy, stage, rest, parents, chunks>>
  BY DEF Keep
<1>2. SplitInv /\ ParentInv /\ ChunkInv /\ StrategyInv /\ ChunkTypeOK
  BY <1>1 DEF ChunkingInv, StageInv
<1>3. /\ work \in Seq(Item) /\ pieces \in Seq(Seq(Char)) /\ size \in Nat \ {0}
      /\ work # <<>> /\ w \in Item /\ w = work[1] /\ 1 \in DOMAIN work /\ Tail(work) \in Seq(Item)
      /\ w.text \in Seq(Char) /\ Len(w.text) \in Nat
      /\ \A i \in DOMAIN Tail(work) : i + 1 \in DOMAIN work /\ Tail(work)[i] = work[i + 1]
  <2>1. pieces \in Seq(Seq(Char))
    BY <1>2 DEF ChunkTypeOK, PackTypeOK
  <2>2. QED
    BY <2>1, <1>1, <1>2, HeadOfWork
<1>4. WorkOf(w)
  BY <1>2, <1>3 DEF SplitInv
<1>5. Len(w.text) <= size
  BY <1>1, <1>3, <1>4 DEF Whole, WorkOf
<1>6. ChunkTypeOK'
  <2>1. pieces' \in Seq(Seq(Char)) /\ work' \in Seq(Item)
    BY <1>1, <1>3
  <2>2. QED
    BY <2>1, <1>1, <1>2 DEF ChunkTypeOK, PackTypeOK
<1> HIDE DEF w
<1>7. SplitInv'
  <2> DEFINE t == TextsOf(work)
  <2>1. t \in Seq(Seq(Char)) /\ t # <<>> /\ Head(t) = w.text /\ Tail(t) = TextsOf(work')
    BY <1>1, <1>3, TextsOfWork DEF w
  <2> HIDE DEF t
  <2>2. /\ Covered(t) = Places(w.text) \cup Covered(TextsOf(work'))
        /\ Row(t) => /\ Row(TextsOf(work')) /\ Orderly(w.text)
                     /\ Apart(Places(w.text), Covered(TextsOf(work')))
    BY <2>1, RowTail
  <2>3. /\ Row(pieces) /\ Row(t) /\ Apart(Covered(pieces), Covered(t))
        /\ Covered(pieces) \cup Covered(t) = Places(Source)
    BY <1>2 DEF SplitInv, t
  <2>4. Apart(Covered(pieces), Places(w.text)) /\ Apart(Covered(pieces), Covered(TextsOf(work')))
    BY <2>2, <2>3 DEF Apart
  <2>5. Covered(pieces') = Covered(pieces) \cup Places(w.text) /\ Row(pieces')
    BY <1>1, <1>3, <2>2, <2>3, <2>4, RowAppend DEF w
  <2>6. Apart(Covered(pieces'), Covered(TextsOf(work')))
    BY <2>2, <2>3, <2>4, <2>5 DEF Apart
  <2>7. \A i \in DOMAIN work' : WorkOf(work'[i])
    BY <1>1, <1>2, <1>3 DEF SplitInv
  <2>8. \A i \in DOMAIN pieces' : Len(pieces'[i]) <= size'
    <3>1. /\ DOMAIN pieces' = 1..(Len(pieces) + 1) /\ pieces'[Len(pieces) + 1] = w.text /\ Len(pieces) \in Nat
          /\ \A i \in 1..Len(pieces) : pieces'[i] = pieces[i] /\ i \in DOMAIN pieces
          /\ \A i \in 1..(Len(pieces) + 1) : i = Len(pieces) + 1 \/ i \in 1..Len(pieces)
      BY <1>1, <1>3 DEF w
    <3>2. QED
      BY <3>1, <1>1, <1>2, <1>5 DEF SplitInv
  <2>9. Source' = Source
    BY <1>1 DEF Source
  <2>10. Covered(pieces') \cup Covered(TextsOf(work')) = Places(Source')
    BY <2>2, <2>3, <2>5, <2>9
  <2>11. QED
    BY <1>1, <1>2, <2>2, <2>3, <2>5, <2>6, <2>7, <2>8, <2>10 DEF SplitInv
<1>8. ChunkInv' /\ ParentInv' /\ (Orderly(text) /\ \A i \in DOMAIN text : text[i][2] > 0)'
  BY <1>1, <1>2, ChunksAside
<1>9. StrategyInv'
  BY <1>1, <1>2, <1>8 DEF StrategyInv
<1>10. QED
  BY <1>1, <1>6, <1>7, <1>8, <1>9 DEF ChunkingInv, StageInv

\* A text is cut at a separator; no ink is lost between the parts.
LEMMA CutOffInv ==
  ASSUME ChunkingInv, CutOff
  PROVE  ChunkingInv'
<1> DEFINE w == Head(work)  t == w.text  l == w.level  sep == Separators[l]
           a == NextPart(t, sep)
           b == IF IsLast(t, sep) THEN <<>> ELSE AfterPart(t, sep)
           part == Call(Rejoined(a, sep), l + 1)
           more == [text |-> AfterPart(t, sep), level |-> l, open |-> TRUE]
           later == IF IsLast(t, sep) THEN Tail(work) ELSE <<more>> \o Tail(work)
<1>1. /\ stage = "split" /\ work # <<>> /\ ~Whole(w) /\ work' = <<part>> \o later
      /\ UNCHANGED <<packVars, text, strategy, stage, rest, parents, chunks>>
  BY DEF CutOff
<1>2. SplitInv /\ ParentInv /\ ChunkInv /\ StrategyInv /\ ChunkTypeOK
  BY <1>1 DEF ChunkingInv, StageInv
<1>3. /\ work \in Seq(Item) /\ size \in Nat \ {0}
      /\ w \in Item /\ w = work[1] /\ 1 \in DOMAIN work /\ Tail(work) \in Seq(Item)
      /\ t \in Seq(Char) /\ Len(t) \in Nat /\ l \in Nat \ {0} /\ w.open \in BOOLEAN
      /\ \A i \in DOMAIN Tail(work) : i + 1 \in DOMAIN work /\ Tail(work)[i] = work[i + 1]
  BY <1>1, <1>2, HeadOfWork
<1>4. WorkOf(w)
  BY <1>2, <1>3 DEF SplitInv
<1>5. Separators \in Seq(Seq(Kinds)) /\ Separators[Len(Separators)] = <<>>
  BY ChunkingAssumption
<1>6. Len(Separators) \in Nat /\ DOMAIN Separators = 1..Len(Separators)
  BY <1>5
<1>7. l \in DOMAIN Separators /\ (Separators[l] = <<>> => t # <<>>)
  <2>1. CASE w.open
    BY <2>1, <1>3, <1>4, <1>6 DEF WorkOf
  <2>2. CASE ~w.open
    <3>1. ~(Len(t) <= size) /\ ~(l > Len(Separators))
      BY <1>1, <2>2 DEF Whole
    <3>2. Len(<<>>) = 0
      OBVIOUS
    <3>3. t # <<>>
      BY <3>1, <3>2, <1>3
    <3>4. QED
      BY <3>1, <3>3, <1>3, <1>6
  <2>3. QED
    BY <2>1, <2>2
<1>8. /\ a \in Seq(Char) /\ b \in Seq(Char)
      /\ Places(t) = Places(a) \cup Places(b)
      /\ Orderly(t) => Orderly(a) /\ Orderly(b) /\ Apart(Places(a), Places(b))
      /\ sep = <<>> => Len(a) = 1 /\ (~IsLast(t, sep) => b # <<>>)
  BY <1>3, <1>7, CutsPart
<1> DEFINE r == Rejoined(a, sep)
<1> HIDE DEF a
<1>9. /\ r \in Seq(Char) /\ Places(r) = Places(a) /\ (Orderly(a) => Orderly(r))
      /\ sep = <<>> => r = a
  BY <1>7, <1>8, RejoinedKeeps
<1> HIDE DEF r
<1>10. part \in Item /\ part.text = r /\ part.level = l + 1 /\ part.open = FALSE
  BY <1>3, <1>9 DEF Item, Call, r
<1>11. ~IsLast(t, sep) =>
         more \in Item /\ more.text = b /\ more.level = l /\ more.open = TRUE
  BY <1>3, <1>8 DEF Item
<1> HIDE DEF b, part, more
<1>12. later \in Seq(Item)
  <2>1. CASE IsLast(t, sep)
    BY <2>1, <1>3
  <2>2. CASE ~IsLast(t, sep)
    BY <2>2, <1>3, <1>11
  <2>3. QED
    BY <2>1, <2>2
<1>13. ChunkTypeOK'
  <2>1. work' \in Seq(Item)
    BY <1>1, <1>10, <1>12
  <2>2. QED
    BY <2>1, <1>1, <1>2 DEF ChunkTypeOK, PackTypeOK, packVars
<1> HIDE DEF later
<1>14. SplitInv'
  <2> DEFINE c == TextsOf(work)  T == TextsOf(Tail(work))  L == TextsOf(later)  N == TextsOf(work')
  <2>1. c \in Seq(Seq(Char)) /\ c # <<>> /\ Head(c) = t /\ Tail(c) = T /\ T \in Seq(Seq(Char))
    BY <1>1, <1>3, TextsOfWork
  <2>2. L \in Seq(Seq(Char)) /\ N = <<r>> \o L
    BY <1>1, <1>10, <1>12, TextsOfWork
  <2>3. L = IF IsLast(t, sep) THEN T ELSE <<b>> \o T
    <3>1. CASE IsLast(t, sep)
      BY <3>1 DEF later
    <3>2. CASE ~IsLast(t, sep)
      <4>1. later = <<more>> \o Tail(work) /\ more \in Item /\ more.text = b
        BY <3>2, <1>11 DEF later
      <4>2. QED
        BY <4>1, <1>3, <3>2, TextsOfWork
    <3>3. QED
      BY <3>1, <3>2
  <2>4. /\ Row(pieces) /\ Row(c) /\ Apart(Covered(pieces), Covered(c))
        /\ Covered(pieces) \cup Covered(c) = Places(Source)
    BY <1>2 DEF SplitInv
  <2> HIDE DEF c, T, L, N, sep, t, l, w
  <2>5. /\ Covered(c) = Places(t) \cup Covered(T)
        /\ Row(T) /\ Orderly(t) /\ Apart(Places(t), Covered(T))
    BY <2>1, <2>4, RowTail
  <2>6. Row(L) /\ Covered(L) = Places(b) \cup Covered(T)
    <3>1. CASE IsLast(t, sep)
      <4>1. b = <<>> /\ L = T
        BY <3>1, <2>3 DEF b
      <4>2. QED
        BY <4>1, <2>5, EmptyHasNone
    <3>2. CASE ~IsLast(t, sep)
      <4>1. L = <<b>> \o T
        BY <3>2, <2>3
      <4>2. Apart(Places(b), Covered(T)) /\ Orderly(b)
        BY <2>5, <1>8 DEF Apart
      <4>3. QED
        BY <4>1, <4>2, <2>1, <2>5, <1>8, RowPush
    <3>3. QED
      BY <3>1, <3>2
  <2>7. Apart(Places(r), Covered(L))
    BY <1>8, <1>9, <2>5, <2>6 DEF Apart
  <2>8. Row(N) /\ Covered(N) = Places(r) \cup Covered(L)
    BY <2>2, <2>5, <2>6, <2>7, <1>8, <1>9, RowPush
  <2>9. Covered(N) = Covered(c)
    BY <2>5, <2>6, <2>8, <1>8, <1>9
  <2>10. Source' = Source /\ pieces' = pieces /\ merged' = merged /\ current' = current /\ size' = size
    BY <1>1 DEF Source, packVars
  <2>11. \A i \in DOMAIN work' : WorkOf(work'[i])
    <3>1. WorkOf(part)
      <4>1. l + 1 > Len(Separators) => l = Len(Separators)
        BY <1>6, <1>7 DEF sep
      <4>2. l + 1 > Len(Separators) => Len(part.text) <= 1
        <5>1. l + 1 > Len(Separators) => sep = <<>>
          BY <4>1, <1>5 DEF sep
        <5>2. sep = <<>> => Len(r) = 1
          BY <1>8, <1>9, Zenon
        <5>3. ASSUME l + 1 > Len(Separators)
              PROVE  Len(part.text) <= 1
          <6>1. Len(part.text) = 1
            BY <5>1, <5>2, <5>3, <1>10, Zenon
          <6>2. QED
            BY <6>1
        <5>4. QED
          BY <5>3, Zenon
      <4>3. l + 1 \in 1..(Len(Separators) + 1)
        BY <1>6, <1>7
      <4>4. QED
        BY <4>2, <4>3, <1>10 DEF WorkOf
    <3>2. ~IsLast(t, sep) => WorkOf(more)
      <4>1. l \in 1..(Len(Separators) + 1) /\ ~(l > Len(Separators))
        BY <1>6, <1>7
      <4>2. QED
        BY <4>1, <1>8, <1>11 DEF WorkOf, sep
    <3>3. \A i \in DOMAIN Tail(work) : WorkOf(Tail(work)[i])
      BY <1>2, <1>3 DEF SplitInv
    <3>4. \A i \in DOMAIN later : WorkOf(later[i])
      <4>1. CASE IsLast(t, sep)
        BY <4>1, <3>3 DEF later
      <4>2. CASE ~IsLast(t, sep)
        <5>1. later = <<more>> \o Tail(work) /\ more \in Item
          BY <4>2, <1>11 DEF later
        <5>2. \A i \in DOMAIN later : (i = 1 /\ later[i] = more) \/ (i - 1 \in DOMAIN Tail(work) /\ later[i] = Tail(work)[i - 1])
          BY <5>1, <1>3
        <5>3. QED
          BY <5>2, <4>2, <3>2, <3>3
      <4>3. QED
        BY <4>1, <4>2
    <3>5. \A i \in DOMAIN work' : (i = 1 /\ work'[i] = part) \/ (i - 1 \in DOMAIN later /\ work'[i] = later[i - 1])
      BY <1>1, <1>10, <1>12
    <3>6. QED
      BY <3>1, <3>4, <3>5
  <2>12. QED
    BY <1>2, <2>4, <2>8, <2>9, <2>10, <2>11 DEF SplitInv, N, c
<1>15. ChunkInv' /\ ParentInv' /\ (Orderly(text) /\ \A i \in DOMAIN text : text[i][2] > 0)'
  <2>1. UNCHANGED <<chunks, parents, text, strategy, size, overlap>>
    BY <1>1 DEF packVars
  <2>2. QED
    BY <2>1, <1>2, ChunksAside
<1>16. StrategyInv'
  BY <1>1, <1>2, <1>15 DEF StrategyInv
<1>17. QED
  BY <1>1, <1>13, <1>14, <1>15, <1>16 DEF ChunkingInv, StageInv

\* All of the source is in the pieces, none of them too long.
LEMMA BeginPackingInv ==
  ASSUME ChunkingInv, BeginPacking
  PROVE  ChunkingInv'
<1>1. /\ stage = "split" /\ work = <<>> /\ stage' = "pack"
      /\ UNCHANGED <<packVars, text, strategy, work, rest, parents, chunks>>
  BY DEF BeginPacking
<1>2. SplitInv /\ ParentInv /\ ChunkInv /\ StrategyInv /\ ChunkTypeOK
  BY <1>1 DEF ChunkingInv, StageInv
<1>3. UNCHANGED <<chunks, parents, text, strategy, size, overlap, pieces, current, merged>>
  BY <1>1 DEF packVars
<1>4. ChunkTypeOK'
  BY <1>1, <1>2, <1>3 DEF ChunkTypeOK, PackTypeOK
<1>5. /\ ChunkInv' /\ ParentInv' /\ (Orderly(text) /\ \A i \in DOMAIN text : text[i][2] > 0)'
      /\ Source' = Source
  BY <1>2, <1>3, ChunksAside
<1>6. StrategyInv'
  BY <1>1, <1>2, <1>5 DEF StrategyInv
<1>7. PackInv'
  <2>1. TextsOf(work) = <<>>
    BY <1>1 DEF TextsOf
  <2>2. Covered(TextsOf(work)) = {}
    BY <2>1, RowOfNone
  <2>3. Covered(pieces) = Places(Source)
    BY <1>2, <2>2 DEF SplitInv
  <2>4. Taken = {} /\ Taken' = {}
    BY <2>3, <1>3, <1>5 DEF Taken
  <2>5. merged = <<>> /\ current = <<>> /\ Len(<<>>) = 0 /\ DOMAIN <<>> = {}
    BY <1>2 DEF SplitInv
  <2>6. 0 <= size' + overlap'
    <3>1. size \in Nat \ {0} /\ overlap \in Nat
      BY <1>2 DEF ChunkTypeOK, PackTypeOK
    <3>2. QED
      BY <3>1, <1>3
  <2>7. Apart(Taken', Covered(pieces)) /\ Places(current) = {} /\ Orderly(current)
    BY <2>4, <2>5, EmptyHasNone DEF Apart
  <2>8. Row(pieces) /\ \A i \in DOMAIN pieces : Len(pieces[i]) <= size
    BY <1>2 DEF SplitInv
  <2>9. QED
    BY <1>1, <1>3, <1>5, <2>3, <2>4, <2>5, <2>6, <2>7, <2>8 DEF PackInv
<1>8. QED
  BY <1>1, <1>4, <1>5, <1>6, <1>7 DEF ChunkingInv, StageInv

-----------------------------------------------------------------------------
(* Packing.                                                                 *)

\* The first of two stretches that lie after all the others of S is taken too.
LEMMA TakesNext ==
  ASSUME NEW S \in SUBSET Nat, NEW P, NEW B, P \cup B \subseteq S,
         Apart(P, B), Apart(S \ (P \cup B), P \cup B)
  PROVE  /\ S \ B = (S \ (P \cup B)) \cup P
         /\ Apart(S \ B, B) /\ Apart(S \ (P \cup B), P)
<1>1. \A i \in P : i \notin B
  <2>1. \A i \in Nat : ~(i < i)
    OBVIOUS
  <2>2. P \subseteq Nat
    OBVIOUS
  <2>3. QED
    BY <2>1, <2>2 DEF Apart
<1>2. S \ B = (S \ (P \cup B)) \cup P
  BY <1>1
<1>3. Apart(S \ (P \cup B), P) /\ Apart(S \ (P \cup B), B)
  BY DEF Apart
<1>4. Apart((S \ (P \cup B)) \cup P, B)
  BY <1>3 DEF Apart
<1>5. QED
  BY <1>2, <1>3, <1>4

\* The next piece follows all that is taken.
LEMMA NextPiece ==
  ASSUME ChunkTypeOK, PackInv, pieces # <<>>, pieces' = Tail(pieces), UNCHANGED <<text, parents>>,
         Source \in Seq(Char)
  PROVE  /\ Head(pieces) \in Seq(Char) /\ Tail(pieces) \in Seq(Seq(Char))
         /\ Orderly(Head(pieces)) /\ Len(Head(pieces)) <= size
         /\ Row(pieces') /\ Covered(pieces') \subseteq Places(Source)
         /\ \A i \in DOMAIN pieces' : Len(pieces'[i]) <= size
         /\ Source' = Source /\ Taken' = Taken \cup Places(Head(pieces))
         /\ Apart(Taken', Covered(pieces')) /\ Apart(Taken, Places(Head(pieces)))
         /\ Taken \subseteq Nat /\ Places(Head(pieces)) \subseteq Nat
<1>1. pieces \in Seq(Seq(Char))
  BY DEF ChunkTypeOK, PackTypeOK
<1>2. /\ Row(pieces) /\ Covered(pieces) \subseteq Places(Source) /\ Apart(Taken, Covered(pieces))
      /\ \A i \in DOMAIN pieces : Len(pieces[i]) <= size
  BY DEF PackInv
<1> DEFINE P == Places(Head(pieces))  B == Covered(Tail(pieces))  S == Places(Source)
<1>3. /\ Tail(pieces) \in Seq(Seq(Char)) /\ Head(pieces) \in Seq(Char)
      /\ Covered(pieces) = P \cup B
      /\ Row(Tail(pieces)) /\ Orderly(Head(pieces)) /\ Apart(P, B)
  BY <1>1, <1>2, RowTail
<1>4. /\ Len(Head(pieces)) <= size
      /\ \A i \in DOMAIN Tail(pieces) : Len(Tail(pieces)[i]) <= size
  BY <1>1, <1>2
<1>5. S \subseteq Nat /\ P \subseteq Nat
  BY <1>3, PlacesAreNumbers
<1>6. Source' = Source
  BY DEF Source
<1>7. Taken = S \ (P \cup B) /\ Taken' = S \ B
  BY <1>3, <1>6 DEF Taken
<1> HIDE DEF P, B, S
<1>8. P \cup B \subseteq S /\ Apart(S \ (P \cup B), P \cup B)
  BY <1>2, <1>3, <1>7 DEF S
<1>9. S \ B = (S \ (P \cup B)) \cup P /\ Apart(S \ B, B) /\ Apart(S \ (P \cup B), P)
  <2>1. S \in SUBSET Nat /\ P \cup B \subseteq S /\ Apart(P, B) /\ Apart(S \ (P \cup B), P \cup B)
    BY <1>3, <1>5, <1>8
  <2>2. QED
    BY ONLY <2>1, TakesNext
<1>10. Taken' = Taken \cup P /\ Apart(Taken', B) /\ Apart(Taken, P) /\ Taken \subseteq Nat /\ B \subseteq S
  BY <1>5, <1>7, <1>8, <1>9
<1>11. QED
  BY <1>3, <1>4, <1>5, <1>6, <1>10 DEF P, B, S

\* What leads a stretch leads those that begin later.
LEMMA LeadsOn ==
  ASSUME NEW M, NEW C, NEW P, NEW T \in SUBSET Nat, P \subseteq Nat, M \subseteq T, Apart(T, P), Leads(M, C)
  PROVE  Leads(M, C \cup P)
<1>1. ASSUME M # {}, NEW j \in P
      PROVE  \E i \in M : i <= j
  <2>1. PICK i \in M : TRUE
    BY <1>1
  <2>2. i < j /\ i \in Nat /\ j \in Nat
    BY <2>1 DEF Apart
  <2>3. QED
    BY <2>2
<1>2. QED
  BY <1>1 DEF Leads

\* The source is typed.
LEMMA SourceType ==
  ASSUME ChunkTypeOK
  PROVE  Source \in Seq(Char)
<1>1. text \in Seq(Char) /\ parents \in Seq(Seq(Char))
  BY DEF ChunkTypeOK
<1>2. parents # <<>> => Head(parents) \in Seq(Char)
  BY <1>1
<1>3. QED
  BY <1>1, <1>2 DEF Source

\* A piece is added to the current chunk.
LEMMA ExtendInv ==
  ASSUME ChunkingInv, stage = "pack", Extend, UNCHANGED chunkVars
  PROVE  ChunkingInv'
<1> DEFINE p == Head(pieces)  P == Places(p)  C == Places(current)
<1>1. /\ pieces # <<>> /\ Len(current) + Len(p) <= size /\ current' = current \o p /\ pieces' = Tail(pieces)
      /\ UNCHANGED <<size, overlap, merged, text, strategy, stage, work, rest, parents, chunks>>
  BY DEF Extend, Fits, chunkVars
<1>2. PackInv /\ ParentInv /\ ChunkInv /\ StrategyInv /\ ChunkTypeOK
  BY DEF ChunkingInv, StageInv
<1>3. current \in Seq(Char) /\ size \in Nat /\ overlap \in Nat /\ Len(current) \in Nat
  <2>1. current \in Seq(Char) /\ size \in Nat /\ overlap \in Nat
    BY <1>2 DEF ChunkTypeOK, PackTypeOK
  <2>2. QED
    BY <2>1
<1>4. /\ p \in Seq(Char) /\ Tail(pieces) \in Seq(Seq(Char)) /\ Orderly(p)
      /\ Row(pieces') /\ Covered(pieces') \subseteq Places(Source)
      /\ \A i \in DOMAIN pieces' : Len(pieces'[i]) <= size
      /\ Source' = Source /\ Taken' = Taken \cup P
      /\ Apart(Taken', Covered(pieces')) /\ Apart(Taken, P)
      /\ Taken \subseteq Nat /\ P \subseteq Nat
  BY <1>1, <1>2, SourceType, NextPiece
<1>5. ChunkTypeOK'
  <2>1. current' \in Seq(Char)
    BY <1>1, <1>3, <1>4
  <2>2. QED
    BY <2>1, <1>1, <1>2, <1>4 DEF ChunkTypeOK, PackTypeOK
<1>6. /\ ChunkInv' /\ ParentInv' /\ (Orderly(text) /\ \A i \in DOMAIN text : text[i][2] > 0)'
  BY <1>1, <1>2, ChunksAside
<1>7. StrategyInv'
  BY <1>1, <1>2, <1>6 DEF StrategyInv
<1>8. /\ Orderly(current) /\ C \subseteq Taken
      /\ \A i \in C, j \in Taken : i < j => j \in C
      /\ Taken \subseteq C \cup Covered(merged)
  BY <1>2 DEF PackInv
<1>9. Apart(C, P)
  BY <1>4, <1>8 DEF Apart
<1>10. Places(current') = C \cup P /\ Orderly(current')
  BY <1>1, <1>3, <1>4, <1>8, <1>9, PlacesConcat
<1>11. Len(current') <= size + overlap
  <2>1. Len(current') = Len(current) + Len(p) /\ Len(p) \in Nat
    BY <1>1, <1>3, <1>4
  <2>2. QED
    BY <2>1, <1>1, <1>3
<1> HIDE DEF P, C, p
<1>12. \A i \in C \cup P, j \in Taken \cup P : i < j => j \in C \cup P
  <2> SUFFICES ASSUME NEW i \in C \cup P, NEW j \in Taken, i < j
               PROVE  j \in C
    OBVIOUS
  <2>1. i \in C
    <3>1. ASSUME i \in P
          PROVE  FALSE
      <4>1. j < i /\ i \in Nat /\ j \in Nat
        BY <3>1, <1>4 DEF Apart
      <4>2. QED
        BY <4>1
    <3>2. QED
      BY <3>1
  <2>2. QED
    BY <2>1, <1>8
<1>13. ASSUME NEW k \in DOMAIN merged
       PROVE  /\ MergedOf(merged[k])'
              /\ Precedes(merged[k], current)'
              /\ \A n \in 1..(k - 1) : Precedes(merged[n], merged[k])'
  <2>1. /\ MergedOf(merged[k]) /\ Precedes(merged[k], current)
        /\ \A n \in 1..(k - 1) : Precedes(merged[n], merged[k])
    BY <1>2 DEF PackInv
  <2>2. MergedOf(merged[k])'
    BY <2>1, <1>1, <1>4 DEF MergedOf
  <2>3. Places(merged[k]) \subseteq Taken
    BY <2>1 DEF MergedOf
  <2>4. Leads(Places(merged[k]), C \cup P)
    BY <2>1, <2>3, <1>4, LeadsOn DEF Precedes, C
  <2>5. overlap = 0 => Apart(Places(merged[k]), C \cup P)
    BY <2>1, <2>3, <1>4 DEF Precedes, C, Apart
  <2>6. Precedes(merged[k], current)'
    BY <2>4, <2>5, <1>1, <1>10 DEF Precedes
  <2>7. QED
    BY <2>1, <2>2, <2>6, <1>1 DEF Precedes
<1>14. PackInv'
  <2>1. work' = <<>> /\ Taken' \subseteq Places(current') \cup Covered(merged')
    BY <1>1, <1>2, <1>4, <1>8, <1>10 DEF PackInv
  <2>2. \A i \in Places(current'), j \in Taken' : i < j => j \in Places(current')
    BY <1>4, <1>10, <1>12
  <2>3. \A k \in DOMAIN merged' :
          /\ MergedOf(merged[k])'
          /\ Precedes(merged[k], current)'
          /\ \A n \in 1..(k - 1) : Precedes(merged[n], merged[k])'
    BY <1>13, <1>1
  <2>4. Places(current') \subseteq Taken'
    BY <1>4, <1>8, <1>10
  <2>5. QED
    BY <1>1, <1>4, <1>10, <1>11, <2>1, <2>2, <2>3, <2>4 DEF PackInv
<1>15. QED
  BY <1>1, <1>5, <1>6, <1>7, <1>14 DEF ChunkingInv, StageInv

\* What is finished once the current chunk is
LEMMA FinishedChunks ==
  ASSUME ChunkTypeOK, PackInv
  PROVE  /\ WithCurrent \in Seq(Seq(Char))
         /\ Covered(WithCurrent) = Covered(merged) \cup Places(current)
         /\ \A k \in DOMAIN WithCurrent :
              /\ MergedOf(WithCurrent[k])
              /\ Places(WithCurrent[k]) = Places(current) \/ Precedes(WithCurrent[k], current)
              /\ \A n \in 1..(k - 1) : Precedes(WithCurrent[n], WithCurrent[k])
<1>1. merged \in Seq(Seq(Char)) /\ current \in Seq(Char) /\ Len(current) \in Nat
  <2>1. merged \in Seq(Seq(Char)) /\ current \in Seq(Char)
    BY DEF ChunkTypeOK, PackTypeOK
  <2>2. QED
    BY <2>1
<1>2. \A k \in DOMAIN merged :
        /\ MergedOf(merged[k]) /\ Precedes(merged[k], current)
        /\ \A n \in 1..(k - 1) : Precedes(merged[n], merged[k])
  BY DEF PackInv
<1>3. CASE IsBlank(current)
  <2>1. WithCurrent = merged /\ Places(current) = {}
    BY <1>3, BlankHasNone DEF WithCurrent
  <2>2. QED
    BY <2>1, <1>1, <1>2
<1>4. CASE ~IsBlank(current)
  <2> DEFINE m == Strip(current)  W == WithCurrent
  <2>1. /\ m \in Seq(Char) /\ Len(m) \in Nat /\ Len(m) <= Len(current) /\ Places(m) = Places(current)
        /\ Orderly(m) /\ ~IsBlank(m)
    BY <1>1, <1>4, StripKeeps DEF PackInv
  <2>2. W = Append(merged, m)
    BY <1>4 DEF WithCurrent
  <2> HIDE DEF m, W
  <2>3. /\ Len(merged) \in Nat /\ DOMAIN merged = 1..Len(merged) /\ DOMAIN W = 1..(Len(merged) + 1)
        /\ W[Len(merged) + 1] = m /\ \A k \in DOMAIN merged : W[k] = merged[k]
        /\ \A k \in 1..(Len(merged) + 1) : k \in 1..Len(merged) \/ k = Len(merged) + 1
    BY <1>1, <2>1, <2>2
  <2>4. W \in Seq(Seq(Char)) /\ Covered(W) = Covered(merged) \cup Places(current)
    BY <1>1, <2>1, <2>2, RowAppend
  <2>5. /\ Places(current) \subseteq Taken /\ Len(current) <= size + overlap /\ Apart(Taken, Covered(pieces))
        /\ \A i \in Places(current), j \in Taken : i < j => j \in Places(current)
        /\ size \in Nat /\ overlap \in Nat
    BY DEF PackInv, ChunkTypeOK, PackTypeOK
  <2>6. MergedOf(m)
    <3>1. Places(m) \subseteq Places(Source) /\ Places(m) \subseteq Taken
      BY <2>1, <2>5 DEF Taken
    <3>2. Places(Source) \subseteq Nat
      BY SourceType, PlacesAreNumbers
    <3>3. Unbroken(Places(m), Places(Source))
      <4> SUFFICES ASSUME NEW i \in Places(m), NEW k \in Places(m), NEW j \in Places(Source), i < j, j < k
                   PROVE  j \in Places(m)
        BY DEF Unbroken
      <4>1. j \in Taken
        <5>1. ASSUME j \in Covered(pieces)
              PROVE  FALSE
          <6>1. k < j /\ k \in Nat /\ j \in Nat
            BY <5>1, <3>1, <3>2, <2>5 DEF Apart
          <6>2. QED
            BY <6>1
        <5>2. QED
          BY <5>1 DEF Taken
      <4>2. QED
        BY <4>1, <2>1, <2>5
    <3>4. Len(m) <= size + overlap
      BY <1>1, <2>1, <2>5
    <3>5. QED
      BY <2>1, <3>1, <3>3, <3>4 DEF MergedOf, Found
  <2>7. ASSUME NEW k \in DOMAIN W
        PROVE  /\ MergedOf(W[k])
               /\ Places(W[k]) = Places(current) \/ Precedes(W[k], current)
               /\ \A n \in 1..(k - 1) : Precedes(W[n], W[k])
    <3>1. CASE k \in DOMAIN merged
      <4>1. \A n \in 1..(k - 1) : n \in DOMAIN merged
        BY <3>1, <2>3
      <4>2. QED
        BY <3>1, <4>1, <1>2, <2>3
    <3>2. CASE k = Len(merged) + 1
      <4>1. \A n \in 1..(k - 1) : n \in DOMAIN merged
        BY <3>2, <2>3
      <4>2. \A n \in 1..(k - 1) : W[n] = merged[n] /\ Precedes(merged[n], current)
        BY <4>1, <1>2, <2>3
      <4>3. \A n \in 1..(k - 1) : Precedes(W[n], m)
        BY <4>2, <2>1 DEF Precedes
      <4>4. QED
        BY <3>2, <4>3, <2>1, <2>3, <2>6
    <3>3. QED
      BY <3>1, <3>2, <2>3
  <2>8. QED
    BY <2>4, <2>7 DEF W
<1>5. QED
  BY <1>3, <1>4

\* What the next chunk repeats is the end of the one before.
LEMMA KeptEnd ==
  ASSUME current \in Seq(Char), size \in Nat \ {0}, overlap \in Nat, Orderly(current)
  PROVE  /\ Kept \in Seq(Char) /\ Orderly(Kept) /\ Len(Kept) <= overlap /\ Len(Kept) \in Nat
         /\ Places(Kept) \subseteq Places(current)
         /\ \A i \in Places(Kept), j \in Places(current) : i < j => j \in Places(Kept)
         /\ overlap = 0 => Places(Kept) = {}
<1>0. Len(current) \in Nat
  OBVIOUS
<1>1. CASE Len(current) <= overlap
  <2>1. Kept = current
    BY <1>1 DEF Kept
  <2>2. overlap = 0 => current = <<>>
    BY <1>0, <1>1
  <2>3. QED
    BY <1>0, <1>1, <2>1, <2>2, EmptyHasNone
<1>2. CASE ~(Len(current) <= overlap)
  <2> DEFINE m == Len(current) - overlap + 1
  <2>1. m \in 1..(Len(current) + 1) /\ Len(current) \in 0..Len(current) /\ m \in Nat
    BY <1>0, <1>2
  <2>2. Kept = SubSeq(current, m, Len(current))
    BY <1>2 DEF Kept
  <2>3. overlap = 0 => m = Len(current) + 1
    BY <1>0
  <2>4. IF m <= Len(current) THEN Len(current) - m + 1 = overlap ELSE TRUE
    BY <1>0
  <2> HIDE DEF m
  <2>5. IsPart(Kept, current, m, Len(current))
    BY <2>1, <2>2, PartOf
  <2>6. /\ Kept \in Seq(Char) /\ Len(Kept) = (IF m <= Len(current) THEN Len(current) - m + 1 ELSE 0)
        /\ Places(Kept) \subseteq Places(current) /\ Orderly(Kept)
    BY <2>5 DEF IsPart
  <2>7. Len(Kept) <= overlap /\ Len(Kept) \in Nat
    BY <1>0, <2>1, <2>4, <2>6
  <2>8. \A i \in Places(Kept), j \in Places(current) : i < j => j \in Places(Kept)
    BY <2>1, <2>2, EndOf
  <2>9. overlap = 0 => Places(Kept) = {}
    <3>1. overlap = 0 => Kept = <<>>
      BY <2>6, <2>7
    <3>2. QED
      BY <3>1, EmptyHasNone
  <2>10. QED
    BY <2>6, <2>7, <2>8, <2>9
<1>3. QED
  BY <1>1, <1>2

\* A chunk is finished, and the next begins with the end of it.
LEMMA CutInv ==
  ASSUME ChunkingInv, stage = "pack", Cut, UNCHANGED chunkVars
  PROVE  ChunkingInv'
<1> DEFINE p == Head(pieces)  P == Places(p)  C == Places(current)  K == Places(Kept)  W == WithCurrent
<1>1. /\ pieces # <<>> /\ merged' = W /\ current' = Kept \o p /\ pieces' = Tail(pieces)
      /\ UNCHANGED <<size, overlap, text, strategy, stage, work, rest, parents, chunks>>
  BY DEF Cut, chunkVars
<1>2. PackInv /\ ParentInv /\ ChunkInv /\ StrategyInv /\ ChunkTypeOK
  BY DEF ChunkingInv, StageInv
<1>3. current \in Seq(Char) /\ size \in Nat \ {0} /\ overlap \in Nat
  BY <1>2 DEF ChunkTypeOK, PackTypeOK
<1>4. /\ p \in Seq(Char) /\ Tail(pieces) \in Seq(Seq(Char)) /\ Orderly(p) /\ Len(p) <= size
      /\ Row(pieces') /\ Covered(pieces') \subseteq Places(Source)
      /\ \A i \in DOMAIN pieces' : Len(pieces'[i]) <= size
      /\ Source' = Source /\ Taken' = Taken \cup P
      /\ Apart(Taken', Covered(pieces')) /\ Apart(Taken, P)
      /\ Taken \subseteq Nat /\ P \subseteq Nat
  BY <1>1, <1>2, SourceType, NextPiece
<1>5. /\ Orderly(current) /\ C \subseteq Taken
      /\ \A i \in C, j \in Taken : i < j => j \in C
      /\ Taken \subseteq C \cup Covered(merged)
  BY <1>2 DEF PackInv
<1>6. /\ Kept \in Seq(Char) /\ Orderly(Kept) /\ Len(Kept) <= overlap /\ Len(Kept) \in Nat
      /\ K \subseteq C
      /\ \A i \in K, j \in C : i < j => j \in K
      /\ overlap = 0 => K = {}
  BY <1>3, <1>5, KeptEnd
<1>7. /\ W \in Seq(Seq(Char)) /\ Covered(W) = Covered(merged) \cup C
      /\ \A k \in DOMAIN W :
           /\ MergedOf(W[k])
           /\ Places(W[k]) = C \/ Precedes(W[k], current)
           /\ \A n \in 1..(k - 1) : Precedes(W[n], W[k])
  BY <1>2, FinishedChunks
<1>8. Apart(K, P)
  BY <1>4, <1>5, <1>6 DEF Apart
<1>9. Places(current') = K \cup P /\ Orderly(current')
  BY <1>1, <1>4, <1>6, <1>8, PlacesConcat
<1>10. current' \in Seq(Char) /\ Len(current') <= size + overlap
  <2>1. current' \in Seq(Char) /\ Len(current') = Len(Kept) + Len(p) /\ Len(p) \in Nat
    BY <1>1, <1>4, <1>6
  <2>2. QED
    BY <2>1, <1>3, <1>4, <1>6
<1>11. ChunkTypeOK'
  BY <1>1, <1>2, <1>4, <1>7, <1>10 DEF ChunkTypeOK, PackTypeOK
<1>12. /\ ChunkInv' /\ ParentInv' /\ (Orderly(text) /\ \A i \in DOMAIN text : text[i][2] > 0)'
  BY <1>1, <1>2, ChunksAside
<1>13. StrategyInv'
  BY <1>1, <1>2, <1>12 DEF StrategyInv
<1> HIDE DEF P, C, p, K, W
<1>14. \A i \in K \cup P, j \in Taken \cup P : i < j => j \in K \cup P
  <2> SUFFICES ASSUME NEW i \in K \cup P, NEW j \in Taken, i < j
               PROVE  j \in K
    OBVIOUS
  <2>1. i \in K
    <3>1. ASSUME i \in P
          PROVE  FALSE
      <4>1. j < i /\ i \in Nat /\ j \in Nat
        BY <3>1, <1>4 DEF Apart
      <4>2. QED
        BY <4>1
    <3>2. QED
      BY <3>1
  <2>2. j \in C
    BY <2>1, <1>5, <1>6
  <2>3. QED
    BY <2>1, <2>2, <1>6
<1>15. ASSUME NEW k \in DOMAIN W
       PROVE  MergedOf(merged[k])' /\ Leads(Places(W[k]), K \cup P) /\ (overlap = 0 => Apart(Places(W[k]), K \cup P))
  <2>1. MergedOf(W[k]) /\ Places(W[k]) \subseteq Taken
    BY <1>7 DEF MergedOf
  <2>2. MergedOf(merged[k])'
    <3>1. merged'[k] = W[k] /\ Source' = Source /\ size' = size /\ overlap' = overlap /\ Taken \subseteq Taken'
      BY <1>1, <1>4
    <3>2. QED
      BY <2>1, <3>1 DEF MergedOf
  <2>3. Leads(Places(W[k]), K)
    <3>1. CASE Places(W[k]) = C
      <4>1. \A j \in K : j \in C /\ j \in Nat /\ j <= j
        BY <1>4, <1>5, <1>6
      <4>2. QED
        BY <3>1, <4>1 DEF Leads
    <3>2. CASE Precedes(W[k], current)
      BY <3>2, <1>6 DEF Precedes, Leads, C
    <3>3. QED
      BY <3>1, <3>2, <1>7
  <2>4. Leads(Places(W[k]), K \cup P)
    BY <2>1, <2>3, <1>4, LeadsOn
  <2>5. overlap = 0 => Apart(Places(W[k]), K \cup P)
    <3>1. Apart(Places(W[k]), P)
      BY <2>1, <1>4 DEF Apart
    <3>2. overlap = 0 => K \cup P = P
      BY <1>6
    <3>3. QED
      BY <3>1, <3>2
  <2>6. QED
    BY <2>2, <2>4, <2>5
<1>16. PackInv'
  <2>1. work' = <<>> /\ Taken' \subseteq Places(current') \cup Covered(merged')
    BY <1>1, <1>2, <1>4, <1>5, <1>7, <1>9 DEF PackInv
  <2>2. \A i \in Places(current'), j \in Taken' : i < j => j \in Places(current')
    BY <1>4, <1>9, <1>14
  <2>3. \A k \in DOMAIN merged' :
          /\ MergedOf(merged[k])'
          /\ Precedes(merged[k], current)'
          /\ \A n \in 1..(k - 1) : Precedes(merged[n], merged[k])'
    <3> SUFFICES ASSUME NEW k \in DOMAIN W
                 PROVE  /\ MergedOf(merged[k])'
                        /\ Precedes(merged[k], current)'
                        /\ \A n \in 1..(k - 1) : Precedes(merged[n], merged[k])'
      BY <1>1
    <3>1. MergedOf(merged[k])'
      BY <1>15
    <3>2. Precedes(merged[k], current)'
      <4>1. merged'[k] = W[k] /\ Places(current') = K \cup P /\ overlap' = overlap
        BY <1>1, <1>9
      <4>2. QED
        BY <4>1, <1>15 DEF Precedes
    <3>3. \A n \in 1..(k - 1) : Precedes(merged[n], merged[k])'
      BY <1>7, <1>1 DEF Precedes
    <3>4. QED
      BY <3>1, <3>2, <3>3
  <2>4. Places(current') \subseteq Taken'
    BY <1>4, <1>5, <1>6, <1>9
  <2>5. QED
    BY <1>1, <1>4, <1>9, <1>10, <2>1, <2>2, <2>3, <2>4 DEF PackInv
<1>17. QED
  BY <1>1, <1>11, <1>12, <1>13, <1>16 DEF ChunkingInv, StageInv

\* A chunk that comes after all the others is added.
LEMMA ChunkAdded ==
  ASSUME ChunkTypeOK, ChunkInv, UNCHANGED <<text, strategy, size, overlap>>,
         NEW c \in Seq(Char), chunks' = Append(chunks, Alone(c)),
         Found(c, Places(text)), Len(c) <= Longest(Alone(c)),
         \A k \in DOMAIN chunks : Leads(Places(chunks[k].text), Places(c))
  PROVE  chunks' \in Seq(ChunkRecord) /\ ChunkInv' /\ Had' = Had \cup Places(c)
<1> DEFINE n == Len(chunks) + 1
<1>1. chunks \in Seq(ChunkRecord) /\ Alone(c) \in ChunkRecord /\ Alone(c).text = c /\ Alone(c).parent = c
  BY DEF ChunkTypeOK, ChunkRecord, Alone
<1>2. /\ chunks' \in Seq(ChunkRecord) /\ DOMAIN chunks' = 1..n /\ chunks'[n] = Alone(c) /\ DOMAIN chunks = 1..(n - 1)
      /\ \A k \in 1..(n - 1) : chunks'[k] = chunks[k]
      /\ \A k \in 1..n : k = n \/ k \in 1..(n - 1)
      /\ n \in Nat \ {0} /\ n \in 1..n /\ 1..(n - 1) \subseteq 1..n
  BY <1>1
<1> HIDE DEF n
<1>3. \A d : Longest(d)' = Longest(d)
  BY DEF Longest
<1>4. Places(text') = Places(text)
  OBVIOUS
<1>5. ASSUME NEW k \in DOMAIN chunks'
      PROVE  /\ Found(chunks'[k].text, Places(text')) /\ Len(chunks'[k].text) <= Longest(chunks'[k])
             /\ Places(chunks'[k].text) \subseteq Places(chunks'[k].parent)
             /\ \A i \in 1..(k - 1) : Leads(Places(chunks'[i].text), Places(chunks'[k].text))
  <2>1. CASE k = n
    BY <2>1, <1>1, <1>2, <1>4
  <2>2. CASE k \in 1..(n - 1)
    <3>1. \A i \in 1..(k - 1) : i \in 1..(n - 1)
      BY <2>2, <1>2
    <3>2. QED
      BY <2>2, <3>1, <1>2, <1>4 DEF ChunkInv
  <2>3. QED
    BY <2>1, <2>2, <1>2
<1>6. ChunkInv'
  <2>1. \A k \in DOMAIN chunks' : Longest(chunks[k])' = Longest(chunks'[k])
    BY DEF Longest
  <2>2. QED
    BY <2>1, <1>5 DEF ChunkInv
<1>7. Had' = Had \cup Places(c)
  <2>1. ASSUME NEW p \in Had'
        PROVE  p \in Had \cup Places(c)
    BY <1>1, <1>2 DEF Had
  <2>2. ASSUME NEW p \in Had \cup Places(c)
        PROVE  p \in Had'
    BY <1>1, <1>2 DEF Had
  <2>3. QED
    BY <2>1, <2>2
<1>8. QED
  BY <1>2, <1>6, <1>7

\* What _split is first called with
LEMMA SplitStart ==
  ASSUME NEW t \in Seq(Char), Orderly(t)
  PROVE  /\ <<Call(t, 1)>> \in Seq(Item)
         /\ Row(TextsOf(<<Call(t, 1)>>)) /\ Covered(TextsOf(<<Call(t, 1)>>)) = Places(t)
         /\ \A i \in DOMAIN <<Call(t, 1)>> : WorkOf(<<Call(t, 1)>>[i])
<1>1. /\ Call(t, 1) \in Item /\ Call(t, 1).text = t /\ Call(t, 1).level = 1 /\ Call(t, 1).open = FALSE
  BY DEF Call, Item
<1> DEFINE w == Call(t, 1)
<1> HIDE DEF w
<1>2. /\ <<w>> \in Seq(Item) /\ <<w>> \o <<>> = <<w>> /\ <<>> \in Seq(Item) /\ <<>> \in Seq(Seq(Char))
      /\ DOMAIN <<w>> = {1} /\ <<w>>[1] = w
  BY <1>1 DEF w
<1>3. TextsOf(<<>>) = <<>>
  BY DEF TextsOf
<1>4. TextsOf(<<w>>) = <<t>> \o <<>>
  <2>1. TextsOf(<<w>> \o <<>>) = <<w.text>> \o TextsOf(<<>>)
    BY <1>1, <1>2, TextsOfWork DEF w
  <2>2. QED
    BY <2>1, <1>1, <1>2, <1>3 DEF w
<1>5. Row(TextsOf(<<w>>)) /\ Covered(TextsOf(<<w>>)) = Places(t)
  <2>1. Row(<<>>) /\ Covered(<<>>) = {} /\ Apart(Places(t), Covered(<<>>))
    BY RowOfNone DEF Apart
  <2>2. QED
    BY <2>1, <1>2, <1>4, RowPush
<1>6. WorkOf(w)
  <2>1. Len(Separators) \in Nat /\ Len(Separators) > 0
    <3>1. Separators \in Seq(Seq(Kinds)) /\ Separators # <<>>
      BY ChunkingAssumption
    <3>2. QED
      BY <3>1
  <2>2. QED
    BY <2>1, <1>1 DEF WorkOf, w
<1>7. QED
  BY <1>2, <1>5, <1>6 DEF w

\* The children of the next parent are begun.
LEMMA NextParent ==
  ASSUME parents' \in Seq(Seq(Char)), parents' # <<>>, Row(parents'),
         work' = <<Call(Head(parents'), 1)>>, pieces' = <<>>, merged' = <<>>, current' = <<>>
  PROVE  SplitInv' /\ work' \in Seq(Item)
<1> DEFINE h == Head(parents')
<1>1. h \in Seq(Char) /\ Orderly(h)
  BY RowTail
<1>2. Source' = h
  BY DEF Source
<1> HIDE DEF h
<1>3. /\ work' \in Seq(Item)
      /\ Row(TextsOf(work')) /\ Covered(TextsOf(work')) = Places(h)
      /\ \A i \in DOMAIN work' : WorkOf(work'[i])
  BY <1>1, SplitStart DEF h
<1>4. Row(pieces') /\ Covered(pieces') = {} /\ DOMAIN pieces' = {} /\ Apart(Covered(pieces'), Covered(TextsOf(work')))
  BY RowOfNone DEF Apart
<1>5. QED
  BY <1>2, <1>3, <1>4 DEF SplitInv

\* A stretch of a stretch is one.
LEMMA FoundWithin ==
  ASSUME NEW c, NEW h, NEW p, Found(c, Places(h)), Found(h, p)
  PROVE  Found(c, p)
<1>1. Unbroken(Places(c), p)
  <2> SUFFICES ASSUME NEW i \in Places(c), NEW k \in Places(c), NEW j \in p, i < j, j < k
               PROVE  j \in Places(c)
    BY DEF Unbroken
  <2>1. j \in Places(h)
    BY DEF Found, Unbroken
  <2>2. QED
    BY <2>1 DEF Found, Unbroken
<1>2. QED
  BY <1>1 DEF Found

\* When all pieces are merged, the finished chunks hold all of the source.
LEMMA AllMerged ==
  ASSUME ChunkTypeOK, PackInv, pieces = <<>>
  PROVE  /\ WithCurrent \in Seq(Seq(Char)) /\ Covered(WithCurrent) = Places(Source)
         /\ \A k \in DOMAIN WithCurrent :
              /\ Found(WithCurrent[k], Places(Source)) /\ Len(WithCurrent[k]) <= size + overlap
              /\ \A n \in 1..(k - 1) : Precedes(WithCurrent[n], WithCurrent[k])
<1> DEFINE W == WithCurrent
<1>1. Covered(pieces) = {}
  BY RowOfNone
<1>2. Taken = Places(Source)
  BY <1>1 DEF Taken
<1>3. /\ W \in Seq(Seq(Char)) /\ Covered(W) = Covered(merged) \cup Places(current)
      /\ \A k \in DOMAIN W :
           MergedOf(W[k]) /\ \A n \in 1..(k - 1) : Precedes(W[n], W[k])
  BY FinishedChunks
<1>4. \A k \in DOMAIN merged : Places(merged[k]) \subseteq Taken
  BY DEF PackInv, MergedOf
<1>5. Covered(W) = Places(Source)
  <2>1. Covered(merged) \subseteq Taken
    BY <1>4 DEF Covered
  <2>2. QED
    BY <2>1, <1>2, <1>3 DEF PackInv
<1>6. QED
  BY <1>3, <1>5 DEF MergedOf

\* The finished chunks are the page's, the parents or the children of one.
LEMMA ReturnInv ==
  ASSUME ChunkingInv, Return
  PROVE  ChunkingInv'
<1> DEFINE W == WithCurrent
<1>1. /\ stage = "pack" /\ pieces = <<>>
      /\ current' = <<>> /\ merged' = <<>>
      /\ UNCHANGED <<pieces, text, strategy, rest>>
      /\ parents' = <<>> => stage' = "done" /\ UNCHANGED <<size, overlap, work>>
      /\ parents' # <<>> => /\ stage' = "split" /\ work' = <<Call(Head(parents'), 1)>>
                            /\ size' = ChildSize /\ overlap' = ChildOverlap
  BY DEF Return
<1>2. PackInv /\ ParentInv /\ ChunkInv /\ StrategyInv /\ ChunkTypeOK
  BY <1>1 DEF ChunkingInv, StageInv
<1>3. /\ W \in Seq(Seq(Char)) /\ Covered(W) = Places(Source)
      /\ \A k \in DOMAIN W :
           /\ Found(W[k], Places(Source)) /\ Len(W[k]) <= size + overlap
           /\ \A n \in 1..(k - 1) : Precedes(W[n], W[k])
  BY <1>1, <1>2, AllMerged
<1>4. Len(W) \in Nat /\ DOMAIN W = 1..Len(W) /\ \A i \in DOMAIN W : W[i] \in Seq(Char)
  BY <1>3
<1>5. /\ parents \in Seq(Seq(Char)) /\ chunks \in Seq(ChunkRecord) /\ work \in Seq(Item)
      /\ size \in Nat \ {0} /\ overlap \in Nat
      /\ ChildSize \in Nat \ {0} /\ ChildOverlap \in Nat
  BY <1>2, ChunkingAssumption DEF ChunkTypeOK, PackTypeOK, ChunkRecord
<1>6. StrategyInv'
  <2>1. Orderly(text') /\ \A i \in DOMAIN text' : text'[i][2] > 0
    BY <1>1, <1>2 DEF StrategyInv
  <2>2. stage' \in {"done", "split"} /\ strategy' = strategy /\ strategy \in {"recursive", "parent_child"}
    BY <1>1, <1>2 DEF StrategyInv
  <2>3. QED
    BY <2>1, <2>2 DEF StrategyInv
<1>7. ASSUME parents' \in Seq(Seq(Char)), chunks' \in Seq(ChunkRecord), Row(parents')
      PROVE  ChunkTypeOK' /\ (parents' # <<>> => SplitInv')
  <2>1. parents' # <<>> => SplitInv' /\ work' \in Seq(Item)
    BY <1>1, <1>7, NextParent
  <2>2. work' \in Seq(Item) /\ size' \in Nat \ {0} /\ overlap' \in Nat /\ stage' \in {"done", "split"}
    BY <2>1, <1>1, <1>5
  <2>3. current' \in Seq(Char) /\ merged' \in Seq(Seq(Char))
    BY <1>1
  <2>4. pieces' \in Seq(Seq(Char)) /\ text' \in Seq(Char) /\ strategy' \in Strategies /\ rest' \in Seq(Char)
    BY <1>1, <1>2 DEF ChunkTypeOK, PackTypeOK
  <2>5. QED
    BY <2>1, <2>2, <2>3, <2>4, <1>7 DEF ChunkTypeOK, PackTypeOK, ChunkRecord
<1>8. CASE strategy = "recursive"
  <2>1. chunks' = [i \in DOMAIN W |-> Alone(W[i])] /\ parents' = parents
    BY <1>1, <1>8 DEF Return
  <2>2. parents = <<>> /\ Source = text
    BY <1>2, <1>8 DEF ParentInv, Source
  <2>3. stage' = "done" /\ size' = size /\ overlap' = overlap
    BY <1>1, <2>1, <2>2
  <2> HIDE DEF W
  <2>4. /\ chunks' \in Seq(ChunkRecord) /\ DOMAIN chunks' = DOMAIN W
        /\ \A k \in DOMAIN W : chunks'[k].text = W[k] /\ chunks'[k].parent = W[k]
    <3>1. \A i \in DOMAIN W : Alone(W[i]) \in ChunkRecord /\ Alone(W[i]).text = W[i] /\ Alone(W[i]).parent = W[i]
      BY <1>4 DEF Alone, ChunkRecord
    <3>2. QED
      BY <3>1, <1>4, <2>1
  <2>5. ChunkTypeOK'
    BY <1>2, <1>5, <1>7, <2>1, <2>4 DEF ParentInv
  <2>6. ChunkInv'
    <3>1. \A k \in DOMAIN chunks' : Longest(chunks'[k]) = size + overlap
      BY <1>8 DEF Longest
    <3>2. ASSUME NEW k \in DOMAIN chunks'
          PROVE  /\ Found(chunks'[k].text, Places(text')) /\ Len(chunks'[k].text) <= Longest(chunks[k])'
                 /\ Places(chunks'[k].text) \subseteq Places(chunks'[k].parent)
                 /\ \A n \in 1..(k - 1) : Leads(Places(chunks'[n].text), Places(chunks'[k].text))
      <4>1. Longest(chunks[k])' = size + overlap
        BY <1>8, <1>1, <2>3 DEF Longest
      <4>2. Found(chunks'[k].text, Places(text')) /\ Len(chunks'[k].text) <= size + overlap
        BY <1>1, <1>3, <2>2, <2>4
      <4>3. \A n \in 1..(k - 1) : n \in DOMAIN W
        BY <1>4, <2>4
      <4>4. \A n \in 1..(k - 1) : Leads(Places(chunks'[n].text), Places(chunks'[k].text))
        BY <4>3, <1>3, <2>4 DEF Precedes
      <4>5. QED
        BY <4>1, <4>2, <4>4, <2>4
    <3>3. QED
      BY <3>2 DEF ChunkInv
  <2>7. Places(text') \subseteq Had'
    <3>1. Had' = Covered(W)
      BY <2>4 DEF Had, Covered
    <3>2. QED
      BY <3>1, <1>1, <1>3, <2>2
  <2>8. QED
    BY <1>6, <2>3, <2>5, <2>6, <2>7 DEF ChunkingInv, StageInv
<1>9. CASE strategy # "recursive" /\ parents = <<>>
  <2>1. parents' = W /\ chunks' = chunks
    BY <1>1, <1>9 DEF Return
  <2>2. /\ strategy = "parent_child" /\ Source = text /\ chunks = <<>> /\ overlap = 0
    BY <1>1, <1>2, <1>9 DEF ParentInv, Source, StrategyInv
  <2> HIDE DEF W
  <2>3. Row(W)
    <3>1. \A i \in DOMAIN W : Orderly(W[i])
      BY <1>3 DEF Found
    <3>2. ASSUME NEW i \in DOMAIN W, NEW j \in DOMAIN W, i < j
          PROVE  Apart(Places(W[i]), Places(W[j]))
      <4>1. i \in 1..(j - 1)
        BY <3>2, <1>4
      <4>2. QED
        BY <4>1, <1>3, <2>2 DEF Precedes
    <3>3. QED
      BY <3>1, <3>2 DEF Row
  <2>4. ChunkTypeOK' /\ (parents' # <<>> => SplitInv')
    BY <1>3, <1>5, <1>7, <2>1, <2>3
  <2>5. DOMAIN chunks' = {} /\ Had' = {}
    BY <2>1, <2>2 DEF Had
  <2>6. ChunkInv'
    BY <2>5 DEF ChunkInv
  <2>7. Places(text') \subseteq Had' \cup Covered(parents')
    BY <1>1, <1>3, <2>1, <2>2
  <2>8. CASE parents' = <<>>
    <3>1. stage' = "done" /\ Covered(parents') = {}
      BY <1>1, <2>8, RowOfNone
    <3>2. QED
      BY <3>1, <2>4, <2>6, <2>7, <1>6 DEF ChunkingInv, StageInv
  <2>9. CASE parents' # <<>>
    <3>1. stage' = "split" /\ size' = ChildSize /\ overlap' = ChildOverlap /\ strategy' = "parent_child"
      BY <1>1, <2>2, <2>9
    <3>2. \A i \in DOMAIN parents' : Found(parents'[i], Places(text'))
      BY <1>1, <1>3, <2>1, <2>2
    <3>3. Apart(Had', Covered(parents'))
      BY <2>5 DEF Apart
    <3>4. ParentInv'
      BY <2>1, <2>3, <2>7, <2>9, <3>1, <3>2, <3>3 DEF ParentInv
    <3>5. QED
      BY <3>1, <3>4, <2>4, <2>6, <2>9, <1>6 DEF ChunkingInv, StageInv
  <2>10. QED
    BY <2>8, <2>9
<1>10. CASE strategy # "recursive" /\ parents # <<>>
  <2> DEFINE h == Head(parents)  t == Tail(parents)  m == Len(chunks)
             new == [i \in DOMAIN W |-> [text |-> W[i], parent |-> h]]
  <2>1. parents' = t /\ chunks' = chunks \o new
    BY <1>1, <1>10 DEF Return
  <2>2. /\ strategy = "parent_child" /\ Source = h /\ size = ChildSize /\ overlap = ChildOverlap
        /\ Places(text) \subseteq Had \cup Covered(parents)
        /\ Row(parents) /\ Apart(Had, Covered(parents))
        /\ \A i \in DOMAIN parents : Found(parents[i], Places(text))
    BY <1>2, <1>10 DEF ParentInv, Source
  <2>3. size' = size /\ overlap' = overlap
    BY <1>1, <2>2
  <2>4. /\ t \in Seq(Seq(Char)) /\ h \in Seq(Char) /\ Covered(parents) = Places(h) \cup Covered(t)
        /\ Row(t) /\ Orderly(h) /\ Apart(Places(h), Covered(t))
    BY <1>5, <1>10, <2>2, RowTail
  <2>5. Found(h, Places(text)) /\ \A i \in DOMAIN t : Found(t[i], Places(text))
    <3>1. h = parents[1] /\ 1 \in DOMAIN parents /\ \A i \in DOMAIN t : t[i] = parents[i + 1] /\ i + 1 \in DOMAIN parents
      BY <1>5, <1>10
    <3>2. QED
      BY <3>1, <2>2
  <2> HIDE DEF W, h, t
  <2>6. /\ new \in Seq(ChunkRecord) /\ Len(new) = Len(W)
        /\ \A i \in 1..Len(W) : new[i].text = W[i] /\ new[i].parent = h
    BY <1>4, <2>4 DEF ChunkRecord
  <2> HIDE DEF new
  <2>7. /\ m \in Nat /\ DOMAIN chunks = 1..m /\ chunks' \in Seq(ChunkRecord) /\ DOMAIN chunks' = 1..(m + Len(W))
        /\ \A k \in 1..m : chunks'[k] = chunks[k]
        /\ \A i \in 1..Len(W) : chunks'[m + i] = new[i]
    <3>1. m \in Nat /\ DOMAIN chunks = 1..m /\ Len(W) \in Nat
      BY <1>4, <1>5
    <3>2. /\ chunks \o new \in Seq(ChunkRecord) /\ Len(chunks \o new) = m + Len(W)
          /\ \A i \in 1..(m + Len(W)) :
               (chunks \o new)[i] = IF i <= m THEN chunks[i] ELSE new[i - m]
      <4>1. chunks \in Seq(ChunkRecord) /\ new \in Seq(ChunkRecord) /\ Len(new) = Len(W)
        BY <1>5, <2>6
      <4>2. /\ chunks \o new \in Seq(ChunkRecord) /\ Len(chunks \o new) = Len(chunks) + Len(new)
            /\ \A i \in 1..(Len(chunks) + Len(new)) :
                 (chunks \o new)[i] = IF i <= Len(chunks) THEN chunks[i] ELSE new[i - Len(chunks)]
        BY <4>1, ConcatProperties, Zenon
      <4>3. QED
        BY <4>1, <4>2, Zenon
    <3>3. DOMAIN (chunks \o new) = 1..(m + Len(W))
      BY <3>2
    <3> HIDE DEF m
    <3>4. \A k \in 1..m : (chunks \o new)[k] = chunks[k]
      <4>1. \A k \in 1..m : k \in 1..(m + Len(W)) /\ k <= m
        BY <3>1
      <4>2. QED
        BY <4>1, <3>2
    <3>5. \A i \in 1..Len(W) : (chunks \o new)[m + i] = new[i]
      <4>1. \A i \in 1..Len(W) : m + i \in 1..(m + Len(W)) /\ ~(m + i <= m) /\ (m + i) - m = i
        BY <3>1
      <4>2. QED
        BY <4>1, <3>2
    <3>6. QED
      BY <2>1, <3>1, <3>2, <3>3, <3>4, <3>5
  <2> HIDE DEF m
  <2>8. /\ \A i \in 1..Len(W) : m + i \in DOMAIN chunks' /\ chunks'[m + i].text = W[i] /\ chunks'[m + i].parent = h
        /\ \A k \in DOMAIN chunks' : k \in 1..m \/ (k - m \in 1..Len(W) /\ m + (k - m) = k)
        /\ 1..m \subseteq DOMAIN chunks'
    BY <1>4, <2>6, <2>7
  <2>9. \A i \in 1..Len(W) : Found(W[i], Places(text)) /\ Places(W[i]) \subseteq Places(h) /\ Len(W[i]) <= size + overlap
    <3>1. \A i \in 1..Len(W) : Found(W[i], Places(h)) /\ Len(W[i]) <= size + overlap
      BY <1>3, <1>4, <2>2
    <3>2. \A i \in 1..Len(W) : Places(W[i]) \subseteq Places(h)
      BY <3>1 DEF Found
    <3>3. QED
      BY <3>1, <3>2, <2>5, FoundWithin
  <2>10. ChunkTypeOK' /\ (parents' # <<>> => SplitInv')
    BY <1>7, <2>1, <2>4, <2>7
  <2>11. ChunkInv'
    <3>1. ASSUME NEW k \in DOMAIN chunks'
          PROVE  /\ Found(chunks'[k].text, Places(text')) /\ Len(chunks'[k].text) <= Longest(chunks[k])'
                 /\ Places(chunks'[k].text) \subseteq Places(chunks'[k].parent)
                 /\ \A n \in 1..(k - 1) : Leads(Places(chunks'[n].text), Places(chunks'[k].text))
      <4>1. Longest(chunks[k])' = size + overlap
        BY <1>1, <2>2, <2>3 DEF Longest
      <4>2. CASE k \in 1..m
        <5>1. Longest(chunks[k]) = size + overlap
          BY <2>2 DEF Longest
        <5>2. \A n \in 1..(k - 1) : n \in 1..m /\ chunks'[n] = chunks[n]
          BY <4>2, <2>7
        <5>3. chunks'[k] = chunks[k] /\ k \in DOMAIN chunks
          BY <4>2, <2>7
        <5>4. QED
          BY <4>1, <5>1, <5>2, <5>3, <1>1, <1>2 DEF ChunkInv
      <4>3. CASE k - m \in 1..Len(W) /\ m + (k - m) = k
        <5>1. chunks'[k].text = W[k - m] /\ chunks'[k].parent = h
          BY <4>3, <2>8
        <5>2. ASSUME NEW n \in 1..(k - 1)
              PROVE  Leads(Places(chunks'[n].text), Places(W[k - m]))
          <6>1. CASE n \in 1..m
            <7>1. chunks'[n] = chunks[n] /\ Places(chunks[n].text) \subseteq Had
              BY <6>1, <2>7 DEF Had
            <7>2. Places(W[k - m]) \subseteq Covered(parents)
              BY <4>3, <2>4, <2>9
            <7>3. Apart(Places(chunks[n].text), Places(W[k - m]))
              BY <7>1, <7>2, <2>2 DEF Apart
            <7>4. Places(chunks[n].text) \subseteq Nat /\ Places(W[k - m]) \subseteq Nat
              <8>1. chunks[n].text \in Seq(Char) /\ W[k - m] \in Seq(Char)
                <9>1. chunks[n] \in ChunkRecord
                  BY <6>1, <1>5, <2>7
                <9>2. QED
                  BY <9>1, <4>3, <1>4 DEF ChunkRecord
              <8>2. QED
                BY <8>1, PlacesAreNumbers
            <7>5. Leads(Places(chunks[n].text), Places(W[k - m]))
              <8>1. \A i, j \in Nat : i < j => i <= j
                OBVIOUS
              <8>2. QED
                BY <8>1, <7>3, <7>4 DEF Leads, Apart
            <7>6. QED
              BY <7>1, <7>5
          <6>2. CASE n - m \in 1..Len(W) /\ m + (n - m) = n
            <7>1. n - m \in 1..((k - m) - 1)
              BY <6>2, <4>3, <2>7
            <7>2. chunks'[n].text = W[n - m]
              BY <6>2, <2>8
            <7>3. Precedes(W[n - m], W[k - m])
              BY <7>1, <4>3, <1>3, <1>4
            <7>4. QED
              BY <7>2, <7>3 DEF Precedes
          <6>3. n \in DOMAIN chunks'
            BY <2>7, <1>4
          <6>4. QED
            BY <6>1, <6>2, <6>3, <2>8
        <5>3. QED
          BY <5>1, <5>2, <4>1, <4>3, <2>9, <1>1
      <4>4. QED
        BY <4>2, <4>3, <2>8
    <3>2. QED
      BY <3>1 DEF ChunkInv
  <2>12. Had' = Had \cup Places(h)
    <3>1. ASSUME NEW p \in Had'
          PROVE  p \in Had \cup Places(h)
      <4>1. PICK k \in DOMAIN chunks' : p \in Places(chunks'[k].text)
        BY DEF Had
      <4>2. CASE k \in 1..m
        BY <4>1, <4>2, <2>7 DEF Had
      <4>3. CASE k - m \in 1..Len(W) /\ m + (k - m) = k
        <5>1. chunks'[k].text = W[k - m]
          BY <4>3, <2>8
        <5>2. QED
          BY <5>1, <4>1, <4>3, <2>9
      <4>4. QED
        BY <4>2, <4>3, <2>8
    <3>2. ASSUME NEW p \in Had
          PROVE  p \in Had'
      <4>1. PICK k \in DOMAIN chunks : p \in Places(chunks[k].text)
        BY DEF Had
      <4>2. k \in DOMAIN chunks' /\ chunks'[k] = chunks[k]
        BY <2>7, <2>8
      <4>3. QED
        BY <4>1, <4>2 DEF Had
    <3>3. ASSUME NEW p \in Places(h)
          PROVE  p \in Had'
      <4>1. p \in Covered(W)
        BY <1>3, <2>2
      <4>2. PICK i \in DOMAIN W : p \in Places(W[i])
        BY <4>1 DEF Covered
      <4>3. m + i \in DOMAIN chunks' /\ chunks'[m + i].text = W[i]
        BY <1>4, <2>8
      <4>4. QED
        BY <4>2, <4>3 DEF Had
    <3>4. QED
      BY <3>1, <3>2, <3>3
  <2>13. Places(text') \subseteq Had' \cup Covered(parents')
    BY <1>1, <2>1, <2>2, <2>4, <2>12
  <2>14. Apart(Had', Covered(parents'))
    <3>1. Apart(Had, Covered(t)) /\ Apart(Places(h), Covered(t))
      BY <2>2, <2>4 DEF Apart
    <3>2. QED
      BY <3>1, <2>1, <2>12 DEF Apart
  <2>15. CASE parents' = <<>>
    <3>1. stage' = "done" /\ Covered(parents') = {}
      BY <1>1, <2>15, RowOfNone
    <3>2. QED
      BY <3>1, <2>10, <2>11, <2>13, <1>6 DEF ChunkingInv, StageInv
  <2>16. CASE parents' # <<>>
    <3>1. stage' = "split" /\ size' = ChildSize /\ overlap' = ChildOverlap /\ strategy' = "parent_child"
      BY <1>1, <2>2, <2>16
    <3>2. \A i \in DOMAIN parents' : Found(parents'[i], Places(text'))
      BY <1>1, <2>1, <2>5
    <3>3. ParentInv'
      BY <2>1, <2>4, <2>13, <2>14, <2>16, <3>1, <3>2 DEF ParentInv
    <3>4. QED
      BY <3>1, <3>3, <2>10, <2>11, <2>16, <1>6 DEF ChunkingInv, StageInv
  <2>17. QED
    BY <2>15, <2>16
<1>11. QED
  BY <1>8, <1>9, <1>10

-----------------------------------------------------------------------------
(* Windows.                                                                 *)

\* The window, and what the next ones are cut from
LEMMA WindowOf ==
  ASSUME rest \in Seq(Char), rest # <<>>, size \in Nat \ {0}, overlap \in Nat, Orderly(rest),
         NEW r, r = SubSeq(rest, Step + 1, Len(rest))
  PROVE  /\ Window \in Seq(Char) /\ Len(Window) <= size /\ Orderly(Window)
         /\ Places(Window) \subseteq Places(rest)
         /\ \A k \in Places(Window), j \in Places(rest) : j < k => j \in Places(Window)
         /\ r \in Seq(Char) /\ Orderly(r) /\ Places(r) \subseteq Places(rest)
         /\ \A i \in Places(r), j \in Places(rest) : i < j => j \in Places(r)
         /\ Places(rest) \subseteq Places(Window) \cup Places(r)
         /\ Leads(Places(Window), Places(r))
<1> DEFINE n == Len(rest)  w == IF size < n THEN size ELSE n  e == IF Step < n THEN Step ELSE n
           a == SubSeq(rest, 1, e)  z == SubSeq(rest, w + 1, n)
<1>1. n \in Nat \ {0} /\ DOMAIN rest = 1..n
  OBVIOUS
<1> HIDE DEF n
<1>2. Step \in Nat \ {0} /\ Step <= size
  BY DEF Step
<1>3. /\ w \in 1..n /\ e \in 1..n /\ e <= w /\ w <= size /\ Window = SubSeq(rest, 1, w)
  BY <1>1, <1>2 DEF Window, n
<1>4. r = SubSeq(rest, e + 1, n)
  <2>1. CASE Step < n
    BY <2>1 DEF n
  <2>2. CASE ~(Step < n)
    <3>1. \A m \in Int : m > n => SubSeq(rest, m, n) = <<>>
      BY <1>1 DEF n
    <3>2. Step + 1 \in Int /\ Step + 1 > n /\ n + 1 \in Int /\ n + 1 > n /\ e = n
      BY <2>2, <1>1, <1>2
    <3>3. r = SubSeq(rest, Step + 1, n) /\ SubSeq(rest, Step + 1, n) = <<>> /\ SubSeq(rest, e + 1, n) = <<>>
      BY <3>1, <3>2 DEF n
    <3>4. QED
      BY <3>3
  <2>3. QED
    BY <2>1, <2>2
<1> HIDE DEF w, e
<1>5. /\ 1 \in 1..(n + 1) /\ w \in 0..n /\ e \in 0..n /\ e + 1 \in 1..(n + 1) /\ n \in 0..n
      /\ w \in w..n /\ e \in e..n /\ w \in Nat /\ e \in Nat
  BY <1>1, <1>3
<1>6. IsPart(Window, rest, 1, w) /\ IsPart(a, rest, 1, e) /\ IsPart(r, rest, e + 1, n)
  <2>1. IsPart(SubSeq(rest, 1, w), rest, 1, w)
    BY <1>5, PartOf DEF n
  <2>2. IsPart(SubSeq(rest, 1, e), rest, 1, e)
    BY <1>5, PartOf DEF n
  <2>3. IsPart(SubSeq(rest, e + 1, n), rest, e + 1, n)
    BY <1>5, PartOf DEF n
  <2>4. QED
    BY <2>1, <2>2, <2>3, <1>3, <1>4
<1> HIDE DEF a
<1>7. /\ Window \in Seq(Char) /\ Orderly(Window) /\ Places(Window) \subseteq Places(rest)
      /\ Len(Window) = (IF 1 <= w THEN w - 1 + 1 ELSE 0)
  BY <1>6 DEF IsPart
<1>8. r \in Seq(Char) /\ Orderly(r) /\ Places(r) \subseteq Places(rest)
  BY <1>6 DEF IsPart
<1>9. Len(Window) <= size
  BY <1>3, <1>5, <1>7
<1>10. /\ Places(rest) = Places(Window) \cup Places(z) /\ Apart(Places(Window), Places(z))
  <2>1. \A i \in (w + 1)..w : rest[i][1] \notin Ink
    BY <1>5
  <2>2. QED
    BY <2>1, <1>3, <1>5, CutInTwo DEF n
<1>11. Places(rest) = Places(a) \cup Places(r)
  <2>1. \A i \in (e + 1)..e : rest[i][1] \notin Ink
    BY <1>5
  <2>2. Places(rest) = Places(SubSeq(rest, 1, e)) \cup Places(SubSeq(rest, e + 1, n))
    BY <2>1, <1>5, CutInTwo DEF n
  <2>3. QED
    BY <2>2, <1>4 DEF a
<1> HIDE DEF z
<1>12. Places(a) \subseteq Places(Window)
  <2> SUFFICES ASSUME NEW p \in Places(a)
               PROVE  p \in Places(Window)
    OBVIOUS
  <2>1. PICK i \in DOMAIN a : a[i][1] \in Ink /\ a[i][2] = p
    BY PlaceOf
  <2>2. a[i] = rest[1 + i - 1] /\ 1 + i - 1 \in 1..e
    BY <1>6 DEF IsPart
  <2> DEFINE k == 1 + i - 1
  <2>3. a[i] = rest[k] /\ k \in 1..e
    BY <2>2
  <2> HIDE DEF k
  <2>4. k \in 1..w
    BY <2>3, <1>3, <1>5
  <2>5. k - 1 + 1 \in DOMAIN Window /\ Window[k - 1 + 1] = rest[k]
    BY <2>4, <1>6 DEF IsPart
  <2>6. QED
    BY <2>1, <2>3, <2>5, PlaceOf
<1>13. Places(rest) \subseteq Nat
  BY PlacesAreNumbers
<1>14. \A k \in Places(Window), j \in Places(rest) : j < k => j \in Places(Window)
  BY <1>7, <1>10, <1>13 DEF Apart
<1>15. \A i \in Places(r), j \in Places(rest) : i < j => j \in Places(r)
  BY <1>4, <1>5, EndOf DEF n
<1>16. Leads(Places(Window), Places(r))
  <2> SUFFICES ASSUME Places(Window) # {}, NEW j \in Places(r)
               PROVE  \E i \in Places(Window) : i <= j
    BY DEF Leads
  <2>1. j \in Places(rest) /\ j \in Nat
    BY <1>8, <1>13
  <2>2. CASE j \in Places(Window)
    BY <2>1, <2>2
  <2>3. CASE j \in Places(z)
    <3>1. PICK i \in Places(Window) : TRUE
      OBVIOUS
    <3>2. i < j /\ i \in Nat
      BY <2>3, <1>7, <1>10, <1>13 DEF Apart
    <3>3. QED
      BY <2>1, <3>2
  <2>4. QED
    BY <2>1, <2>2, <2>3, <1>10
<1>17. QED
  BY <1>7, <1>8, <1>9, <1>11, <1>12, <1>14, <1>15, <1>16

\* A window is cut off, and the next begins where it overlaps it.
LEMMA SlideInv ==
  ASSUME ChunkingInv, Slide
  PROVE  ChunkingInv'
<1>1. stage = "window" /\ UNCHANGED <<packVars, text, strategy, work, parents>>
  BY DEF Slide
<1>2. UNCHANGED <<size, overlap, pieces, current, merged>>
  BY <1>1 DEF packVars
<1>3. WindowInv /\ ChunkInv /\ StrategyInv /\ ChunkTypeOK
  BY <1>1 DEF ChunkingInv, StageInv
<1>4. strategy = "fixed" /\ Orderly(text') /\ \A i \in DOMAIN text' : text'[i][2] > 0
  BY <1>1, <1>3 DEF StrategyInv
<1>5. CASE rest = <<>>
  <2>1. stage' = "done" /\ rest' = rest /\ chunks' = chunks
    BY <1>5 DEF Slide
  <2>2. ChunkTypeOK'
    BY <2>1, <1>1, <1>2, <1>3 DEF ChunkTypeOK, PackTypeOK
  <2>3. ChunkInv' /\ Had' = Had
    BY <2>1, <1>1, <1>2, <1>3 DEF ChunkInv, Longest, Had
  <2>4. Places(text') \subseteq Had'
    BY <2>3, <1>1, <1>3, <1>5, EmptyHasNone DEF WindowInv
  <2>5. QED
    BY <2>1, <2>2, <2>3, <2>4, <1>4 DEF ChunkingInv, StageInv, StrategyInv
<1>6. CASE rest # <<>>
  <2> DEFINE r == SubSeq(rest, Step + 1, Len(rest))  w == Window
  <2>1. /\ chunks' = IF IsBlank(w) THEN chunks ELSE Append(chunks, Alone(w))
        /\ rest' = r /\ stage' = stage
    BY <1>6 DEF Slide
  <2>2. /\ rest \in Seq(Char) /\ size \in Nat \ {0} /\ overlap \in Nat
    BY <1>3 DEF ChunkTypeOK, PackTypeOK
  <2>3. /\ Orderly(rest) /\ Places(rest) \subseteq Places(text)
        /\ \A i \in Places(rest), j \in Places(text) : i < j => j \in Places(rest)
        /\ Places(text) \subseteq Had \cup Places(rest)
        /\ \A k \in DOMAIN chunks : Leads(Places(chunks[k].text), Places(rest))
    BY <1>3 DEF WindowInv
  <2>4. /\ w \in Seq(Char) /\ Len(w) <= size /\ Orderly(w)
        /\ Places(w) \subseteq Places(rest)
        /\ \A k \in Places(w), j \in Places(rest) : j < k => j \in Places(w)
        /\ r \in Seq(Char) /\ Orderly(r) /\ Places(r) \subseteq Places(rest)
        /\ \A i \in Places(r), j \in Places(rest) : i < j => j \in Places(r)
        /\ Places(rest) \subseteq Places(w) \cup Places(r)
        /\ Leads(Places(w), Places(r))
    BY <2>2, <2>3, <1>6, WindowOf
  <2> HIDE DEF r, w
  <2>5. ~IsBlank(w) => Found(w, Places(text))
    <3>1. Unbroken(Places(w), Places(text))
      BY <2>3, <2>4 DEF Unbroken
    <3>2. QED
      BY <3>1, <2>3, <2>4 DEF Found
  <2>6. Len(w) <= Longest(Alone(w))
    BY <2>4, <1>4 DEF Longest
  <2>7. \A k \in DOMAIN chunks : Leads(Places(chunks[k].text), Places(w)) /\ Leads(Places(chunks[k].text), Places(r))
    BY <2>3, <2>4 DEF Leads
  <2>8. chunks' \in Seq(ChunkRecord) /\ ChunkInv' /\ Had' = Had \cup Places(w)
    <3>1. CASE IsBlank(w)
      <4>1. chunks' = chunks /\ Places(w) = {}
        BY <3>1, <2>1, BlankHasNone
      <4>2. QED
        BY <4>1, <1>1, <1>2, <1>3 DEF ChunkInv, Longest, Had, ChunkTypeOK, ChunkRecord
    <3>2. CASE ~IsBlank(w)
      BY <3>2, <2>1, <2>4, <2>5, <2>6, <2>7, <1>1, <1>2, <1>3, ChunkAdded
    <3>3. QED
      BY <3>1, <3>2
  <2>9. \A k \in DOMAIN chunks' : Leads(Places(chunks'[k].text), Places(r))
    <3>1. CASE IsBlank(w)
      BY <3>1, <2>1, <2>7
    <3>2. CASE ~IsBlank(w)
      <4>1. chunks \in Seq(ChunkRecord) /\ Alone(w) \in ChunkRecord /\ Alone(w).text = w
        BY <2>4, <1>3 DEF ChunkTypeOK, ChunkRecord, Alone
      <4>2. \A k \in DOMAIN chunks' : chunks'[k] = Alone(w) \/ (k \in DOMAIN chunks /\ chunks'[k] = chunks[k])
        BY <3>2, <4>1, <2>1
      <4>3. QED
        BY <4>1, <4>2, <2>4, <2>7
    <3>3. QED
      BY <3>1, <3>2
  <2>10. ChunkTypeOK'
    BY <2>1, <2>4, <2>8, <1>1, <1>2, <1>3 DEF ChunkTypeOK, PackTypeOK, ChunkRecord
  <2>11. WindowInv'
    <3>1. /\ parents' = <<>> /\ Orderly(rest') /\ Places(rest') \subseteq Places(text')
          /\ Places(text') \subseteq Had' \cup Places(rest')
      BY <2>1, <2>3, <2>4, <2>8, <1>1, <1>3 DEF WindowInv
    <3>2. \A i \in Places(rest'), j \in Places(text') : i < j => j \in Places(rest')
      BY <2>1, <2>3, <2>4, <1>1
    <3>3. QED
      BY <3>1, <3>2, <2>1, <2>9 DEF WindowInv
  <2>12. QED
    BY <2>1, <2>8, <2>10, <2>11, <1>1, <1>4 DEF ChunkingInv, StageInv, StrategyInv
<1>7. QED
  BY <1>5, <1>6

-----------------------------------------------------------------------------
(* Sentences.                                                               *)

\* A sentence is read, and blanks after it are skipped.
LEMMA ReadSentenceInv ==
  ASSUME ChunkingInv, ReadSentence
  PROVE  ChunkingInv'
<1> DEFINE ends == {i \in 1..(Len(rest) - 1) : rest[i][1] = "." /\ rest[i + 1][1] \in Blank}
           n == IF ends = {} THEN Len(rest) ELSE Min(ends)
           a == SubSeq(rest, 1, n)  z == SubSeq(rest, n + 1, Len(rest))
<1>1. /\ stage = "sentences" /\ rest # <<>> /\ pieces' = Append(pieces, a) /\ rest' = Strip(z)
      /\ UNCHANGED <<size, overlap, current, merged, text, strategy, stage, work, parents, chunks>>
  BY DEF ReadSentence
<1>2. SentenceInv /\ ChunkInv /\ StrategyInv /\ ChunkTypeOK
  BY <1>1 DEF ChunkingInv, StageInv
<1>3. rest \in Seq(Char) /\ pieces \in Seq(Seq(Char)) /\ text \in Seq(Char)
  BY <1>2 DEF ChunkTypeOK, PackTypeOK
<1>4. Len(rest) \in Nat \ {0} /\ DOMAIN rest = 1..Len(rest) /\ Len(text) \in Nat
  BY <1>1, <1>3
<1>5. n \in 1..Len(rest)
  <2>1. ends \in SUBSET Nat /\ ends \subseteq 1..Len(rest)
    BY <1>4
  <2>2. CASE ends = {}
    BY <2>2, <1>4
  <2>3. CASE ends # {}
    <3>1. Min(ends) \in ends
      BY <2>1, <2>3, MinOf
    <3>2. QED
      BY <2>1, <2>3, <3>1
  <2>4. QED
    BY <2>2, <2>3
<1> HIDE DEF n
<1>6. /\ 1 \in 1..(Len(rest) + 1) /\ n \in 0..Len(rest) /\ n + 1 \in 1..(Len(rest) + 1) /\ Len(rest) \in 0..Len(rest)
      /\ n \in n..Len(rest) /\ 1 \in 1..n /\ n \in Nat
  BY <1>4, <1>5
<1>7. IsPart(a, rest, 1, n) /\ IsPart(z, rest, n + 1, Len(rest))
  BY <1>3, <1>6, PartOf
<1>8. Places(rest) = Places(a) \cup Places(z) /\ (Orderly(rest) => Apart(Places(a), Places(z)))
  <2>1. \A i \in (n + 1)..n : rest[i][1] \notin Ink
    BY <1>6
  <2>2. QED
    BY <2>1, <1>3, <1>6, CutInTwo
<1> HIDE DEF a, z
<1>9. /\ Orderly(rest) /\ FromText(rest) /\ rest[1][1] \notin Blank
      /\ Row(pieces) /\ Apart(Covered(pieces), Places(rest)) /\ Places(text) = Covered(pieces) \cup Places(rest)
      /\ \A i \in DOMAIN pieces : ~IsBlank(pieces[i]) /\ FromText(pieces[i])
  BY <1>1, <1>2 DEF SentenceInv
<1>10. a \in Seq(Char) /\ Orderly(a) /\ ~IsBlank(a) /\ FromText(a)
  <2>1. /\ a \in Seq(Char) /\ Orderly(a) /\ Len(a) = (IF 1 <= n THEN n - 1 + 1 ELSE 0)
        /\ \A i \in DOMAIN a : a[i] = rest[1 + i - 1] /\ 1 + i - 1 \in 1..n
        /\ 1 - 1 + 1 \in DOMAIN a /\ a[1 - 1 + 1] = rest[1]
    BY <1>6, <1>7, <1>9 DEF IsPart
  <2>2. 1 - 1 + 1 = 1
    OBVIOUS
  <2>3. ~IsBlank(a)
    BY <2>1, <2>2, <1>9 DEF IsBlank
  <2>4. Len(a) <= Len(text)
    <3>1. Len(a) = n /\ Len(rest) <= Len(text)
      BY <2>1, <1>5, <1>6, <1>9 DEF FromText
    <3>2. QED
      BY <3>1, <1>4, <1>5
  <2>5. \A i \in DOMAIN a : \E j \in DOMAIN rest : a[i] = rest[j]
    <3>1. 1..n \subseteq DOMAIN rest
      BY <1>4, <1>5
    <3>2. QED
      BY <2>1, <3>1
  <2>6. \A i \in DOMAIN a : a[i][2] > 0
    BY <2>5, <1>9 DEF FromText
  <2>7. QED
    BY <2>1, <2>3, <2>4, <2>6 DEF FromText
<1>11. /\ rest' \in Seq(Char) /\ Orderly(rest') /\ Places(rest') = Places(z) /\ FromText(rest)'
       /\ rest' # <<>> => rest'[1][1] \notin Blank
  <2>1. /\ z \in Seq(Char) /\ Orderly(z) /\ Len(z) = (IF n + 1 <= Len(rest) THEN Len(rest) - (n + 1) + 1 ELSE 0)
        /\ \A i \in DOMAIN z : z[i] = rest[n + 1 + i - 1] /\ n + 1 + i - 1 \in (n + 1)..Len(rest)
    BY <1>7, <1>9 DEF IsPart
  <2>2. \A i \in DOMAIN z : \E j \in DOMAIN rest : z[i] = rest[j]
    <3>1. (n + 1)..Len(rest) \subseteq DOMAIN rest
      BY <1>4, <1>5
    <3>2. QED
      BY <2>1, <3>1
  <2>3. /\ Strip(z) \in Seq(Char) /\ Len(Strip(z)) \in Nat /\ Len(Strip(z)) <= Len(z)
        /\ Places(Strip(z)) = Places(z) /\ Orderly(Strip(z))
        /\ Strip(z) # <<>> => Strip(z)[1][1] \notin Blank
        /\ \A i \in DOMAIN Strip(z) : \E j \in DOMAIN z : Strip(z)[i] = z[j]
    BY <2>1, StripKeeps
  <2>4. Len(z) \in Nat /\ Len(z) <= Len(rest) /\ Len(rest) <= Len(text)
    <3>1. Len(rest) <= Len(text)
      BY <1>9 DEF FromText
    <3>2. \A k, m \in Nat : m + 1 <= k => k - (m + 1) + 1 \in Nat /\ k - (m + 1) + 1 <= k
      OBVIOUS
    <3>3. Len(rest) \in Nat /\ n \in Nat
      BY <1>4, <1>6
    <3>4. CASE n + 1 <= Len(rest)
      BY <2>1, <3>1, <3>2, <3>3, <3>4
    <3>5. CASE ~(n + 1 <= Len(rest))
      BY <2>1, <3>1, <3>3, <3>5
    <3>6. QED
      BY <3>4, <3>5
  <2>5. Len(rest') <= Len(text)
    BY <2>3, <2>4, <1>1, <1>4
  <2>6. \A i \in DOMAIN rest' : rest'[i][2] > 0
    BY <2>2, <2>3, <1>1, <1>9 DEF FromText
  <2>7. FromText(rest)'
    BY <2>5, <2>6, <1>1 DEF FromText
  <2>8. QED
    BY <2>3, <2>7, <1>1
<1>12. /\ pieces' \in Seq(Seq(Char)) /\ Covered(pieces') = Covered(pieces) \cup Places(a)
       /\ Row(pieces')
  <2>1. Apart(Covered(pieces), Places(a))
    BY <1>8, <1>9 DEF Apart
  <2>2. QED
    BY <2>1, <1>1, <1>3, <1>9, <1>10, RowAppend
<1>13. \A i \in DOMAIN pieces' : ~IsBlank(pieces'[i]) /\ FromText(pieces[i])'
  <2>1. \A i \in DOMAIN pieces' : pieces'[i] = a \/ (i \in DOMAIN pieces /\ pieces'[i] = pieces[i])
    BY <1>1, <1>3, <1>10
  <2>2. QED
    BY <2>1, <1>1, <1>9, <1>10 DEF FromText
<1>14. SentenceInv'
  <2>1. Apart(Covered(pieces'), Places(rest'))
    BY <1>8, <1>9, <1>11, <1>12 DEF Apart
  <2>2. Places(text') = Covered(pieces') \cup Places(rest')
    BY <1>1, <1>8, <1>9, <1>11, <1>12
  <2>3. parents' = <<>> /\ chunks' = <<>> /\ current' = <<>>
    BY <1>1, <1>2 DEF SentenceInv
  <2>4. QED
    BY <2>1, <2>2, <2>3, <1>11, <1>12, <1>13 DEF SentenceInv
<1>15. ChunkTypeOK'
  BY <1>1, <1>2, <1>11, <1>12 DEF ChunkTypeOK, PackTypeOK
<1>16. ChunkInv' /\ StrategyInv'
  BY <1>1, <1>2 DEF ChunkInv, Longest, StrategyInv
<1>17. QED
  BY <1>1, <1>14, <1>15, <1>16 DEF ChunkingInv, StageInv

\* A sentence of the text has no blank that joins two.
LEMMA NoSpace ==
  ASSUME NEW s, FromText(s)
  PROVE  Space[1] \notin Range(s)
<1>1. Space[1][2] = 0 /\ ~(0 > 0)
  BY DEF Space
<1>2. QED
  BY <1>1 DEF FromText, Range

\* The first sentence begins the first chunk.
LEMMA FirstSentenceInv ==
  ASSUME ChunkingInv, FirstSentence
  PROVE  ChunkingInv'
<1>1. /\ stage = "sentences" /\ rest = <<>>
      /\ UNCHANGED <<size, overlap, merged, text, strategy, work, rest, parents, chunks>>
  BY DEF FirstSentence
<1>2. SentenceInv /\ ChunkInv /\ StrategyInv /\ ChunkTypeOK
  BY <1>1 DEF ChunkingInv, StageInv
<1>3. pieces \in Seq(Seq(Char)) /\ current \in Seq(Char)
  BY <1>2 DEF ChunkTypeOK, PackTypeOK
<1>4. ChunkInv'
  BY <1>1, <1>2 DEF ChunkInv, Longest
<1>5. /\ parents = <<>> /\ chunks = <<>> /\ Row(pieces) /\ Places(text) = Covered(pieces)
      /\ \A i \in DOMAIN pieces : ~IsBlank(pieces[i]) /\ FromText(pieces[i])
  BY <1>1, <1>2, EmptyHasNone DEF SentenceInv
<1>6. CASE pieces = <<>>
  <2>1. stage' = "done" /\ pieces' = pieces /\ current' = current
    BY <1>6 DEF FirstSentence
  <2>2. Places(text') = {}
    BY <1>1, <1>5, <1>6, RowOfNone
  <2>3. ChunkTypeOK'
    BY <1>1, <1>2, <2>1 DEF ChunkTypeOK, PackTypeOK
  <2>4. StrategyInv'
    BY <1>1, <1>2, <2>1 DEF StrategyInv
  <2>5. QED
    BY <2>1, <2>2, <2>3, <2>4, <1>4 DEF ChunkingInv, StageInv
<1>7. CASE pieces # <<>>
  <2> DEFINE p == Head(pieces)
  <2>1. stage' = "joining" /\ pieces' = Tail(pieces) /\ current' = p
    BY <1>7 DEF FirstSentence
  <2>2. /\ Tail(pieces) \in Seq(Seq(Char)) /\ p \in Seq(Char)
        /\ Covered(pieces) = Places(p) \cup Covered(Tail(pieces))
        /\ Row(Tail(pieces)) /\ Orderly(p) /\ Apart(Places(p), Covered(Tail(pieces)))
    BY <1>3, <1>5, <1>7, RowTail
  <2>3. /\ ~IsBlank(p) /\ FromText(p)
        /\ \A i \in DOMAIN Tail(pieces) : ~IsBlank(Tail(pieces)[i]) /\ FromText(Tail(pieces)[i])
    BY <1>3, <1>5, <1>7
  <2> HIDE DEF p
  <2>4. Had' = {}
    BY <1>1, <1>5 DEF Had
  <2>5. \A i \in DOMAIN pieces' : ~IsBlank(pieces'[i]) /\ FromText(pieces[i])'
    BY <1>1, <2>1, <2>3 DEF FromText
  <2>6. Len(current') <= IF Space[1] \in Range(current') THEN size' ELSE Len(text')
    <3>1. Space[1] \notin Range(p) /\ Len(p) <= Len(text)
      BY <2>3, NoSpace DEF FromText
    <3>2. QED
      BY <3>1, <2>1, <1>1
  <2>7. JoinInv'
    <3>1. Apart(Had', Places(current')) /\ Apart(Had', Covered(pieces'))
      BY <2>4 DEF Apart
    <3>2. Places(text') = Had' \cup Places(current') \cup Covered(pieces')
      BY <1>1, <1>5, <2>1, <2>2, <2>4
    <3>3. parents' = <<>> /\ rest' = <<>>
      BY <1>1, <1>5
    <3>4. /\ Row(pieces') /\ Orderly(current') /\ ~IsBlank(current') /\ Apart(Places(current'), Covered(pieces'))
      BY <2>1, <2>2, <2>3
    <3>5. QED
      BY <3>1, <3>2, <3>3, <3>4, <2>5, <2>6 DEF JoinInv
  <2>8. ChunkTypeOK'
    BY <1>1, <1>2, <2>1, <2>2 DEF ChunkTypeOK, PackTypeOK
  <2>9. StrategyInv'
    BY <1>1, <1>2, <2>1 DEF StrategyInv
  <2>10. QED
    BY <2>1, <2>7, <2>8, <2>9, <1>4 DEF ChunkingInv, StageInv
<1>8. QED
  BY <1>6, <1>7

\* The sentences joined so far can be a chunk.
LEMMA CurrentIsChunk ==
  ASSUME ChunkTypeOK, StrategyInv, JoinInv, stage = "joining"
  PROVE  /\ Found(current, Places(text)) /\ Len(current) <= Longest(Alone(current))
         /\ \A k \in DOMAIN chunks : Leads(Places(chunks[k].text), Places(current))
<1>1. /\ current \in Seq(Char) /\ text \in Seq(Char) /\ chunks \in Seq(ChunkRecord)
  BY DEF ChunkTypeOK, PackTypeOK, ChunkRecord
<1>2. Places(text) \subseteq Nat
  BY <1>1, PlacesAreNumbers
<1>3. /\ Places(text) = Had \cup Places(current) \cup Covered(pieces) /\ Orderly(current) /\ ~IsBlank(current)
      /\ Apart(Had, Places(current)) /\ Apart(Places(current), Covered(pieces))
      /\ Len(current) <= IF Space[1] \in Range(current) THEN size ELSE Len(text)
  BY DEF JoinInv
<1>4. Unbroken(Places(current), Places(text))
  <2> SUFFICES ASSUME NEW i \in Places(current), NEW k \in Places(current), NEW j \in Places(text), i < j, j < k
               PROVE  j \in Places(current)
    BY DEF Unbroken
  <2>1. i \in Nat /\ j \in Nat /\ k \in Nat
    BY <1>2, <1>3
  <2>2. j \notin Had
    <3>1. j \in Had => j < i
      BY <1>3 DEF Apart
    <3>2. QED
      BY <3>1, <2>1
  <2>3. j \notin Covered(pieces)
    <3>1. j \in Covered(pieces) => k < j
      BY <1>3 DEF Apart
    <3>2. QED
      BY <3>1, <2>1
  <2>4. QED
    BY <2>2, <2>3, <1>3
<1>5. Len(current) <= Longest(Alone(current))
  BY <1>3 DEF Longest, Alone, StrategyInv
<1>6. ASSUME NEW k \in DOMAIN chunks
      PROVE  Leads(Places(chunks[k].text), Places(current))
  <2>1. Places(chunks[k].text) \subseteq Had
    BY DEF Had
  <2>2. \A i \in Places(chunks[k].text), j \in Places(current) : i < j /\ i \in Nat /\ j \in Nat
    BY <2>1, <1>2, <1>3 DEF Apart
  <2>3. \A i, j \in Nat : i < j => i <= j
    OBVIOUS
  <2>4. QED
    BY <2>2, <2>3 DEF Leads
<1>7. QED
  BY <1>3, <1>4, <1>5, <1>6 DEF Found

\* A sentence is joined to the chunk or begins the next.
LEMMA JoinSentenceInv ==
  ASSUME ChunkingInv, JoinSentence
  PROVE  ChunkingInv'
<1> DEFINE p == Head(pieces)  C == Places(current)  B == Covered(Tail(pieces))
<1>1. /\ stage = "joining" /\ pieces # <<>> /\ pieces' = Tail(pieces)
      /\ UNCHANGED <<size, overlap, merged, text, strategy, stage, work, rest, parents>>
  BY DEF JoinSentence
<1>2. JoinInv /\ ChunkInv /\ StrategyInv /\ ChunkTypeOK
  BY <1>1 DEF ChunkingInv, StageInv
<1>3. /\ pieces \in Seq(Seq(Char)) /\ current \in Seq(Char) /\ chunks \in Seq(ChunkRecord)
      /\ size \in Nat \ {0} /\ text \in Seq(Char)
  BY <1>2 DEF ChunkTypeOK, PackTypeOK, ChunkRecord
<1>4. /\ Row(pieces) /\ Orderly(current) /\ ~IsBlank(current)
      /\ Places(text) = Had \cup C \cup Covered(pieces)
      /\ Apart(Had, C) /\ Apart(Had, Covered(pieces)) /\ Apart(C, Covered(pieces))
      /\ \A i \in DOMAIN pieces : ~IsBlank(pieces[i]) /\ FromText(pieces[i])
      /\ parents = <<>> /\ rest = <<>>
  BY <1>2 DEF JoinInv
<1>5. /\ Tail(pieces) \in Seq(Seq(Char)) /\ p \in Seq(Char)
      /\ Covered(pieces) = Places(p) \cup B
      /\ Row(Tail(pieces)) /\ Orderly(p) /\ Apart(Places(p), B)
  BY <1>1, <1>3, <1>4, RowTail
<1>6. /\ ~IsBlank(p) /\ FromText(p)
      /\ \A i \in DOMAIN Tail(pieces) : ~IsBlank(Tail(pieces)[i]) /\ FromText(Tail(pieces)[i])
  BY <1>1, <1>3, <1>4
<1> HIDE DEF p
<1>7. Apart(C, Places(p)) /\ Apart(C, B) /\ Apart(Had, Places(p)) /\ Apart(Had, B)
  BY <1>4, <1>5 DEF Apart
<1>8. \A i \in DOMAIN pieces' : ~IsBlank(pieces'[i]) /\ FromText(pieces[i])'
  BY <1>1, <1>6 DEF FromText
<1>9. StrategyInv'
  BY <1>1, <1>2 DEF StrategyInv
<1>10. CASE /\ Len(current) + 1 + Len(p) <= size
            /\ current' = current \o Space \o p
            /\ chunks' = chunks
  <2>1. Space \in Seq(Char) /\ Len(Space) = 1 /\ Places(Space) = {} /\ Orderly(Space) /\ Space[1][1] \in Blank
    <3>1. " " \in Kinds /\ " " \in Blank
      BY ChunkingAssumption, BlankAssumption
    <3>2. <<" ", 0>> \in Char
      BY <3>1 DEF Char
    <3>3. \A c \in Char : <<c>> \in Seq(Char) /\ Len(<<c>>) = 1 /\ DOMAIN <<c>> = {1} /\ <<c>>[1] = c
      OBVIOUS
    <3>4. Space \in Seq(Char) /\ Len(Space) = 1 /\ DOMAIN Space = {1} /\ Space[1][1] = " "
      <4>1. <<<<" ", 0>>>>[1][1] = " "
        OBVIOUS
      <4>2. QED
        BY <3>2, <3>3, <4>1, Zenon DEF Space
    <3>5. IsBlank(Space)
      BY <3>1, <3>4 DEF IsBlank
    <3>6. QED
      BY <3>1, <3>4, <3>5, BlankHasNone
  <2> DEFINE s == current \o Space
  <2>2. s \in Seq(Char) /\ Places(s) = C /\ Orderly(s)
    <3>1. Apart(C, Places(Space))
      BY <2>1 DEF Apart
    <3>2. /\ Places(s) = C \cup Places(Space)
          /\ Orderly(current) /\ Orderly(Space) /\ Apart(C, Places(Space)) => Orderly(s)
      BY <1>3, <2>1, PlacesConcat
    <3>3. QED
      BY <3>1, <3>2, <1>3, <1>4, <2>1
  <2>3. /\ Len(current) \in Nat /\ Len(p) \in Nat /\ Len(s) = Len(current) + 1
        /\ s[Len(current) + 1] = Space[1] /\ \A i \in 1..Len(current) : s[i] = current[i]
        /\ DOMAIN current = 1..Len(current)
    <3>1. current \in Seq(Char) /\ Space \in Seq(Char) /\ Len(Space) = 1 /\ Len(current) \in Nat /\ Len(p) \in Nat
      BY <1>3, <1>5, <2>1
    <3>2. Len(s) = Len(current) + 1 /\ \A i \in 1..(Len(current) + 1) : s[i] = IF i <= Len(current) THEN current[i] ELSE Space[i - Len(current)]
      <4>1. Len(s) = Len(current) + Len(Space) /\ \A i \in 1..(Len(current) + Len(Space)) : s[i] = IF i <= Len(current) THEN current[i] ELSE Space[i - Len(current)]
        BY <3>1, ConcatProperties, Zenon
      <4>2. QED
        BY <3>1, <4>1, Zenon
    <3>3. (Len(current) + 1) - Len(current) = 1 /\ Len(current) + 1 \in 1..(Len(current) + 1) /\ ~(Len(current) + 1 <= Len(current))
      BY <3>1
    <3>4. s[Len(current) + 1] = Space[1]
      BY <3>2, <3>3, Zenon
    <3>5. \A i \in 1..Len(current) : i \in 1..(Len(current) + 1) /\ i <= Len(current)
      BY <3>1
    <3>6. \A i \in 1..Len(current) : s[i] = current[i]
      BY <3>2, <3>5, Zenon
    <3>7. DOMAIN current = 1..Len(current)
      BY <3>1
    <3>8. QED
      BY <3>1, <3>2, <3>4, <3>6, <3>7
  <2> HIDE DEF s
  <2>4. /\ current' \in Seq(Char) /\ Len(current') = Len(s) + Len(p)
        /\ \A i \in 1..Len(s) : current'[i] = s[i]
        /\ DOMAIN current' = 1..(Len(s) + Len(p))
    BY <1>10, <1>5, <2>2 DEF s
  <2>5. Places(current') = C \cup Places(p) /\ Orderly(current')
    BY <1>10, <1>5, <1>7, <2>2, PlacesConcat DEF s
  <2>6. /\ Len(current) + 1 \in DOMAIN current' /\ current'[Len(current) + 1] = Space[1]
        /\ \A i \in DOMAIN current : i \in DOMAIN current' /\ current'[i] = current[i]
    <3>1. Len(current) + 1 \in 1..Len(s) /\ Len(current) + 1 \in 1..(Len(s) + Len(p))
      BY <2>3
    <3>2. \A i \in DOMAIN current : i \in 1..Len(s) /\ i \in 1..(Len(s) + Len(p))
      BY <2>3
    <3>3. current'[Len(current) + 1] = s[Len(current) + 1] /\ Len(current) + 1 \in DOMAIN current'
      BY <3>1, <2>4, Zenon
    <3>4. \A i \in DOMAIN current : i \in DOMAIN current' /\ current'[i] = s[i]
      BY <3>2, <2>4, Zenon
    <3>5. QED
      BY <3>3, <3>4, <2>3, Zenon
  <2>7. ~IsBlank(current')
    BY <2>6, <1>4 DEF IsBlank
  <2>8. Len(current') <= IF Space[1] \in Range(current') THEN size' ELSE Len(text')
    <3>1. Space[1] \in Range(current')
      BY <2>6 DEF Range
    <3>2. Len(current') <= size
      BY <2>3, <2>4, <1>10
    <3>3. QED
      BY <3>1, <3>2, <1>1
  <2>9. Had' = Had /\ ChunkInv'
    BY <1>1, <1>2, <1>10 DEF Had, ChunkInv, Longest
  <2>10. JoinInv'
    <3>1. Apart(Had', Places(current')) /\ Apart(Had', Covered(pieces')) /\ Apart(Places(current'), Covered(pieces'))
      <4>1. Apart(Had, C \cup Places(p)) /\ Apart(Had, B) /\ Apart(C \cup Places(p), B)
        BY <1>4, <1>5, <1>7 DEF Apart
      <4>2. QED
        BY <4>1, <1>1, <2>5, <2>9
    <3>2. Places(text') = Had' \cup Places(current') \cup Covered(pieces')
      BY <1>1, <1>4, <1>5, <2>5, <2>9
    <3>3. parents' = <<>> /\ rest' = <<>> /\ Row(pieces')
      BY <1>1, <1>4, <1>5
    <3>4. QED
      BY <3>1, <3>2, <3>3, <1>8, <2>5, <2>7, <2>8 DEF JoinInv
  <2>11. ChunkTypeOK'
    BY <1>1, <1>2, <1>5, <1>10, <2>4 DEF ChunkTypeOK, PackTypeOK
  <2>12. QED
    BY <1>1, <1>9, <2>9, <2>10, <2>11 DEF ChunkingInv, StageInv
<1>11. CASE current' = p /\ chunks' = Append(chunks, Alone(current))
  <2>1. chunks' \in Seq(ChunkRecord) /\ ChunkInv' /\ Had' = Had \cup C
    BY <1>1, <1>2, <1>3, <1>11, CurrentIsChunk, ChunkAdded
  <2>2. JoinInv'
    <3>1. Apart(Had', Places(current')) /\ Apart(Had', Covered(pieces')) /\ Apart(Places(current'), Covered(pieces'))
      BY <1>1, <1>5, <1>7, <1>11, <2>1 DEF Apart
    <3>2. Places(text') = Had' \cup Places(current') \cup Covered(pieces')
      BY <1>1, <1>4, <1>5, <1>11, <2>1
    <3>3. parents' = <<>> /\ rest' = <<>> /\ Row(pieces') /\ Orderly(current') /\ ~IsBlank(current')
      BY <1>1, <1>4, <1>5, <1>6, <1>11
    <3>4. Len(current') <= IF Space[1] \in Range(current') THEN size' ELSE Len(text')
      <4>1. Space[1] \notin Range(p) /\ Len(p) <= Len(text)
        BY <1>6, NoSpace DEF FromText
      <4>2. QED
        BY <4>1, <1>1, <1>11
    <3>5. QED
      BY <3>1, <3>2, <3>3, <3>4, <1>8 DEF JoinInv
  <2>3. ChunkTypeOK'
    BY <1>1, <1>2, <1>5, <1>11, <2>1 DEF ChunkTypeOK, PackTypeOK, ChunkRecord
  <2>4. QED
    BY <1>1, <1>9, <2>1, <2>2, <2>3 DEF ChunkingInv, StageInv
<1>12. QED
  BY <1>10, <1>11 DEF JoinSentence, p

\* The last chunk is ended.
LEMMA EndSentencesInv ==
  ASSUME ChunkingInv, EndSentences
  PROVE  ChunkingInv'
<1>1. /\ stage = "joining" /\ pieces = <<>> /\ chunks' = Append(chunks, Alone(current))
      /\ current' = <<>> /\ stage' = "done"
      /\ UNCHANGED <<size, overlap, pieces, merged, text, strategy, work, rest, parents>>
  BY DEF EndSentences
<1>2. JoinInv /\ ChunkInv /\ StrategyInv /\ ChunkTypeOK
  BY <1>1 DEF ChunkingInv, StageInv
<1>3. current \in Seq(Char)
  BY <1>2 DEF ChunkTypeOK, PackTypeOK
<1>4. chunks' \in Seq(ChunkRecord) /\ ChunkInv' /\ Had' = Had \cup Places(current)
  BY <1>1, <1>2, <1>3, CurrentIsChunk, ChunkAdded
<1>5. Places(text') \subseteq Had'
  BY <1>1, <1>2, <1>4, RowOfNone DEF JoinInv
<1>6. ChunkTypeOK'
  BY <1>1, <1>2, <1>4 DEF ChunkTypeOK, PackTypeOK, ChunkRecord
<1>7. StrategyInv'
  BY <1>1, <1>2 DEF StrategyInv
<1>8. QED
  BY <1>1, <1>4, <1>5, <1>6, <1>7 DEF ChunkingInv, StageInv

-----------------------------------------------------------------------------
(* The chunks cover the text.                                               *)

\* Before the first step all of the text is in hand.
LEMMA ChunkingStarts ==
  ASSUME ChunkInit
  PROVE  ChunkingInv
<1>1. /\ text \in {Marked(t) : t \in Texts} /\ strategy \in Strategies /\ size \in Sizes
      /\ overlap \in IF strategy \in {"fixed", "recursive"} THEN Overlaps ELSE {0}
      /\ pieces = <<>> /\ current = <<>> /\ merged = <<>> /\ parents = <<>> /\ chunks = <<>>
  BY DEF ChunkInit
<1>2. /\ text \in Seq(Char) /\ Orderly(text) /\ \A i \in DOMAIN text : text[i][2] > 0
      /\ Len(text) \in Nat
  <2>1. PICK t \in Texts : text = Marked(t)
    BY <1>1
  <2>2. t \in Seq(Kinds)
    BY ChunkingAssumption
  <2>3. text \in Seq(Char) /\ Orderly(text) /\ \A i \in DOMAIN text : text[i][2] > 0
    BY <2>1, <2>2, MarkedText
  <2>4. QED
    BY <2>3
<1>3. size \in Nat \ {0} /\ overlap \in Nat /\ (strategy = "parent_child" => overlap = 0)
  <2>1. Sizes \subseteq Nat \ {0} /\ Overlaps \subseteq Nat
    BY ChunkingAssumption
  <2>2. QED
    BY <1>1, <2>1
<1>4. /\ pieces \in Seq(Seq(Char)) /\ current \in Seq(Char) /\ merged \in Seq(Seq(Char))
      /\ parents \in Seq(Seq(Char)) /\ chunks \in Seq([text : Seq(Char), parent : Seq(Char)])
  BY <1>1
<1>5. ChunkInv /\ Had = {}
  BY <1>1 DEF ChunkInv, Had
<1>6. Row(pieces) /\ Covered(pieces) = {} /\ Row(parents) /\ Covered(parents) = {}
  BY <1>1, RowOfNone
<1>7. ASSUME stage \in {"split", "pack", "window", "sentences", "joining", "done"},
             work \in Seq(Item), rest \in Seq(Char)
      PROVE  ChunkTypeOK
  BY <1>1, <1>2, <1>3, <1>4, <1>7 DEF ChunkTypeOK, PackTypeOK
<1>8. CASE strategy = "fixed"
  <2>1. stage = "window" /\ work = <<>> /\ rest = text
    BY <1>8 DEF ChunkInit
  <2>2. work \in Seq(Item)
    BY <2>1
  <2>3. WindowInv
    <3>1. Places(text) \subseteq Had \cup Places(rest)
      BY <2>1
    <3>2. \A k \in DOMAIN chunks : Leads(Places(chunks[k].text), Places(rest))
      BY <1>1
    <3>3. QED
      BY <3>1, <3>2, <1>1, <1>2, <2>1 DEF WindowInv
  <2>4. QED
    BY <2>1, <2>2, <2>3, <1>2, <1>5, <1>7, <1>8 DEF ChunkingInv, StageInv, StrategyInv
<1>9. CASE strategy = "semantic"
  <2>1. stage = "sentences" /\ work = <<>> /\ rest = Strip(text)
    BY <1>9 DEF ChunkInit
  <2>2. /\ rest \in Seq(Char) /\ Len(rest) \in Nat /\ Len(rest) <= Len(text) /\ Places(rest) = Places(text)
        /\ Orderly(rest) /\ (rest # <<>> => rest[1][1] \notin Blank)
        /\ \A i \in DOMAIN rest : \E j \in DOMAIN text : rest[i] = text[j]
    BY <2>1, <1>2, StripKeeps
  <2>3. FromText(rest)
    BY <2>2, <1>2 DEF FromText
  <2>4. work \in Seq(Item)
    BY <2>1
  <2>5. SentenceInv
    <3>1. Apart(Covered(pieces), Places(rest)) /\ Places(text) = Covered(pieces) \cup Places(rest)
      BY <1>6, <2>2 DEF Apart
    <3>2. \A i \in DOMAIN pieces : ~IsBlank(pieces[i]) /\ FromText(pieces[i])
      BY <1>1
    <3>3. QED
      BY <3>1, <3>2, <1>1, <1>6, <2>2, <2>3 DEF SentenceInv
  <2>6. QED
    BY <2>1, <2>2, <2>4, <2>5, <1>2, <1>5, <1>7, <1>9 DEF ChunkingInv, StageInv, StrategyInv
<1>10. CASE strategy \in {"recursive", "parent_child"}
  <2>1. stage = "split" /\ work = <<Call(text, 1)>> /\ rest = <<>>
    BY <1>10 DEF ChunkInit
  <2>2. /\ work \in Seq(Item)
        /\ Row(TextsOf(work)) /\ Covered(TextsOf(work)) = Places(text)
        /\ \A i \in DOMAIN work : WorkOf(work[i])
    BY <2>1, <1>2, SplitStart
  <2>3. rest \in Seq(Char)
    BY <2>1
  <2>4. Source = text
    BY <1>1 DEF Source
  <2>5. SplitInv
    <3>1. /\ Apart(Covered(pieces), Covered(TextsOf(work)))
          /\ Covered(pieces) \cup Covered(TextsOf(work)) = Places(Source)
      BY <1>6, <2>2, <2>4 DEF Apart
    <3>2. \A i \in DOMAIN pieces : Len(pieces[i]) <= size
      BY <1>1
    <3>3. QED
      BY <3>1, <3>2, <1>1, <1>6, <2>2 DEF SplitInv
  <2>6. ParentInv
    <3>1. \A i \in DOMAIN parents : Found(parents[i], Places(text))
      BY <1>1
    <3>2. Apart(Had, Covered(parents))
      BY <1>5 DEF Apart
    <3>3. QED
      BY <3>1, <3>2, <1>1, <1>3, <1>6 DEF ParentInv
  <2>7. QED
    BY <2>1, <2>2, <2>3, <2>5, <2>6, <1>2, <1>5, <1>7, <1>10 DEF ChunkingInv, StageInv, StrategyInv
<1>11. QED
  BY <1>1, <1>8, <1>9, <1>10 DEF Strategies

\* Every turn of a loop keeps what is in hand and what is done together.
LEMMA ChunkingStep ==
  ASSUME ChunkingInv, [Next]_<<packVars, chunkVars, answerVars>>
  PROVE  ChunkingInv'
<1>1. CASE UNCHANGED <<packVars, chunkVars>>
  <2>1. UNCHANGED <<size, overlap, pieces, current, merged, text, strategy, stage, work, rest, parents, chunks>>
    BY <1>1 DEF packVars, chunkVars
  <2>2. ChunkTypeOK' /\ StrategyInv' /\ ChunkInv'
    BY <2>1 DEF ChunkingInv, ChunkTypeOK, PackTypeOK, StrategyInv, ChunkInv, Longest
  <2>3. Had' = Had /\ Source' = Source /\ Taken' = Taken
    BY <2>1 DEF Had, Source, Taken
  <2>4. StageInv'
    <3>1. StageInv
      BY DEF ChunkingInv
    <3>2. (SplitInv => SplitInv') /\ (ParentInv => ParentInv')
      BY <2>1, <2>3 DEF SplitInv, ParentInv
    <3>3. PackInv => PackInv'
      BY <2>1, <2>3 DEF PackInv, MergedOf, Precedes
    <3>4. WindowInv => WindowInv'
      BY <2>1, <2>3 DEF WindowInv
    <3>5. (SentenceInv => SentenceInv') /\ (JoinInv => JoinInv')
      BY <2>1, <2>3 DEF SentenceInv, JoinInv, FromText
    <3>6. QED
      BY <3>1, <3>2, <3>3, <3>4, <3>5, <2>1, <2>3 DEF StageInv
  <2>5. QED
    BY <2>2, <2>4 DEF ChunkingInv
<1>2. CASE ChunkNext
  <2>1. CASE Keep
    BY <2>1, KeepInv
  <2>2. CASE CutOff
    BY <2>2, CutOffInv
  <2>3. CASE BeginPacking
    BY <2>3, BeginPackingInv
  <2>4. CASE PackPiece
    <3>1. stage = "pack" /\ (Extend \/ Cut) /\ UNCHANGED chunkVars
      BY <2>4 DEF PackPiece
    <3>2. QED
      BY <3>1, ExtendInv, CutInv
  <2>5. CASE Return
    BY <2>5, ReturnInv
  <2>6. CASE Slide
    BY <2>6, SlideInv
  <2>7. CASE ReadSentence
    BY <2>7, ReadSentenceInv
  <2>8. CASE FirstSentence
    BY <2>8, FirstSentenceInv
  <2>9. CASE JoinSentence
    BY <2>9, JoinSentenceInv
  <2>10. CASE EndSentences
    BY <2>10, EndSentencesInv
  <2>11. QED
    BY <1>2, <2>1, <2>2, <2>3, <2>4, <2>5, <2>6, <2>7, <2>8, <2>9, <2>10 DEF ChunkNext
<1>3. QED
  BY <1>1, <1>2 DEF Next, Chunk, AskAbout, Search

\* What the loops have in hand and the finished chunks have all of the text.
LEMMA ChunkingIsInvariant == Spec => []ChunkingInv
<1>1. Init => ChunkingInv
  BY ChunkingStarts DEF Init
<1>2. ChunkingInv /\ [Next]_<<packVars, chunkVars, answerVars>> => ChunkingInv'
  BY ChunkingStep
<1>3. QED
  BY <1>1, <1>2, PTL DEF Spec

\* Whatever the text, the strategy, the sizes and the separators, the chunks
\* cover the text: no character that is neither blank nor part of a separator is
\* lost, and every chunk is an unbroken stretch of the text, in its order, no
\* longer than the strategy allows (chunkers.py).
THEOREM SpecChunksCoverText == Spec => []ChunksCoverText
<1>1. ChunkingInv => ChunksCoverText
  <2> SUFFICES ASSUME ChunkingInv, stage = "done"
               PROVE  /\ \A i \in Places(text) : \E k \in DOMAIN chunks : i \in Places(chunks[k].text)
                      /\ \A k \in DOMAIN chunks :
                           /\ ~IsBlank(chunks[k].text) /\ Len(chunks[k].text) <= Longest(chunks[k])
                           /\ Orderly(chunks[k].text) /\ Unbroken(Places(chunks[k].text), Places(text))
                           /\ Places(chunks[k].text) \subseteq Places(text) \cap Places(chunks[k].parent)
                           /\ \A n \in 1..(k - 1) : Leads(Places(chunks[n].text), Places(chunks[k].text))
    BY Zenon DEF ChunksCoverText
  <2>1. ChunkInv /\ Places(text) \subseteq Had
    BY DEF ChunkingInv, StageInv
  <2>2. QED
    BY <2>1 DEF ChunkInv, Found, Had
<1>2. QED
  BY <1>1, ChunkingIsInvariant, PTL

-----------------------------------------------------------------------------
(* Sorting.                                                                 *)

\* R puts the elements of S in one order.
Orders(R, S) ==
  /\ \A x \in S : <<x, x>> \notin R
  /\ \A x, y \in S : x # y => <<x, y>> \in R \/ <<y, x>> \in R
  /\ \A x, y, z \in S : <<x, y>> \in R /\ <<y, z>> \in R => <<x, z>> \in R

SortedAs(e, R) ==
  /\ IsInjective(e)
  /\ \A i, j \in DOMAIN e : i < j => <<e[i], e[j]>> \in R

\* Every element has its number: one more than there are before it.
LEMMA Numbered ==
  ASSUME NEW S, IsFiniteSet(S), NEW R, Orders(R, S)
  PROVE  \E f \in [S -> 1..Cardinality(S)] :
           \A x, y \in S : <<x, y>> \in R => f[x] < f[y]
<1> DEFINE B(x) == {y \in S : <<y, x>> \in R}
           f == [x \in S |-> Cardinality(B(x)) + 1]
<1>1. Cardinality(S) \in Nat
  BY FS_CardinalityType
<1>2. ASSUME NEW x \in S
      PROVE  IsFiniteSet(B(x)) /\ Cardinality(B(x)) \in Nat /\ Cardinality(B(x)) + 1 \in 1..Cardinality(S)
  <2>1. B(x) \in SUBSET (S \ {x})
    BY DEF Orders
  <2>2. IsFiniteSet(S \ {x}) /\ Cardinality(S \ {x}) = Cardinality(S) - 1
    BY FS_RemoveElement
  <2>3. IsFiniteSet(B(x)) /\ Cardinality(B(x)) <= Cardinality(S \ {x})
    BY <2>1, <2>2, FS_Subset
  <2>4. Cardinality(B(x)) \in Nat
    BY <2>3, FS_CardinalityType
  <2>5. QED
    BY <2>2, <2>3, <2>4, <1>1
<1>3. ASSUME NEW x \in S, NEW y \in S, <<x, y>> \in R
      PROVE  Cardinality(B(x)) < Cardinality(B(y))
  <2>1. B(x) \in SUBSET B(y)
    BY <1>3 DEF Orders
  <2>2. x \in B(y) /\ x \notin B(x)
    BY <1>3 DEF Orders
  <2>3. /\ Cardinality(B(x)) <= Cardinality(B(y))
        /\ Cardinality(B(y)) = Cardinality(B(x)) => B(y) = B(x)
    BY <2>1, <1>2, FS_Subset
  <2>4. Cardinality(B(x)) # Cardinality(B(y))
    BY <2>2, <2>3
  <2>5. Cardinality(B(x)) \in Nat /\ Cardinality(B(y)) \in Nat
    BY <1>2
  <2> HIDE DEF B
  <2>6. QED
    BY <2>3, <2>4, <2>5
<1>4. f \in [S -> 1..Cardinality(S)]
  BY <1>2
<1>5. ASSUME NEW x \in S, NEW y \in S, <<x, y>> \in R
      PROVE  f[x] < f[y]
  <2>1. Cardinality(B(x)) < Cardinality(B(y)) /\ Cardinality(B(x)) \in Nat /\ Cardinality(B(y)) \in Nat
    BY <1>2, <1>3, <1>5
  <2>2. f[x] = Cardinality(B(x)) + 1 /\ f[y] = Cardinality(B(y)) + 1
    OBVIOUS
  <2> HIDE DEF B, f
  <2>3. QED
    BY <2>1, <2>2
<1>6. QED
  BY <1>4, <1>5

\* A sequence without repetitions as long as S is large has all of S.
LEMMA AllOf ==
  ASSUME NEW S, IsFiniteSet(S), NEW e \in [1..Cardinality(S) -> S], IsInjective(e)
  PROVE  Range(e) = S
<1>1. Cardinality(S) \in Nat
  BY FS_CardinalityType
<1>2. IsFiniteSet(1..Cardinality(S)) /\ Cardinality(1..Cardinality(S)) = Cardinality(S)
  BY <1>1, FS_Interval
<1>3. e \in Injection(1..Cardinality(S), S)
  BY DEF Injection, IsInjective
<1>4. e \in Surjection(1..Cardinality(S), S)
  BY <1>2, <1>3, FS_Injection
<1>5. QED
  BY <1>4 DEF Surjection, Range

\* Sorting gives the elements in order, each one once.
LEMMA SortedIs ==
  ASSUME NEW S, IsFiniteSet(S), NEW R, Orders(R, S)
  PROVE  /\ Sorted(S, R) \in [1..Cardinality(S) -> S] /\ Cardinality(S) \in Nat
         /\ SortedAs(Sorted(S, R), R) /\ Range(Sorted(S, R)) = S
<1> DEFINE n == Cardinality(S)
<1>1. n \in Nat
  BY FS_CardinalityType
<1> HIDE DEF n
<1>2. PICK f \in [S -> 1..n] : \A x, y \in S : <<x, y>> \in R => f[x] < f[y]
  BY Numbered DEF n
<1>3. IsInjective(f)
  <2> SUFFICES ASSUME NEW x \in S, NEW y \in S, f[x] = f[y], x # y
               PROVE  FALSE
    BY DEF IsInjective
  <2>1. f[x] < f[y] \/ f[y] < f[x]
    BY <1>2 DEF Orders
  <2>2. f[x] \in Int /\ f[y] \in Int
    BY <1>1
  <2>3. QED
    BY <2>1, <2>2
<1>4. f \in Surjection(S, 1..n)
  <2>1. f \in Injection(S, 1..n)
    BY <1>3 DEF Injection, IsInjective
  <2>2. IsFiniteSet(1..n) /\ Cardinality(1..n) = Cardinality(S)
    BY <1>1, FS_Interval DEF n
  <2>3. QED
    BY <2>1, <2>2, FS_Injection
<1> DEFINE e == [i \in 1..n |-> CHOOSE x \in S : f[x] = i]
<1>5. \A i \in 1..n : e[i] \in S /\ f[e[i]] = i
  <2> SUFFICES ASSUME NEW i \in 1..n
               PROVE  e[i] \in S /\ f[e[i]] = i
    OBVIOUS
  <2>1. \E x \in S : f[x] = i
    BY <1>4 DEF Surjection
  <2>2. QED
    BY <2>1
<1>6. e \in [1..n -> S] /\ DOMAIN e = 1..n
  BY <1>5
<1> HIDE DEF e
<1>7. SortedAs(e, R)
  <2>1. IsInjective(e)
    BY <1>5, <1>6 DEF IsInjective
  <2>2. ASSUME NEW i \in 1..n, NEW j \in 1..n, i < j
        PROVE  <<e[i], e[j]>> \in R
    <3>1. e[i] \in S /\ e[j] \in S /\ f[e[i]] = i /\ f[e[j]] = j
      BY <1>5
    <3>2. i # j /\ ~(j < i)
      BY <2>2, <1>1
    <3>3. <<e[j], e[i]>> \notin R
      BY <3>1, <3>2, <1>2
    <3>4. e[i] # e[j]
      BY <3>1, <3>2
    <3>5. QED
      BY <3>1, <3>3, <3>4 DEF Orders
  <2>3. QED
    BY <2>1, <2>2, <1>6 DEF SortedAs
<1>8. Sorted(S, R) \in [1..n -> S] /\ SortedAs(Sorted(S, R), R)
  BY <1>6, <1>7 DEF Sorted, SortedAs, n
<1>9. Range(Sorted(S, R)) = S
  BY <1>8, AllOf DEF SortedAs, n
<1>10. QED
  BY <1>1, <1>8, <1>9 DEF n

-----------------------------------------------------------------------------
(* Rankings.                                                                *)

\* The rank of an element is where it is.
LEMMA RankOf ==
  ASSUME NEW n \in Nat, NEW T, NEW s \in [1..n -> T], IsInjective(s)
  PROVE  /\ \A x \in Range(s) : Rank(s, x) \in 1..n /\ s[Rank(s, x)] = x
         /\ \A i \in 1..n : s[i] \in Range(s) /\ Rank(s, s[i]) = i
<1>1. DOMAIN s = 1..n
  OBVIOUS
<1>2. ASSUME NEW x \in Range(s)
      PROVE  Rank(s, x) \in 1..n /\ s[Rank(s, x)] = x
  <2>1. \E i \in 1..n : s[i] = x
    BY <1>1 DEF Range
  <2>2. QED
    BY <2>1, <1>1 DEF Rank
<1>3. ASSUME NEW i \in 1..n
      PROVE  s[i] \in Range(s) /\ Rank(s, s[i]) = i
  <2>1. s[i] \in Range(s)
    BY <1>1 DEF Range
  <2>2. Rank(s, s[i]) \in 1..n /\ s[Rank(s, s[i])] = s[i]
    BY <2>1, <1>2
  <2>3. QED
    BY <2>1, <2>2, <1>1 DEF IsInjective
<1>4. QED
  BY <1>2, <1>3

\* A ranking of S is a sequence of it without repetitions.
LEMMA RankingOf ==
  ASSUME NEW S, IsFiniteSet(S), NEW k \in Nat \ {0}, NEW r \in Rankings(S, k)
  PROVE  /\ r \in Seq(S) /\ IsInjective(r) /\ Len(r) \in Nat /\ r \in [1..Len(r) -> S]
         /\ Len(r) <= k /\ Len(r) <= Cardinality(S) /\ Range(r) \subseteq S
         /\ (S # {} => Range(r) # {} /\ r # <<>>)
<1> DEFINE n == IF Cardinality(S) < k THEN Cardinality(S) ELSE k
<1>1. Cardinality(S) \in Nat /\ (S # {} => Cardinality(S) # 0)
  BY FS_CardinalityType, FS_EmptySet
<1>2. r \in [1..n -> S] /\ IsInjective(r)
  BY DEF Rankings
<1>3. n \in Nat /\ n <= k /\ n <= Cardinality(S) /\ (S # {} => n > 0)
  BY <1>1
<1> HIDE DEF n
<1>4. r \in Seq(S) /\ Len(r) = n /\ DOMAIN r = 1..n
  BY <1>2, <1>3
<1>5. Range(r) \subseteq S
  BY <1>2, <1>4 DEF Range
<1>6. S # {} => 1 \in DOMAIN r
  BY <1>3, <1>4
<1>7. S # {} => Range(r) # {} /\ r # <<>>
  BY <1>6 DEF Range
<1>8. QED
  BY <1>2, <1>3, <1>4, <1>5, <1>7

\* The top of a sequence is a beginning of it.
LEMMA TopOf ==
  ASSUME NEW S, NEW s \in Seq(S), NEW n \in Nat \ {0}
  PROVE  /\ Top(s, n) \in Seq(S) /\ Len(Top(s, n)) \in Nat
         /\ Len(Top(s, n)) = (IF Len(s) < n THEN Len(s) ELSE n)
         /\ DOMAIN Top(s, n) = 1..Len(Top(s, n))
         /\ \A i \in DOMAIN Top(s, n) : i \in DOMAIN s /\ Top(s, n)[i] = s[i]
         /\ \A i \in DOMAIN s : i <= n => i \in DOMAIN Top(s, n)
         /\ (IsInjective(s) => IsInjective(Top(s, n)))
         /\ Range(Top(s, n)) \subseteq Range(s) /\ (s # <<>> => Top(s, n) # <<>>)
<1> DEFINE m == IF Len(s) < n THEN Len(s) ELSE n  t == Top(s, n)
<1>1. /\ m \in 0..Len(s) /\ m \in Nat /\ m <= n /\ Len(s) \in Nat /\ DOMAIN s = 1..Len(s)
      /\ \A i \in 1..Len(s) : i <= n => i <= m
      /\ s # <<>> => m > 0
  OBVIOUS
<1>2. t \in Seq(S) /\ Len(t) = m /\ DOMAIN t = 1..m /\ \A i \in 1..m : t[i] = s[i]
  BY <1>1 DEF Top
<1> HIDE DEF m, t
<1>3. \A i \in 1..m : i \in DOMAIN s
  BY <1>1
<1>4. \A i \in DOMAIN s : i <= n => i \in 1..m
  BY <1>1
<1>5. IsInjective(s) => IsInjective(t)
  BY <1>2, <1>3 DEF IsInjective
<1>6. Range(t) \subseteq Range(s)
  BY <1>2, <1>3 DEF Range
<1>7. s # <<>> => t # <<>>
  <2>1. s # <<>> => Len(t) # 0
    BY <1>1, <1>2
  <2>2. Len(<<>>) = 0
    OBVIOUS
  <2>3. QED
    BY <2>1, <2>2
<1>8. QED
  BY <1>1, <1>2, <1>3, <1>4, <1>5, <1>6, <1>7 DEF t, m

-----------------------------------------------------------------------------
(* Scores, which are fractions.                                             *)

\* Multiplying by a positive number keeps the order.
LEMMA Times ==
  ASSUME NEW a \in Nat, NEW b \in Nat, NEW k \in Nat \ {0}
  PROVE  /\ a * k \in Nat
         /\ a > b <=> a * k > b * k
         /\ a = b <=> a * k = b * k
         /\ a >= b <=> a * k >= b * k
  OBVIOUS

\* A product of positive numbers is positive.
LEMMA TimesPositive ==
  ASSUME NEW a \in Nat \ {0}, NEW b \in Nat \ {0}
  PROVE  a * b \in Nat \ {0}
  OBVIOUS

\* Factors may be reordered.
LEMMA Reorder ==
  ASSUME NEW a \in Nat, NEW b \in Nat, NEW c \in Nat
  PROVE  (a * b) * c = (a * c) * b /\ a * b = b * a
  OBVIOUS

\* a/b, c/d and e/f are compared.
LEMMA FractionsOrder ==
  ASSUME NEW a \in Nat, NEW b \in Nat \ {0}, NEW c \in Nat, NEW d \in Nat \ {0},
         NEW e \in Nat, NEW f \in Nat \ {0},
         a * d >= c * b, c * f >= e * d
  PROVE  /\ a * f >= e * b
         /\ a * d > c * b \/ c * f > e * d => a * f > e * b
         /\ a * d = c * b /\ c * f = e * d => a * f = e * b
<1>1. /\ a * d \in Nat /\ c * b \in Nat /\ c * f \in Nat /\ e * d \in Nat /\ a * f \in Nat /\ e * b \in Nat
  BY Times
<1>2. /\ (a * d) * f >= (c * b) * f
      /\ a * d > c * b => (a * d) * f > (c * b) * f
      /\ a * d = c * b => (a * d) * f = (c * b) * f
      /\ (a * d) * f \in Nat /\ (c * b) * f \in Nat
  BY <1>1, Times
<1>3. /\ (c * f) * b >= (e * d) * b
      /\ c * f > e * d => (c * f) * b > (e * d) * b
      /\ c * f = e * d => (c * f) * b = (e * d) * b
      /\ (c * f) * b \in Nat /\ (e * d) * b \in Nat
  BY <1>1, Times
<1>4. (a * d) * f = (a * f) * d /\ (c * b) * f = (c * f) * b /\ (e * d) * b = (e * b) * d
  BY Reorder
<1>5. /\ (a * f) * d >= (e * b) * d <=> a * f >= e * b
      /\ (a * f) * d > (e * b) * d <=> a * f > e * b
      /\ (a * f) * d = (e * b) * d <=> a * f = e * b
      /\ (a * f) * d \in Nat /\ (e * b) * d \in Nat
  BY <1>1, Times
<1>6. \A p, q, r \in Nat : p >= q /\ q >= r => p >= r /\ (p > q \/ q > r => p > r) /\ (p = q /\ q = r => p = r)
  OBVIOUS
<1>7. QED
  BY <1>2, <1>3, <1>4, <1>5, <1>6

\* A sum grows with its parts: a/b + c/d and e/f + g/h.
LEMMA SumsOrder ==
  ASSUME NEW a \in Nat, NEW b \in Nat \ {0}, NEW c \in Nat, NEW d \in Nat \ {0},
         NEW e \in Nat, NEW f \in Nat \ {0}, NEW g \in Nat, NEW h \in Nat \ {0},
         a * f >= e * b, c * h >= g * d, a * f > e * b \/ c * h > g * d
  PROVE  (a * d + c * b) * (f * h) > (e * h + g * f) * (b * d)
<1>1. b * d \in Nat \ {0} /\ f * h \in Nat \ {0} /\ d * h \in Nat \ {0} /\ b * f \in Nat \ {0}
  BY TimesPositive
<1>2. a * f \in Nat /\ e * b \in Nat /\ c * h \in Nat /\ g * d \in Nat
  BY Times
<1>3. /\ (a * f) * (d * h) >= (e * b) * (d * h)
      /\ a * f > e * b => (a * f) * (d * h) > (e * b) * (d * h)
      /\ (a * f) * (d * h) \in Nat /\ (e * b) * (d * h) \in Nat
  BY <1>1, <1>2, Times
<1>4. /\ (c * h) * (b * f) >= (g * d) * (b * f)
      /\ c * h > g * d => (c * h) * (b * f) > (g * d) * (b * f)
      /\ (c * h) * (b * f) \in Nat /\ (g * d) * (b * f) \in Nat
  BY <1>1, <1>2, Times
<1>5. (a * d + c * b) * (f * h) = (a * f) * (d * h) + (c * h) * (b * f)
  OBVIOUS
<1>6. (e * h + g * f) * (b * d) = (e * b) * (d * h) + (g * d) * (b * f)
  OBVIOUS
<1>7. \A p, q, r, s \in Nat : p >= q /\ r >= s /\ (p > q \/ r > s) => p + r > q + s
  OBVIOUS
<1>8. (a * f) * (d * h) + (c * h) * (b * f) > (e * b) * (d * h) + (g * d) * (b * f)
  BY <1>3, <1>4, <1>7
<1>9. QED
  BY <1>5, <1>6, <1>8

\* Two rankings
TwoRankings(d, s) ==
  /\ d \in Seq(corpus) /\ s \in Seq(corpus) /\ IsInjective(d) /\ IsInjective(s)
  /\ Len(d) <= Cardinality(corpus) /\ Len(s) <= Cardinality(corpus)

\* The rank of x, or one after them all
Place(r, x) == IF x \in Range(r) THEN Rank(r, x) ELSE Cardinality(corpus) + 1

\* The rank of an element of a sequence without repetitions
LEMMA RankIn ==
  ASSUME NEW T, NEW r \in Seq(T), IsInjective(r)
  PROVE  /\ Len(r) \in Nat /\ DOMAIN r = 1..Len(r)
         /\ \A x \in Range(r) : Rank(r, x) \in 1..Len(r) /\ r[Rank(r, x)] = x
         /\ \A i \in 1..Len(r) : r[i] \in Range(r) /\ Rank(r, r[i]) = i
<1> DEFINE n == Len(r)
<1>1. n \in Nat /\ r \in [1..n -> T] /\ DOMAIN r = 1..n
  OBVIOUS
<1> HIDE DEF n
<1>2. /\ \A x \in Range(r) : Rank(r, x) \in 1..n /\ r[Rank(r, x)] = x
      /\ \A i \in 1..n : r[i] \in Range(r) /\ Rank(r, r[i]) = i
  BY <1>1, RankOf
<1>3. QED
  BY <1>1, <1>2 DEF n

\* A better rank has a greater share, whichever the ranking.
LEMMA ShareOf ==
  ASSUME IsFiniteSet(corpus), RrfK \in Nat \ {0}, NEW d, NEW s, TwoRankings(d, s),
         NEW r \in {d, s}, NEW t \in {d, s}, NEW x, NEW y
  PROVE  /\ Share(r, x)[1] \in Nat /\ Share(r, x)[2] \in Nat \ {0}
         /\ Place(r, x) \in Nat \ {0}
         /\ Place(r, x) <= Place(t, y) => Share(r, x)[1] * Share(t, y)[2] >= Share(t, y)[1] * Share(r, x)[2]
         /\ Place(r, x) < Place(t, y) => Share(r, x)[1] * Share(t, y)[2] > Share(t, y)[1] * Share(r, x)[2]
<1> DEFINE c == Cardinality(corpus)
<1>1. c \in Nat
  BY FS_CardinalityType
<1>2. ASSUME NEW q \in {d, s}, NEW z \in Range(q)
      PROVE  Rank(q, z) \in 1..c
  <2>1. q \in Seq(corpus) /\ IsInjective(q) /\ Len(q) <= c
    BY DEF TwoRankings
  <2>2. Len(q) \in Nat /\ Rank(q, z) \in 1..Len(q)
    BY <2>1, RankIn
  <2> HIDE DEF c
  <2>3. QED
    BY <2>1, <2>2, <1>1
<1> HIDE DEF c
<1>3. CASE x \in Range(r) /\ y \in Range(t)
  <2>1. /\ Share(r, x) = <<1, RrfK + Rank(r, x)>> /\ Share(t, y) = <<1, RrfK + Rank(t, y)>>
        /\ Place(r, x) = Rank(r, x) /\ Place(t, y) = Rank(t, y)
    BY <1>3 DEF Share, Place
  <2>2. QED
    BY <2>1, <1>1, <1>2, <1>3
<1>4. CASE x \in Range(r) /\ y \notin Range(t)
  <2>1. /\ Share(r, x) = <<1, RrfK + Rank(r, x)>> /\ Share(t, y) = <<0, 1>>
        /\ Place(r, x) = Rank(r, x) /\ Place(t, y) = c + 1
    BY <1>4 DEF Share, Place, c
  <2>2. QED
    BY <2>1, <1>1, <1>2, <1>4
<1>5. CASE x \notin Range(r) /\ y \in Range(t)
  <2>1. /\ Share(t, y) = <<1, RrfK + Rank(t, y)>> /\ Share(r, x) = <<0, 1>>
        /\ Place(t, y) = Rank(t, y) /\ Place(r, x) = c + 1
    BY <1>5 DEF Share, Place, c
  <2>2. QED
    BY <2>1, <1>1, <1>2, <1>5
<1>6. CASE x \notin Range(r) /\ y \notin Range(t)
  <2>1. /\ Share(t, y) = <<0, 1>> /\ Share(r, x) = <<0, 1>>
        /\ Place(t, y) = c + 1 /\ Place(r, x) = c + 1
    BY <1>6 DEF Share, Place, c
  <2>2. QED
    BY <2>1, <1>1
<1>7. QED
  BY <1>3, <1>4, <1>5, <1>6

\* The score is one fraction made of two.
LEMMA ScoreOf ==
  ASSUME IsFiniteSet(corpus), RrfK \in Nat \ {0}, NEW d, NEW s, TwoRankings(d, s), NEW x
  PROVE  /\ Score(d, s, x)[1] \in Nat /\ Score(d, s, x)[2] \in Nat \ {0}
         /\ Score(d, s, x)[1] = Share(d, x)[1] * Share(s, x)[2] + Share(s, x)[1] * Share(d, x)[2]
         /\ Score(d, s, x)[2] = Share(d, x)[2] * Share(s, x)[2]
<1>1. /\ Share(d, x)[1] \in Nat /\ Share(d, x)[2] \in Nat \ {0}
      /\ Share(s, x)[1] \in Nat /\ Share(s, x)[2] \in Nat \ {0}
  BY ShareOf
<1>2. /\ Score(d, s, x)[1] = Share(d, x)[1] * Share(s, x)[2] + Share(s, x)[1] * Share(d, x)[2]
      /\ Score(d, s, x)[2] = Share(d, x)[2] * Share(s, x)[2]
  BY DEF Score
<1>3. /\ Share(d, x)[1] * Share(s, x)[2] \in Nat /\ Share(s, x)[1] * Share(d, x)[2] \in Nat
      /\ Share(d, x)[2] * Share(s, x)[2] \in Nat \ {0}
  BY <1>1, Times, TimesPositive
<1>4. \A p, q \in Nat : p + q \in Nat
  OBVIOUS
<1>5. QED
  BY <1>2, <1>3, <1>4

\* What both rankings together put higher has the greater score.
LEMMA BetterScores ==
  ASSUME IsFiniteSet(corpus), RrfK \in Nat \ {0}, NEW d, NEW s, TwoRankings(d, s), NEW x, NEW y,
         \/ Place(d, x) <= Place(d, y) /\ Place(s, x) <= Place(s, y)
              /\ (Place(d, x) < Place(d, y) \/ Place(s, x) < Place(s, y))
         \/ Place(d, x) <= Place(s, y) /\ Place(s, x) <= Place(d, y)
              /\ (Place(d, x) < Place(s, y) \/ Place(s, x) < Place(d, y))
  PROVE  Before(d, s, x, y)
<1> DEFINE a == Share(d, x)[1]  b == Share(d, x)[2]  c == Share(s, x)[1]  m == Share(s, x)[2]
           e == Share(d, y)[1]  f == Share(d, y)[2]  g == Share(s, y)[1]  h == Share(s, y)[2]
<1>1. /\ a \in Nat /\ b \in Nat \ {0} /\ c \in Nat /\ m \in Nat \ {0}
      /\ e \in Nat /\ f \in Nat \ {0} /\ g \in Nat /\ h \in Nat \ {0}
  BY ShareOf
<1>2. /\ Score(d, s, x)[1] = a * m + c * b /\ Score(d, s, x)[2] = b * m
      /\ Score(d, s, y)[1] = e * h + g * f /\ Score(d, s, y)[2] = f * h
  BY ScoreOf
<1>3. /\ Place(d, x) <= Place(d, y) => a * f >= e * b
      /\ Place(d, x) < Place(d, y) => a * f > e * b
      /\ Place(s, x) <= Place(s, y) => c * h >= g * m
      /\ Place(s, x) < Place(s, y) => c * h > g * m
  BY ShareOf
<1>4. /\ Place(d, x) <= Place(s, y) => a * h >= g * b
      /\ Place(d, x) < Place(s, y) => a * h > g * b
      /\ Place(s, x) <= Place(d, y) => c * f >= e * m
      /\ Place(s, x) < Place(d, y) => c * f > e * m
  BY ShareOf
<1>5. (a * m + c * b) * (f * h) > (e * h + g * f) * (b * m) => Before(d, s, x, y)
  BY <1>2 DEF Before
<1> HIDE DEF a, b, c, m, e, f, g, h
<1>6. CASE a * f >= e * b /\ c * h >= g * m /\ (a * f > e * b \/ c * h > g * m)
  BY <1>1, <1>5, <1>6, SumsOrder
<1>7. CASE a * h >= g * b /\ c * f >= e * m /\ (a * h > g * b \/ c * f > e * m)
  <2>1. (a * m + c * b) * (h * f) > (g * f + e * h) * (b * m)
    BY <1>1, <1>7, SumsOrder
  <2>2. f * h = h * f
    BY <1>1, Reorder
  <2>3. g * f \in Nat /\ e * h \in Nat
    BY <1>1, Times
  <2>4. g * f + e * h = e * h + g * f
    BY <2>3
  <2>5. QED
    BY <2>1, <2>2, <2>4, <1>5
<1>8. QED
  BY <1>3, <1>4, <1>6, <1>7

\* Before is an order, as no two passages are met at once.
LEMMA BeforeOrders ==
  ASSUME IsFiniteSet(corpus), RrfK \in Nat \ {0}, NEW d, NEW s, TwoRankings(d, s)
  PROVE  LET S == Range(d) \cup Range(s)
         IN Orders({p \in S \X S : Before(d, s, p[1], p[2])}, S)
<1> DEFINE S == Range(d) \cup Range(s)  R == {p \in S \X S : Before(d, s, p[1], p[2])}
           N(x) == Score(d, s, x)[1]  M(x) == Score(d, s, x)[2]
<1>1. ASSUME NEW x \in S
      PROVE  Seen(d, s, x) \in Nat
  <2>1. CASE x \in Range(d)
    <3>1. Rank(d, x) \in 1..Len(d) /\ Len(d) \in Nat
      BY <2>1, RankIn DEF TwoRankings
    <3>2. QED
      BY <2>1, <3>1 DEF Seen
  <2>2. CASE x \notin Range(d)
    <3>1. Rank(s, x) \in 1..Len(s) /\ Len(s) \in Nat /\ Len(d) \in Nat
      BY <2>2, RankIn DEF TwoRankings
    <3>2. QED
      BY <2>2, <3>1 DEF Seen
  <2>3. QED
    BY <2>1, <2>2
<1>2. ASSUME NEW x \in S, NEW y \in S, Seen(d, s, x) = Seen(d, s, y)
      PROVE  x = y
  <2>0. /\ d \in Seq(corpus) /\ s \in Seq(corpus) /\ IsInjective(d) /\ IsInjective(s)
    BY DEF TwoRankings
  <2>1. /\ Len(d) \in Nat /\ Len(s) \in Nat
        /\ \A z \in Range(d) : Rank(d, z) \in 1..Len(d) /\ d[Rank(d, z)] = z
        /\ \A z \in Range(s) : Rank(s, z) \in 1..Len(s) /\ s[Rank(s, z)] = z
    BY <2>0, RankIn
  <2>2. CASE x \in Range(d) /\ y \in Range(d)
    <3>1. Rank(d, x) = Rank(d, y)
      BY <1>2, <2>2 DEF Seen
    <3>2. QED
      BY <3>1, <2>1, <2>2
  <2>3. CASE x \in Range(d) /\ y \notin Range(d)
    <3>1. Rank(d, x) = Len(d) + Rank(s, y) /\ Rank(d, x) \in 1..Len(d) /\ Rank(s, y) \in 1..Len(s)
      BY <1>2, <2>1, <2>3 DEF Seen
    <3>2. QED
      BY <3>1, <2>1
  <2>4. CASE x \notin Range(d) /\ y \in Range(d)
    <3>1. Rank(d, y) = Len(d) + Rank(s, x) /\ Rank(d, y) \in 1..Len(d) /\ Rank(s, x) \in 1..Len(s)
      BY <1>2, <2>1, <2>4 DEF Seen
    <3>2. QED
      BY <3>1, <2>1
  <2>5. CASE x \notin Range(d) /\ y \notin Range(d)
    <3>1. Len(d) + Rank(s, x) = Len(d) + Rank(s, y) /\ Rank(s, y) \in 1..Len(s) /\ Rank(s, x) \in 1..Len(s)
      BY <1>2, <2>1, <2>5 DEF Seen
    <3>2. Rank(s, x) = Rank(s, y)
      BY <3>1, <2>1
    <3>3. QED
      BY <3>2, <2>1, <2>5
  <2>6. QED
    BY <2>2, <2>3, <2>4, <2>5
<1>3. \A x \in S : N(x) \in Nat /\ M(x) \in Nat \ {0}
  BY ScoreOf
<1>4. \A x, y \in S : <<x, y>> \in R <=>
        N(x) * M(y) > N(y) * M(x) \/ (N(x) * M(y) = N(y) * M(x) /\ Seen(d, s, x) < Seen(d, s, y))
  BY DEF Before
<1>5. \A x, y \in S : N(x) * M(y) \in Nat
  BY <1>3, Times
<1> HIDE DEF S, R, N, M
<1>6. ASSUME NEW x \in S
      PROVE  <<x, x>> \notin R
  BY <1>1, <1>4, <1>5
<1>7. ASSUME NEW x \in S, NEW y \in S, x # y
      PROVE  <<x, y>> \in R \/ <<y, x>> \in R
  <2>1. Seen(d, s, x) # Seen(d, s, y)
    BY <1>2, <1>7
  <2>2. /\ Seen(d, s, x) \in Nat /\ Seen(d, s, y) \in Nat
        /\ N(x) * M(y) \in Nat /\ N(y) * M(x) \in Nat
    BY <1>1, <1>5
  <2>3. \A p, q, u, v \in Nat : u # v => p > q \/ (p = q /\ u < v) \/ q > p \/ (q = p /\ v < u)
    OBVIOUS
  <2>4. QED
    BY <2>1, <2>2, <2>3, <1>4
<1>8. ASSUME NEW x \in S, NEW y \in S, NEW z \in S, <<x, y>> \in R, <<y, z>> \in R
      PROVE  <<x, z>> \in R
  <2>1. /\ N(x) * M(y) > N(y) * M(x) \/ (N(x) * M(y) = N(y) * M(x) /\ Seen(d, s, x) < Seen(d, s, y))
        /\ N(y) * M(z) > N(z) * M(y) \/ (N(y) * M(z) = N(z) * M(y) /\ Seen(d, s, y) < Seen(d, s, z))
    BY <1>4, <1>8
  <2>2. /\ N(x) * M(y) \in Nat /\ N(y) * M(x) \in Nat /\ N(y) * M(z) \in Nat /\ N(z) * M(y) \in Nat
        /\ Seen(d, s, x) \in Nat /\ Seen(d, s, y) \in Nat /\ Seen(d, s, z) \in Nat
    BY <1>1, <1>5
  <2>3. N(x) * M(y) >= N(y) * M(x) /\ N(y) * M(z) >= N(z) * M(y)
    BY <2>1, <2>2
  <2>4. /\ N(x) * M(y) > N(y) * M(x) \/ N(y) * M(z) > N(z) * M(y) => N(x) * M(z) > N(z) * M(x)
        /\ N(x) * M(y) = N(y) * M(x) /\ N(y) * M(z) = N(z) * M(y) => N(x) * M(z) = N(z) * M(x)
    BY <2>3, <1>3, FractionsOrder
  <2>5. Seen(d, s, x) < Seen(d, s, y) /\ Seen(d, s, y) < Seen(d, s, z) => Seen(d, s, x) < Seen(d, s, z)
    BY <2>2
  <2>6. QED
    BY <2>1, <2>4, <2>5, <1>4
<1>9. Orders(R, S)
  BY <1>6, <1>7, <1>8 DEF Orders
<1>10. QED
  BY <1>9 DEF R, S

\* Fusion lists what either ranking has, in that order.
LEMMA FusionOf ==
  ASSUME IsFiniteSet(corpus), RrfK \in Nat \ {0}, NEW d, NEW s, TwoRankings(d, s)
  PROVE  /\ Fusion(d, s) \in Seq(corpus) /\ IsInjective(Fusion(d, s))
         /\ Range(Fusion(d, s)) = Range(d) \cup Range(s)
         /\ \A i, j \in DOMAIN Fusion(d, s) : i < j => Before(d, s, Fusion(d, s)[i], Fusion(d, s)[j])
         /\ \A x, y \in Range(d) \cup Range(s) : ~(Before(d, s, x, y) /\ Before(d, s, y, x))
<1> DEFINE S == Range(d) \cup Range(s)  R == {p \in S \X S : Before(d, s, p[1], p[2])}  e == Sorted(S, R)
<1>1. S \subseteq corpus
  BY DEF TwoRankings, Range
<1>2. IsFiniteSet(S)
  BY <1>1, FS_Subset
<1>3. Orders(R, S)
  BY BeforeOrders
<1> HIDE DEF S, R
<1>4. /\ e \in [1..Cardinality(S) -> S] /\ Cardinality(S) \in Nat /\ SortedAs(e, R) /\ Range(e) = S
  BY <1>2, <1>3, SortedIs
<1> HIDE DEF e
<1>5. e \in Seq(corpus)
  BY <1>1, <1>4
<1>6. \A x, y \in S : <<x, y>> \in R <=> Before(d, s, x, y)
  BY DEF R
<1>7. \A i, j \in DOMAIN e : i < j => Before(d, s, e[i], e[j])
  BY <1>4, <1>6 DEF SortedAs
<1>8. \A x, y \in S : ~(Before(d, s, x, y) /\ Before(d, s, y, x))
  BY <1>3, <1>6 DEF Orders
<1>9. Fusion(d, s) = e
  BY DEF Fusion, e, R, S
<1>10. QED
  BY <1>4, <1>5, <1>7, <1>8, <1>9 DEF SortedAs, S

-----------------------------------------------------------------------------
(* The inductive invariant of the answering.                                *)

\* What the searches found is in the pool once; in deep research, what the first
\* i searches found is at its first i * PerStepK places.
PoolInv ==
  /\ IsInjective(pool)
  /\ \A i \in DOMAIN finds : \A x \in Range(finds[i]) :
       \E j \in DOMAIN pool : pool[j] = x /\ (mode = "research" => j <= i * PerStepK)
  /\ mode = "research" => Len(pool) <= Len(finds) * PerStepK
  /\ finds # <<>> /\ corpus # {} => pool # <<>>

FusedInv ==
  /\ dense \in Rankings(corpus, DenseK) /\ sparse \in Rankings(corpus, SparseK)
  /\ fused = Top(Fusion(dense, sparse), CandidateK)

AnswerInv ==
  /\ AnswerTypeOK /\ IsFiniteSet(corpus) /\ PoolInv
  /\ asking \in {"search", "fused"} => left >= 1
  /\ asking = "fused" => FusedInv
  /\ asking = "compose" => finds # <<>>
  /\ asking = "idle" => /\ dense = <<>> /\ sparse = <<>> /\ fused = <<>> /\ finds = <<>> /\ pool = <<>>
                        /\ reply = NoReply
  /\ asking = "done" => EvidenceIsRanked

\* The constants are positive numbers.
LEMMA Bounds ==
  /\ RrfK \in Nat \ {0} /\ DenseK \in Nat \ {0} /\ SparseK \in Nat \ {0} /\ CandidateK \in Nat \ {0}
  /\ TopN \in Nat \ {0} /\ PerStepK \in Nat \ {0} /\ MaxSources \in Nat \ {0} /\ MaxSubQuestions \in Nat \ {0}
  BY AnsweringAssumption

\* The types of the rankings, one by one
LEMMA AnswerTypes ==
  ASSUME AnswerTypeOK
  PROVE  /\ dense \in Seq(corpus) /\ sparse \in Seq(corpus) /\ fused \in Seq(corpus) /\ pool \in Seq(corpus)
         /\ finds \in Seq(Seq(corpus)) /\ Len(pool) \in Nat /\ Len(finds) \in Nat
         /\ DOMAIN pool = 1..Len(pool) /\ DOMAIN finds = 1..Len(finds)
<1>1. /\ dense \in Seq(corpus) /\ sparse \in Seq(corpus) /\ fused \in Seq(corpus) /\ pool \in Seq(corpus)
      /\ finds \in Seq(Seq(corpus))
  BY DEF AnswerTypeOK
<1>2. QED
  BY <1>1

\* The two searches of a question are rankings of the corpus.
LEMMA BothRank ==
  ASSUME IsFiniteSet(corpus), NEW d \in Rankings(corpus, DenseK), NEW s \in Rankings(corpus, SparseK)
  PROVE  /\ TwoRankings(d, s)
         /\ corpus # {} => Range(d) # {}
<1>1. /\ d \in Seq(corpus) /\ IsInjective(d) /\ Len(d) <= Cardinality(corpus)
      /\ (corpus # {} => Range(d) # {})
  BY Bounds, RankingOf
<1>2. /\ s \in Seq(corpus) /\ IsInjective(s) /\ Len(s) <= Cardinality(corpus)
  BY Bounds, RankingOf
<1>3. QED
  BY <1>1, <1>2 DEF TwoRankings

\* What outranks has one of the two better matches.
LEMMA BetterMatches ==
  ASSUME NEW a \in Nat, NEW b \in Nat, NEW c \in Nat, NEW e \in Nat,
         NEW p, p = (IF a <= b THEN <<a, b>> ELSE <<b, a>>),
         NEW q, q = (IF c <= e THEN <<c, e>> ELSE <<e, c>>),
         p # q, p[1] <= q[1], p[2] <= q[2]
  PROVE  \/ a <= c /\ b <= e /\ (a < c \/ b < e)
         \/ a <= e /\ b <= c /\ (a < e \/ b < c)
  OBVIOUS

\* The fusion of two rankings is fair to both, also where it is cut.
LEMMA FusedIsFair ==
  ASSUME IsFiniteSet(corpus), FusedInv
  PROVE  FusionIsFair
<1> DEFINE f == Fusion(dense, sparse)  S == Range(dense) \cup Range(sparse)
<1>1. TwoRankings(dense, sparse)
  BY BothRank DEF FusedInv
<1>2. /\ f \in Seq(corpus) /\ IsInjective(f) /\ Range(f) = S
      /\ \A i, j \in DOMAIN f : i < j => Before(dense, sparse, f[i], f[j])
      /\ \A x, y \in S : ~(Before(dense, sparse, x, y) /\ Before(dense, sparse, y, x))
  BY <1>1, Bounds, FusionOf
<1>3. fused = Top(f, CandidateK)
  BY DEF FusedInv
<1> HIDE DEF f
<1>4. /\ fused \in Seq(corpus) /\ IsInjective(fused) /\ Len(fused) \in Nat /\ DOMAIN fused = 1..Len(fused)
      /\ Len(fused) = (IF Len(f) < CandidateK THEN Len(f) ELSE CandidateK)
      /\ \A i \in DOMAIN fused : i \in DOMAIN f /\ fused[i] = f[i]
      /\ \A i \in DOMAIN f : i <= CandidateK => i \in DOMAIN fused
      /\ Range(fused) \subseteq Range(f)
  BY <1>2, <1>3, Bounds, TopOf
<1>5. Len(f) \in Nat /\ DOMAIN f = 1..Len(f)
  BY <1>2
<1>6. ASSUME NEW x \in S, NEW y \in Range(fused), Outranks(x, y)
      PROVE  x \in Range(fused) /\ Rank(fused, x) < Rank(fused, y)
  <2>1. Before(dense, sparse, x, y)
    <3> DEFINE a == Place(dense, x)  b == Place(sparse, x)  c == Place(dense, y)  e == Place(sparse, y)
    <3>1. a \in Nat /\ b \in Nat /\ c \in Nat /\ e \in Nat
      BY <1>1, Bounds, ShareOf
    <3>2. /\ Ranks(x) = (IF a <= b THEN <<a, b>> ELSE <<b, a>>)
          /\ Ranks(y) = (IF c <= e THEN <<c, e>> ELSE <<e, c>>)
      BY DEF Ranks, Place
    <3>3. Ranks(x) # Ranks(y) /\ Ranks(x)[1] <= Ranks(y)[1] /\ Ranks(x)[2] <= Ranks(y)[2]
      BY <1>6 DEF Outranks
    <3> HIDE DEF a, b, c, e
    <3>4. \/ a <= c /\ b <= e /\ (a < c \/ b < e)
          \/ a <= e /\ b <= c /\ (a < e \/ b < c)
      BY <3>1, <3>2, <3>3, BetterMatches
    <3>5. QED
      BY <3>4, <1>1, Bounds, BetterScores DEF a, b, c, e
  <2>2. PICK j \in DOMAIN fused : fused[j] = y
    BY DEF Range
  <2>3. j \in DOMAIN f /\ f[j] = y
    BY <2>2, <1>4
  <2>4. PICK i \in DOMAIN f : f[i] = x
    BY <1>2 DEF Range
  <2>5. x # y
    BY <1>6 DEF Outranks
  <2>6. ~(j < i)
    <3>1. j < i => Before(dense, sparse, y, x)
      BY <1>2, <2>3, <2>4
    <3>2. y \in S
      BY <1>2, <1>4
    <3>3. QED
      BY <3>1, <3>2, <2>1, <1>2
  <2>7. i # j
    BY <2>3, <2>4, <2>5
  <2>8. i < j /\ i <= CandidateK
    <3>1. j <= Len(fused) /\ CandidateK \in Nat /\ i \in Nat /\ j \in Nat
      BY <1>4, <1>5, <2>2, <2>4, Bounds
    <3>2. Len(fused) <= CandidateK
      BY <1>4, <1>5, Bounds
    <3>3. QED
      BY <3>1, <3>2, <2>6, <2>7, <1>4
  <2>9. i \in DOMAIN fused /\ fused[i] = x
    BY <2>4, <2>8, <1>4
  <2>10. Rank(fused, x) = i /\ Rank(fused, y) = j /\ x \in Range(fused)
    BY <2>2, <2>9, <1>4, RankIn
  <2>11. QED
    BY <2>8, <2>10
<1>7. QED
  BY <1>6 DEF FusionIsFair

-----------------------------------------------------------------------------
(* Every step keeps it.                                                     *)

\* A reply that cites nothing is a reply.
LEMMA ReplyOf ==
  ASSUME NEW z \in {"none", "refused", "error"}, NEW C
  PROVE  /\ [NoReply EXCEPT !.status = z].status = z
         /\ [NoReply EXCEPT !.status = z] \in
              [status : {"none", "refused", "error", "declined", "answered"},
               citations : Seq(C), grounding : {"grounded", "partial", "ungrounded"},
               followUps : Range(Rules) \cup {"none", "general"}, steps : Seq(Nat)]
<1> DEFINE F == Range(Rules) \cup {"none", "general"}
<1>1. "none" \in F
  OBVIOUS
<1>2. <<>> \in Seq(C) /\ <<>> \in Seq(Nat)
  OBVIOUS
<1>3. [NoReply EXCEPT !.status = z] =
        [status |-> z, citations |-> <<>>, grounding |-> "ungrounded", followUps |-> "none", steps |-> <<>>]
  BY DEF NoReply
<1> HIDE DEF F
<1>4. z \in {"none", "refused", "error", "declined", "answered"}
  OBVIOUS
<1>5. [NoReply EXCEPT !.status = z] \in
        [status : {"none", "refused", "error", "declined", "answered"},
         citations : Seq(C), grounding : {"grounded", "partial", "ungrounded"},
         followUps : F, steps : Seq(Nat)]
  BY <1>1, <1>2, <1>3, <1>4
<1>6. QED
  BY <1>3, <1>5 DEF F

\* A question begins with nothing found.
LEMMA AskInv ==
  ASSUME AnswerInv, ChunkTypeOK, NEW q \in Questions, AskAbout(q)
  PROVE  AnswerInv'
<1> DEFINE n == Len(chunks)
<1>1. n \in Nat
  BY DEF ChunkTypeOK
<1>2. /\ asking = "idle" /\ corpus' = 1..n /\ mode' = q.mode
      /\ indexable' = (\E k \in DOMAIN chunks : Places(chunks[k].text) # {})
      /\ UNCHANGED <<dense, sparse, fused, finds, pool>>
  BY DEF AskAbout, Ask
<1>3. indexable' \in BOOLEAN
  BY <1>2
<1> HIDE DEF n
<1>4. q \in Question
  BY AnsweringAssumption
<1>5. q.mode \in {"answer", "research", "stream"} /\ q.hits \subseteq Range(Rules) /\ q.parts \in Nat
  BY <1>4 DEF Question
<1>6. /\ dense = <<>> /\ sparse = <<>> /\ fused = <<>> /\ finds = <<>> /\ pool = <<>> /\ reply = NoReply
      /\ AnswerTypeOK /\ PoolInv
  BY <1>2 DEF AnswerInv
<1>7. IsFiniteSet(corpus') /\ corpus' \subseteq Nat
  BY <1>1, <1>2, FS_Interval
<1>8. /\ {dense, sparse, fused, pool}' \subseteq Seq(corpus') /\ finds' \in Seq(Seq(corpus'))
  BY <1>2, <1>6
<1>9. PoolInv'
  <2>1. /\ DOMAIN pool' = {} /\ DOMAIN finds' = {} /\ finds' = <<>> /\ Len(pool') = 0 /\ Len(finds') = 0
    BY <1>2, <1>6
  <2>2. 0 * PerStepK = 0
    BY Bounds
  <2>3. QED
    BY <2>1, <2>2 DEF PoolInv, IsInjective
<1>10. Classify(q.hits) \in Range(Rules) \cup {"general"}
  <2>1. CASE q.hits = {}
    BY <2>1 DEF Classify
  <2>2. CASE q.hits # {}
    <3> DEFINE A == {i \in DOMAIN Rules : Rules[i] \in q.hits}
    <3>1. DOMAIN Rules \subseteq Nat
      BY DEF Rules
    <3>2. A \in SUBSET Nat /\ A # {}
      BY <2>2, <3>1, <1>5 DEF Range
    <3>3. Min(A) \in A
      BY <3>2, MinOf
    <3>4. Classify(q.hits) = Rules[Min(A)]
      BY <2>2 DEF Classify
    <3>5. QED
      BY <3>3, <3>4 DEF Range
  <2>3. QED
    BY <2>1, <2>2
<1>11. ASSUME asking' \in {"idle", "search", "fused", "compose", "done"}, kind' \in Range(Rules) \cup {"general"},
              left' \in 0..MaxSubQuestions, 
              reply' \in [status : {"none", "refused", "error", "declined", "answered"},
                          citations : Seq(corpus'), grounding : {"grounded", "partial", "ungrounded"},
                          followUps : Range(Rules) \cup {"none", "general"}, steps : Seq(Nat)]
       PROVE  AnswerTypeOK'
  BY <1>2, <1>3, <1>5, <1>7, <1>8, <1>11 DEF AnswerTypeOK
<1>12. \A z \in {"none", "refused"} :
         [NoReply EXCEPT !.status = z] \in
           [status : {"none", "refused", "error", "declined", "answered"},
            citations : Seq(corpus'), grounding : {"grounded", "partial", "ungrounded"},
            followUps : Range(Rules) \cup {"none", "general"}, steps : Seq(Nat)]
  BY ReplyOf
<1>13. CASE q.refused
  <2>1. asking' = "done" /\ reply' = [NoReply EXCEPT !.status = "refused"] /\ kind' = kind /\ left' = left
    BY <1>13 DEF AskAbout, Ask
  <2>2. AnswerTypeOK'
    BY <2>1, <1>6, <1>11, <1>12 DEF AnswerTypeOK
  <2>3. reply'.status = "refused"
    BY <2>1 DEF NoReply
  <2>4. EvidenceIsRanked'
    BY <2>1, <2>3 DEF EvidenceIsRanked
  <2>5. QED
    BY <2>1, <2>2, <2>4, <1>7, <1>9 DEF AnswerInv
<1>14. CASE ~q.refused
  <2>1. /\ asking' = "search" /\ kind' = Classify(q.hits) /\ reply' = reply
        /\ left' = IF q.mode = "research" THEN SubQuestions(q) ELSE 1
    BY <1>14 DEF AskAbout, Ask
  <2>2. left' \in 0..MaxSubQuestions /\ left' >= 1
    <3>1. SubQuestions(q) \in 1..MaxSubQuestions
      BY <1>5, Bounds DEF SubQuestions
    <3>2. 1 \in 1..MaxSubQuestions
      BY Bounds
    <3>3. \A i \in 1..MaxSubQuestions : i \in 0..MaxSubQuestions /\ i >= 1
      BY Bounds
    <3>4. QED
      BY <3>1, <3>2, <3>3, <2>1
  <2>3. [NoReply EXCEPT !.status = "none"] = NoReply
    BY DEF NoReply
  <2>4. AnswerTypeOK'
    BY <2>1, <2>2, <2>3, <1>6, <1>10, <1>11, <1>12
  <2>5. QED
    BY <2>1, <2>2, <2>4, <1>7, <1>9 DEF AnswerInv
<1>15. QED
  BY <1>13, <1>14

\* The two rankings of a search are fused.
LEMMA FuseInv ==
  ASSUME AnswerInv, Fuse
  PROVE  AnswerInv'
<1>1. PICK d \in Rankings(corpus, DenseK), s \in Rankings(corpus, SparseK) :
        dense' = d /\ sparse' = s /\ fused' = Top(Fusion(d, s), CandidateK)
  BY DEF Fuse
<1>2. /\ asking = "search" /\ asking' = "fused"
      /\ UNCHANGED <<corpus, indexable, mode, kind, left, finds, pool, reply>>
  BY DEF Fuse
<1>3. AnswerTypeOK /\ IsFiniteSet(corpus) /\ PoolInv /\ left >= 1
  BY <1>2 DEF AnswerInv
<1>4. TwoRankings(d, s)
  BY <1>3, BothRank
<1>5. Fusion(d, s) \in Seq(corpus)
  BY <1>3, <1>4, Bounds, FusionOf
<1>6. Top(Fusion(d, s), CandidateK) \in Seq(corpus)
  BY <1>5, Bounds, TopOf
<1>7. AnswerTypeOK'
  BY <1>1, <1>2, <1>3, <1>4, <1>6 DEF AnswerTypeOK, TwoRankings
<1>8. FusedInv'
  BY <1>1, <1>2 DEF FusedInv
<1>9. PoolInv'
  BY <1>2, <1>3 DEF PoolInv
<1>10. QED
  BY <1>2, <1>3, <1>7, <1>8, <1>9 DEF AnswerInv

\* A search that cannot be made ends the answer.
LEMMA FailToIndexInv ==
  ASSUME AnswerInv, FailToIndex
  PROVE  AnswerInv'
<1>1. /\ asking' = "done" /\ reply' = [NoReply EXCEPT !.status = "error"]
      /\ UNCHANGED <<corpus, indexable, mode, kind, left, dense, sparse, fused, finds, pool>>
  BY DEF FailToIndex
<1>2. AnswerTypeOK /\ IsFiniteSet(corpus) /\ PoolInv
  BY DEF AnswerInv
<1>3. reply' \in [status : {"none", "refused", "error", "declined", "answered"},
                  citations : Seq(corpus), grounding : {"grounded", "partial", "ungrounded"},
                  followUps : Range(Rules) \cup {"none", "general"}, steps : Seq(Nat)]
      /\ reply'.status = "error"
  BY <1>1, ReplyOf
<1>4. AnswerTypeOK'
  BY <1>1, <1>2, <1>3 DEF AnswerTypeOK
<1>5. EvidenceIsRanked'
  BY <1>1, <1>3 DEF EvidenceIsRanked
<1>6. PoolInv'
  BY <1>1, <1>2 DEF PoolInv
<1>7. QED
  BY <1>1, <1>2, <1>4, <1>5, <1>6 DEF AnswerInv

\* What is fresh in a search follows what is in the pool.
LEMMA FreshOf ==
  ASSUME IsFiniteSet(corpus), NEW p \in Seq(corpus), NEW t \in Seq(corpus), IsInjective(p), IsInjective(t)
  PROVE  /\ Fresh(t, p) \in Seq(corpus) /\ IsInjective(Fresh(t, p))
         /\ Range(Fresh(t, p)) = Range(t) \ Range(p) /\ Len(Fresh(t, p)) <= Len(t)
<1> DEFINE S == Range(t) \ Range(p)  R == {q \in S \X S : Rank(t, q[1]) < Rank(t, q[2])}  e == Sorted(S, R)
<1>1. Range(t) \subseteq corpus /\ S \subseteq corpus /\ S \subseteq Range(t)
  BY DEF Range
<1>2. IsFiniteSet(S) /\ IsFiniteSet(Range(t))
  BY <1>1, FS_Subset
<1>3. Orders(R, S)
  <2>1. \A x \in S : Rank(t, x) \in Nat /\ t[Rank(t, x)] = x
    BY <1>1, RankIn
  <2>2. \A x, y \in S : <<x, y>> \in R <=> Rank(t, x) < Rank(t, y)
    OBVIOUS
  <2> HIDE DEF S, R
  <2>3. \A x, y \in S : x # y => Rank(t, x) # Rank(t, y)
    BY <2>1
  <2>4. QED
    BY <2>1, <2>2, <2>3 DEF Orders
<1>4. Cardinality(S) <= Len(t)
  <2>1. Len(t) \in Nat /\ DOMAIN t = 1..Len(t)
    OBVIOUS
  <2>2. IsFiniteSet(1..Len(t)) /\ Cardinality(1..Len(t)) = Len(t)
    <3>1. \A m \in Int : IsFiniteSet(1..m) /\ Cardinality(1..m) = IF 1 > m THEN 0 ELSE m - 1 + 1
      BY FS_Interval
    <3>2. Len(t) \in Int /\ Len(t) = IF 1 > Len(t) THEN 0 ELSE Len(t) - 1 + 1
      BY <2>1
    <3>3. QED
      BY <3>1, <3>2, Zenon
  <2>3. t \in Surjection(1..Len(t), Range(t))
    BY <2>1 DEF Surjection, Range
  <2>4. Cardinality(Range(t)) <= Len(t)
    BY <2>2, <2>3, FS_Surjection
  <2>5. Cardinality(S) <= Cardinality(Range(t)) /\ Cardinality(S) \in Nat /\ Cardinality(Range(t)) \in Nat
    BY <1>1, <1>2, FS_Subset, FS_CardinalityType
  <2> HIDE DEF S
  <2>6. QED
    BY <2>1, <2>4, <2>5
<1> HIDE DEF S, R
<1>5. /\ e \in [1..Cardinality(S) -> S] /\ Cardinality(S) \in Nat /\ SortedAs(e, R) /\ Range(e) = S
  BY <1>2, <1>3, SortedIs
<1> HIDE DEF e
<1>6. e \in Seq(corpus) /\ Len(e) = Cardinality(S)
  BY <1>1, <1>5
<1>7. Fresh(t, p) = e
  BY DEF Fresh, e, R, S
<1>8. QED
  BY <1>4, <1>5, <1>6, <1>7 DEF SortedAs, S

\* What a search finds goes into the pool, behind what is there.
LEMMA RerankInv ==
  ASSUME AnswerInv, Rerank
  PROVE  AnswerInv'
<1> DEFINE k == IF mode = "research" THEN PerStepK ELSE TopN
<1>1. PICK t \in Rankings(Range(fused), k) : finds' = Append(finds, t) /\ pool' = pool \o Fresh(t, pool)
  BY DEF Rerank
<1>2. /\ asking = "fused" /\ left' = left - 1
      /\ asking' = IF left = 1 THEN "compose" ELSE "search"
      /\ dense' = <<>> /\ sparse' = <<>> /\ fused' = <<>>
      /\ UNCHANGED <<corpus, indexable, mode, kind, reply>>
  BY DEF Rerank
<1>3. AnswerTypeOK /\ IsFiniteSet(corpus) /\ PoolInv /\ left >= 1 /\ FusedInv
  BY <1>2 DEF AnswerInv
<1>4. /\ fused \in Seq(corpus) /\ pool \in Seq(corpus) /\ finds \in Seq(Seq(corpus))
      /\ Len(pool) \in Nat /\ Len(finds) \in Nat /\ DOMAIN pool = 1..Len(pool) /\ DOMAIN finds = 1..Len(finds)
  BY <1>3, AnswerTypes
<1>5. Range(fused) \subseteq corpus /\ IsFiniteSet(Range(fused))
  <2>1. Range(fused) \subseteq corpus
    BY <1>4 DEF Range
  <2>2. QED
    BY <2>1, <1>3, FS_Subset
<1>6. corpus # {} => Range(fused) # {}
  <2>1. TwoRankings(dense, sparse) /\ (corpus # {} => Range(dense) # {})
    BY <1>3, BothRank DEF FusedInv
  <2>2. Fusion(dense, sparse) \in Seq(corpus) /\ Range(Fusion(dense, sparse)) = Range(dense) \cup Range(sparse)
    BY <2>1, <1>3, Bounds, FusionOf
  <2>3. corpus # {} => Fusion(dense, sparse) # <<>>
    <3>1. Range(<<>>) = {}
      BY DEF Range
    <3>2. corpus # {} => Range(Fusion(dense, sparse)) # {}
      BY <2>1, <2>2
    <3>3. QED
      BY <3>1, <3>2, Zenon
  <2>4. corpus # {} => fused # <<>>
    BY <2>2, <2>3, <1>3, Bounds, TopOf DEF FusedInv
  <2>5. fused # <<>> => 1 \in DOMAIN fused
    BY <1>4
  <2>6. \A i \in DOMAIN fused : fused[i] \in Range(fused)
    BY DEF Range
  <2>7. fused # <<>> => fused[1] \in Range(fused)
    BY <2>5, <2>6
  <2>8. QED
    BY <2>4, <2>7
<1>7. k \in Nat \ {0}
  BY Bounds
<1>8. /\ t \in Seq(Range(fused)) /\ IsInjective(t) /\ Len(t) \in Nat /\ Len(t) <= k
      /\ (corpus # {} => Range(t) # {})
  BY <1>5, <1>6, <1>7, RankingOf
<1>9. t \in Seq(corpus)
  BY <1>5, <1>8
<1> DEFINE e == Fresh(t, pool)  n == Len(finds)
<1>10. IsInjective(pool)
  BY <1>3 DEF PoolInv
<1>11. /\ e \in Seq(corpus) /\ IsInjective(e) /\ Range(e) = Range(t) \ Range(pool) /\ Len(e) <= Len(t)
  BY <1>3, <1>4, <1>8, <1>9, <1>10, FreshOf
<1> HIDE DEF e, k
<1>12. /\ Len(e) \in Nat /\ DOMAIN e = 1..Len(e)
       /\ pool' \in Seq(corpus) /\ Len(pool') = Len(pool) + Len(e) /\ DOMAIN pool' = 1..(Len(pool) + Len(e))
       /\ \A i \in 1..Len(pool) : pool'[i] = pool[i]
       /\ \A i \in 1..Len(e) : pool'[Len(pool) + i] = e[i]
  <2>1. pool' = pool \o e
    BY <1>1 DEF e
  <2>2. QED
    BY <2>1, <1>4, <1>11
<1>13. /\ finds' \in Seq(Seq(corpus)) /\ Len(finds') = n + 1 /\ DOMAIN finds' = 1..(n + 1)
       /\ finds'[n + 1] = t /\ \A i \in 1..n : finds'[i] = finds[i]
       /\ \A i \in 1..(n + 1) : i = n + 1 \/ i \in 1..n
  BY <1>1, <1>4, <1>9
<1>14. AnswerTypeOK'
  <2>1. <<>> \in Seq(corpus) /\ left' \in 0..MaxSubQuestions
    <3>1. left \in 0..MaxSubQuestions
      BY <1>3 DEF AnswerTypeOK
    <3>2. QED
      BY <3>1, <1>2, <1>3, Bounds
  <2>2. {dense, sparse, fused, pool}' \subseteq Seq(corpus)
    BY <2>1, <1>2, <1>12
  <2>3. QED
    BY <2>1, <2>2, <1>2, <1>3, <1>13 DEF AnswerTypeOK
<1> HIDE DEF n
<1>15. \A i \in 1..Len(pool) : i \in DOMAIN pool' /\ pool'[i] = pool[i]
  BY <1>4, <1>12
<1>16. \A i \in 1..Len(e) : Len(pool) + i \in DOMAIN pool'
  BY <1>4, <1>12
<1>17. \A i \in DOMAIN pool' : i \in 1..Len(pool) \/ (i - Len(pool) \in 1..Len(e) /\ pool'[i] = e[i - Len(pool)])
  <2> SUFFICES ASSUME NEW i \in DOMAIN pool', i \notin 1..Len(pool)
               PROVE  i - Len(pool) \in 1..Len(e) /\ pool'[i] = e[i - Len(pool)]
    OBVIOUS
  <2>1. i - Len(pool) \in 1..Len(e) /\ Len(pool) + (i - Len(pool)) = i
    BY <1>4, <1>12
  <2>2. QED
    BY <2>1, <1>12
<1>18. \A i \in 1..Len(pool), j \in 1..Len(e) : pool[i] # e[j]
  BY <1>4, <1>11, <1>12 DEF Range
<1>19. IsInjective(pool')
  <2> SUFFICES ASSUME NEW i \in DOMAIN pool', NEW j \in DOMAIN pool', pool'[i] = pool'[j]
               PROVE  i = j
    BY DEF IsInjective
  <2>1. CASE i \in 1..Len(pool) /\ j \in 1..Len(pool)
    BY <2>1, <1>4, <1>10, <1>12 DEF IsInjective
  <2>2. CASE i \notin 1..Len(pool) /\ j \notin 1..Len(pool)
    <3>1. i - Len(pool) = j - Len(pool)
      BY <2>2, <1>11, <1>12, <1>17 DEF IsInjective
    <3>2. i \in Int /\ j \in Int
      BY <1>4, <1>12
    <3>3. QED
      BY <3>1, <3>2, <1>4
  <2>3. CASE i \in 1..Len(pool) /\ j \notin 1..Len(pool)
    BY <2>3, <1>15, <1>17, <1>18
  <2>4. CASE i \notin 1..Len(pool) /\ j \in 1..Len(pool)
    BY <2>4, <1>15, <1>17, <1>18
  <2>5. QED
    BY <2>1, <2>2, <2>3, <2>4
<1>20. mode' = "research" => Len(pool') <= (n + 1) * PerStepK
  <2> SUFFICES ASSUME mode = "research"
               PROVE  Len(pool') <= (n + 1) * PerStepK
    BY <1>2
  <2>1. Len(e) <= PerStepK
    BY <1>8, <1>11, <1>12, Bounds DEF k
  <2>2. Len(pool) <= n * PerStepK
    BY <1>3 DEF PoolInv, n
  <2>3. n \in Nat /\ PerStepK \in Nat
    BY <1>4, Bounds DEF n
  <2>4. (n + 1) * PerStepK = n * PerStepK + PerStepK /\ n * PerStepK \in Nat
    BY <2>3
  <2>5. QED
    BY <2>1, <2>2, <2>3, <2>4, <1>4, <1>12
<1>21. ASSUME NEW i \in DOMAIN finds', NEW x \in Range(finds'[i])
       PROVE  \E j \in DOMAIN pool' : pool'[j] = x /\ (mode' = "research" => j <= i * PerStepK)
  <2>1. CASE i \in 1..n
    <3>1. x \in Range(finds[i]) /\ i \in DOMAIN finds
      BY <2>1, <1>4, <1>13, <1>21 DEF n
    <3>2. PICK j \in DOMAIN pool : pool[j] = x /\ (mode = "research" => j <= i * PerStepK)
      BY <3>1, <1>3 DEF PoolInv
    <3>3. QED
      BY <3>2, <1>2, <1>4, <1>15
  <2>2. CASE i = n + 1
    <3>1. x \in Range(t)
      BY <2>2, <1>13, <1>21
    <3>2. \E j \in DOMAIN pool' : pool'[j] = x
      <4>1. CASE x \in Range(pool)
        <5>1. PICK j \in DOMAIN pool : pool[j] = x
          BY <4>1 DEF Range
        <5>2. QED
          BY <5>1, <1>4, <1>15
      <4>2. CASE x \notin Range(pool)
        <5>1. x \in Range(e)
          BY <3>1, <4>2, <1>11
        <5>2. PICK j \in DOMAIN e : e[j] = x
          BY <5>1 DEF Range
        <5>3. QED
          BY <5>2, <1>12, <1>16
      <4>3. QED
        BY <4>1, <4>2
    <3>3. PICK j \in DOMAIN pool' : pool'[j] = x
      BY <3>2
    <3>4. mode' = "research" => j <= i * PerStepK
      <4>1. j \in Nat /\ j <= Len(pool') /\ Len(pool') \in Nat
        BY <1>4, <1>12
      <4>2. n \in Nat /\ PerStepK \in Nat /\ (n + 1) * PerStepK \in Nat
        BY <1>4, Bounds DEF n
      <4>3. \A a, b, c \in Nat : a <= b /\ b <= c => a <= c
        OBVIOUS
      <4>4. QED
        BY <4>1, <4>2, <4>3, <2>2, <1>20
    <3>5. QED
      BY <3>3, <3>4
  <2>3. QED
    BY <2>1, <2>2, <1>13, <1>21
<1>22. corpus' # {} => pool' # <<>>
  <2> SUFFICES ASSUME corpus # {}
               PROVE  pool' # <<>>
    BY <1>2
  <2>1. PICK x \in Range(t) : TRUE
    BY <1>8
  <2>2. n + 1 \in DOMAIN finds' /\ x \in Range(finds'[n + 1])
    BY <2>1, <1>4, <1>13 DEF n
  <2>3. \E j \in DOMAIN pool' : pool'[j] = x
    BY <2>2, <1>21
  <2>4. DOMAIN <<>> = {}
    OBVIOUS
  <2>5. QED
    BY <2>3, <2>4
<1>23. PoolInv'
  <2>1. mode' = "research" => Len(pool') <= Len(finds') * PerStepK
    BY <1>13, <1>20
  <2>2. QED
    BY <2>1, <1>19, <1>21, <1>22 DEF PoolInv
<1>24. finds' # <<>>
  <2>1. 1 \in DOMAIN finds'
    BY <1>4, <1>13 DEF n
  <2>2. DOMAIN <<>> = {}
    OBVIOUS
  <2>3. QED
    BY <2>1, <2>2
<1>25. asking' = "search" => left' >= 1
  <2>1. left \in Nat
    BY <1>3, Bounds DEF AnswerTypeOK
  <2>2. QED
    BY <2>1, <1>2, <1>3
<1>26. asking' \in {"compose", "search"} /\ IsFiniteSet(corpus')
  BY <1>2, <1>3
<1>27. QED
  BY <1>14, <1>23, <1>24, <1>25, <1>26 DEF AnswerInv

\* The answer cites what the pool, or the top of it, has.
LEMMA ComposeInv ==
  ASSUME AnswerInv, Compose
  PROVE  AnswerInv'
<1>1. /\ asking = "compose" /\ asking' = "done"
      /\ reply' = [status |-> IF Evidence = <<>> THEN "declined" ELSE "answered",
                   citations |-> Evidence,
                   grounding |-> IF mode = "stream" THEN "ungrounded" ELSE Grounding(Len(Evidence)),
                   followUps |-> IF mode = "stream" THEN "none" ELSE kind,
                   steps |-> IF mode = "research" THEN [i \in DOMAIN finds |-> Len(finds[i])] ELSE <<>>]
      /\ UNCHANGED <<corpus, indexable, mode, kind, left, dense, sparse, fused, finds, pool>>
  BY DEF Compose
<1>2. AnswerTypeOK /\ IsFiniteSet(corpus) /\ PoolInv /\ finds # <<>>
  BY <1>1 DEF AnswerInv
<1>3. /\ pool \in Seq(corpus) /\ finds \in Seq(Seq(corpus)) /\ Len(pool) \in Nat /\ DOMAIN pool = 1..Len(pool)
      /\ Len(finds) \in Nat /\ DOMAIN finds = 1..Len(finds)
  BY <1>2, AnswerTypes
<1> DEFINE c == Evidence
<1>4. /\ IsInjective(pool)
      /\ \A i \in DOMAIN finds : \A x \in Range(finds[i]) :
           \E j \in DOMAIN pool : pool[j] = x /\ (mode = "research" => j <= i * PerStepK)
      /\ corpus # {} => pool # <<>>
  BY <1>2 DEF PoolInv
<1>5. /\ c \in Seq(corpus) /\ IsInjective(c) /\ (pool # <<>> => c # <<>>)
      /\ \A j \in DOMAIN pool : mode # "research" \/ j <= MaxSources => j \in DOMAIN c /\ c[j] = pool[j]
  <2>1. CASE mode = "research"
    <3>1. c = Top(pool, MaxSources)
      BY <2>1 DEF Evidence
    <3>2. QED
      BY <3>1, <2>1, <1>3, <1>4, Bounds, TopOf
  <2>2. CASE mode # "research"
    BY <2>2, <1>3, <1>4 DEF Evidence
  <2>3. QED
    BY <2>1, <2>2
<1> HIDE DEF c
<1>6. c = <<>> <=> corpus = {}
  <2>1. corpus = {} => c = <<>>
    BY <1>5
  <2>2. QED
    BY <2>1, <1>4, <1>5
<1>7. ASSUME NEW i \in DOMAIN finds, mode # "research" \/ i * PerStepK <= MaxSources
      PROVE  Range(finds[i]) \subseteq Range(c)
  <2> SUFFICES ASSUME NEW x \in Range(finds[i])
               PROVE  x \in Range(c)
    OBVIOUS
  <2>1. PICK j \in DOMAIN pool : pool[j] = x /\ (mode = "research" => j <= i * PerStepK)
    BY <1>4
  <2>2. mode # "research" \/ j <= MaxSources
    <3>1. i \in Nat /\ j \in Nat /\ PerStepK \in Nat /\ MaxSources \in Nat
      BY <1>3, Bounds
    <3>2. i * PerStepK \in Nat
      BY <3>1
    <3>3. \A p, q, r \in Nat : p <= q /\ q <= r => p <= r
      OBVIOUS
    <3>4. QED
      BY <3>1, <3>2, <3>3, <2>1, <1>7
  <2>3. j \in DOMAIN c /\ c[j] = x
    BY <2>1, <2>2, <1>5
  <2>4. QED
    BY <2>3 DEF Range
<1>8. /\ reply'.citations = c /\ reply'.status = IF c = <<>> THEN "declined" ELSE "answered"
  BY <1>1 DEF c
<1>9. EvidenceIsRanked'
  <2>1. reply'.status = "declined" <=> corpus' = {}
    BY <1>1, <1>6, <1>8
  <2>2. Range(reply'.citations) \subseteq corpus' /\ IsInjective(reply'.citations)
    BY <1>1, <1>5, <1>8 DEF Range
  <2>3. \A i \in DOMAIN finds' : mode' # "research" \/ i * PerStepK <= MaxSources =>
          Range(finds'[i]) \subseteq Range(reply'.citations)
    BY <1>1, <1>7, <1>8
  <2>4. QED
    BY <2>1, <2>2, <2>3, <1>1 DEF EvidenceIsRanked
<1>10. reply' \in [status : {"none", "refused", "error", "declined", "answered"},
                   citations : Seq(corpus), grounding : {"grounded", "partial", "ungrounded"},
                   followUps : Range(Rules) \cup {"none", "general"}, steps : Seq(Nat)]
  <2>1. [i \in DOMAIN finds |-> Len(finds[i])] \in Seq(Nat) /\ <<>> \in Seq(Nat)
    <3>1. \A i \in DOMAIN finds : Len(finds[i]) \in Nat
      BY <1>3
    <3>2. QED
      BY <3>1, <1>3
  <2>2. Grounding(Len(c)) \in {"grounded", "partial", "ungrounded"}
    BY DEF Grounding
  <2>3. kind \in Range(Rules) \cup {"none", "general"}
    BY <1>2 DEF AnswerTypeOK
  <2>4. QED
    BY <2>1, <2>2, <2>3, <1>1, <1>5 DEF c
<1>11. AnswerTypeOK'
  BY <1>1, <1>2, <1>10 DEF AnswerTypeOK
<1>12. PoolInv'
  BY <1>1, <1>2 DEF PoolInv
<1>13. QED
  BY <1>1, <1>2, <1>9, <1>11, <1>12 DEF AnswerInv

\* Before the question nothing is found.
LEMMA AnsweringStarts ==
  ASSUME AnswerInit
  PROVE  AnswerInv
<1>1. /\ asking = "idle" /\ corpus = {} /\ indexable = FALSE
      /\ mode = "answer" /\ kind = "general" /\ left = 0
      /\ dense = <<>> /\ sparse = <<>> /\ fused = <<>> /\ finds = <<>> /\ pool = <<>> /\ reply = NoReply
  BY DEF AnswerInit
<1>2. AnswerTypeOK
  <2>1. NoReply \in [status : {"none", "refused", "error", "declined", "answered"},
                     citations : Seq({}), grounding : {"grounded", "partial", "ungrounded"},
                     followUps : Range(Rules) \cup {"none", "general"}, steps : Seq(Nat)]
    BY DEF NoReply
  <2>2. 0 \in 0..MaxSubQuestions /\ {<<>>} \subseteq Seq({}) /\ <<>> \in Seq(Seq({}))
    BY Bounds
  <2>3. QED
    BY <1>1, <2>1, <2>2 DEF AnswerTypeOK
<1>3. PoolInv
  <2>1. DOMAIN pool = {} /\ DOMAIN finds = {} /\ Len(pool) = 0 /\ Len(finds) = 0 /\ 0 * PerStepK = 0
    BY <1>1, Bounds
  <2>2. QED
    BY <2>1, <1>1 DEF PoolInv, IsInjective
<1>4. IsFiniteSet(corpus)
  BY <1>1, FS_EmptySet
<1>5. QED
  BY <1>1, <1>2, <1>3, <1>4 DEF AnswerInv

\* Every step of an answer keeps what is found in the pool.
LEMMA AnsweringStep ==
  ASSUME AnswerInv, ChunkTypeOK, [Next]_<<packVars, chunkVars, answerVars>>
  PROVE  AnswerInv'
<1>1. CASE UNCHANGED answerVars
  BY <1>1 DEF AnswerInv, answerVars, AnswerTypeOK, PoolInv, FusedInv, EvidenceIsRanked, FusionIsFair, Outranks, Ranks
<1>2. CASE Answer
  BY <1>2, FuseInv, FailToIndexInv, RerankInv, ComposeInv DEF Answer
<1>3. CASE \E q \in Questions : AskAbout(q)
  BY <1>3, AskInv
<1>4. QED
  BY <1>1, <1>2, <1>3 DEF Next, Chunk, Search

\* The pool has what the searches found in every state.
LEMMA AnsweringIsInvariant == Spec => []AnswerInv
<1>1. Init => AnswerInv
  BY AnsweringStarts DEF Init
<1>2. ChunkingInv => ChunkTypeOK
  BY DEF ChunkingInv
<1>3. AnswerInv /\ ChunkTypeOK /\ [Next]_<<packVars, chunkVars, answerVars>> => AnswerInv'
  BY AnsweringStep
<1>4. QED
  BY <1>1, <1>2, <1>3, ChunkingIsInvariant, PTL DEF Spec

\* Whatever the rankings are, fusion prefers no passage to one that has the better
\* ranks, an answer cites what is stored, each passage once, and the first
\* sub-questions with all they found, and nothing is declined while something is
\* stored (hybrid.py, engine.py, research.py).
THEOREM SpecEvidenceIsRanked == Spec => []EvidenceIsRanked
<1>1. AnswerInv => EvidenceIsRanked
  <2>1. AnswerInv /\ asking = "fused" => EvidenceIsRanked
    BY FusedIsFair DEF AnswerInv, EvidenceIsRanked
  <2>2. AnswerInv /\ asking = "done" => EvidenceIsRanked
    BY DEF AnswerInv
  <2>3. asking \notin {"fused", "done"} => EvidenceIsRanked
    BY DEF EvidenceIsRanked
  <2>4. QED
    BY <2>1, <2>2, <2>3
<1>2. QED
  BY <1>1, AnsweringIsInvariant, PTL

\* The types hold in every reachable state of both.
THEOREM SpecTypeOK == Spec => []TypeOK
<1>1. ChunkingInv /\ AnswerInv => TypeOK
  BY DEF ChunkingInv, AnswerInv, TypeOK
<1>2. QED
  BY <1>1, ChunkingIsInvariant, AnsweringIsInvariant, PTL

=============================================================================
