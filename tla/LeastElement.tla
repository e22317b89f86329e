---------------------------- MODULE LeastElement ----------------------------
(* A lemma that several proofs need where an induction would be natural.    *)
EXTENDS Integers, WellFoundedInduction, FiniteSetTheorems, TLAPS

\* A nonempty set of numbers has a least one.
LEMMA LeastNatural ==
  ASSUME NEW A \in SUBSET Nat, A # {}
  PROVE  \E i \in A : \A j \in A : ~ (j < i)
<1> DEFINE T == {0..i : i \in A}
<1>1. T \subseteq FiniteSubsetsOf(Nat)
  <2> SUFFICES ASSUME NEW i \in A
               PROVE  0..i \in FiniteSubsetsOf(Nat)
    OBVIOUS
  <2>1. i \in Int /\ 0 \in Int /\ 0..i \subseteq Nat
    OBVIOUS
  <2>2. IsFiniteSet(0..i)
    BY <2>1, FS_Interval
  <2> QED
    BY <2>1, <2>2 DEF FiniteSubsetsOf
<1>2. T # {}
  OBVIOUS
<1>3. PICK x \in T : \A y \in T : ~ (<<y, x>> \in StrictSubsetOrdering(Nat))
  BY <1>1, <1>2, FS_StrictSubsetOrderingWellFounded, WFMin
<1>4. PICK i \in A : x = 0..i
  OBVIOUS
<1>5. ASSUME NEW j \in A, j < i
      PROVE  FALSE
  <2>1. 0..j \subseteq 0..i /\ i \in 0..i /\ i \notin 0..j
    BY <1>5
  <2>2. <<0..j, 0..i>> \in StrictSubsetOrdering(Nat)
    BY <2>1, <1>1 DEF StrictSubsetOrdering, FiniteSubsetsOf
  <2> QED
    BY <2>2, <1>3, <1>4
<1> QED
  BY <1>5

=============================================================================
