------------------------- MODULE KnowledgeGraphProofs -------------------------
(***************************************************************************)
(* Proofs about KnowledgeGraph, for every set of texts, every graph and    *)
(* every bound: the types, the origin of the facts in an answer, and that  *)
(* the breadth-first walk of `neighbors` finds exactly the facts within    *)
(* its depth.                                                              *)
(***************************************************************************)
EXTENDS KnowledgeGraph, LeastElement

-----------------------------------------------------------------------------
(* Paths.                                                                   *)

\* A path of no step stays where it is.
LEMMA NearSelf ==
  ASSUME NEW N, NEW E, NEW s \in N
  PROVE  Near(N, E, 0, s, s) /\ \A n : Near(N, E, 0, s, n) => n = s
<1> DEFINE p == [i \in 0..0 |-> s]
<1>1. p \in [0..0 -> N] /\ p[0] = s /\ 1..0 = {}
  OBVIOUS
<1>2. Near(N, E, 0, s, s)
  <2> HIDE DEF p
  <2> QED
    BY <1>1 DEF Near
<1>3. \A n : Near(N, E, 0, s, n) => n = s
  BY DEF Near
<1> QED
  BY <1>2, <1>3

\* A path ends in a node.
LEMMA NearIsNode ==
  ASSUME NEW N, NEW E, NEW k \in Nat, NEW s, NEW n, Near(N, E, k, s, n)
  PROVE  n \in N /\ s \in N
BY DEF Near

\* A path grows by one step.
LEMMA NearGrows ==
  ASSUME NEW N, NEW E, NEW k \in Nat, NEW s, NEW n, Near(N, E, k, s, n),
         NEW m \in N, Step(E, m, n)
  PROVE  Near(N, E, k + 1, s, m)
<1>1. PICK p \in [0..k -> N] :
        /\ p[0] = s /\ p[k] = n
        /\ \A i \in 1..k : Step(E, p[i], p[i - 1])
  BY DEF Near, Step
<1> DEFINE q == [i \in 0..(k + 1) |-> IF i <= k THEN p[i] ELSE m]
<1>2. q \in [0..(k + 1) -> N]
  BY <1>1
<1>3. q[0] = s /\ q[k + 1] = m
  BY <1>1
<1>4. ASSUME NEW i \in 1..(k + 1)
      PROVE  Step(E, q[i], q[i - 1])
  <2>1. CASE i <= k
    <3>1. q[i] = p[i] /\ q[i - 1] = p[i - 1] /\ i \in 1..k
      BY <2>1, <1>4
    <3> QED
      BY <3>1, <1>1
  <2>2. CASE i = k + 1
    <3>1. q[i] = m /\ q[i - 1] = p[k]
      BY <2>2
    <3> QED
      BY <3>1, <1>1
  <2> QED
    BY <2>1, <2>2
<1> HIDE DEF q
<1> QED
  BY <1>2, <1>3, <1>4 DEF Near, Step

\* A start of a path is a path.
LEMMA NearPrefix ==
  ASSUME NEW N, NEW E, NEW k \in Nat, NEW p \in [0..k -> N],
         \A i \in 1..k : Step(E, p[i], p[i - 1]), NEW j \in 0..k
  PROVE  Near(N, E, j, p[0], p[j])
<1> DEFINE q == [i \in 0..j |-> p[i]]
<1>1. q \in [0..j -> N] /\ q[0] = p[0] /\ q[j] = p[j]
  OBVIOUS
<1>2. ASSUME NEW i \in 1..j
      PROVE  Step(E, q[i], q[i - 1])
  <2>1. q[i] = p[i] /\ q[i - 1] = p[i - 1] /\ i \in 1..k
    BY <1>2
  <2> QED
    BY <2>1
<1> HIDE DEF q
<1> QED
  BY <1>1, <1>2 DEF Near, Step

\* What is near stays near with more steps.
LEMMA NearMonotone ==
  ASSUME NEW N, NEW E, NEW k \in Nat, NEW l \in Nat, k <= l, NEW s, NEW n, Near(N, E, k, s, n)
  PROVE  Near(N, E, l, s, n)
<1>1. PICK p \in [0..k -> N] :
        /\ p[0] = s /\ p[k] = n
        /\ \A i \in 1..k : Step(E, p[i], p[i - 1])
  BY DEF Near, Step
<1> DEFINE q == [i \in 0..l |-> IF i <= k THEN p[i] ELSE n]
<1>2. q \in [0..l -> N]
  BY <1>1
<1>3. q[0] = s /\ q[l] = n
  BY <1>1
<1>4. ASSUME NEW i \in 1..l
      PROVE  Step(E, q[i], q[i - 1])
  <2>1. CASE i <= k
    <3>1. q[i] = p[i] /\ q[i - 1] = p[i - 1] /\ i \in 1..k
      BY <2>1, <1>4
    <3> QED
      BY <3>1, <1>1
  <2>2. CASE i > k
    <3>1. q[i] = n /\ q[i - 1] = n
      BY <2>2, <1>1
    <3> QED
      BY <3>1 DEF Step
  <2> QED
    BY <2>1, <2>2
<1> HIDE DEF q
<1> QED
  BY <1>2, <1>3, <1>4 DEF Near, Step

\* The last step of a path is one from a node that is a step nearer.
LEMMA NearBefore ==
  ASSUME NEW N, NEW E, NEW k \in Nat, NEW s, NEW m, Near(N, E, k + 1, s, m)
  PROVE  \E n : Near(N, E, k, s, n) /\ Step(E, m, n)
<1>1. PICK p \in [0..(k + 1) -> N] :
        /\ p[0] = s /\ p[k + 1] = m
        /\ \A i \in 1..(k + 1) : Step(E, p[i], p[i - 1])
  BY DEF Near, Step
<1>2. Near(N, E, k, p[0], p[k])
  <2>1. k + 1 \in Nat /\ k \in 0..(k + 1)
    OBVIOUS
  <2> QED
    BY <1>1, <2>1, NearPrefix
<1>3. Step(E, p[k + 1], p[k])
  BY <1>1
<1> QED
  BY <1>1, <1>2, <1>3

-----------------------------------------------------------------------------
(* The walk of `neighbors`, over a graph (N, E), to depth D, from s.         *)

\* The least number of steps in which n is reached is k.
Exactly(N, E, k, s, n) == Near(N, E, k, s, n) /\ (k > 0 => ~ Near(N, E, k - 1, s, n))

\* All edges of n have been followed.
Closed(E, n, vis, sn) == \A e \in Incident(E, n) : e \in sn /\ Other(e, n) \in vis

\* n is too far away for its edges to be followed.
Far(N, E, D, s, n) == D = 0 \/ ~ Near(N, E, D - 1, s, n)

\* The frontier: nodes that were visited, nearest first, with their distances,
\* none more than a step further than the node that is being expanded.
FrontierOK(N, E, D, s, cur, q, vis) ==
  /\ \A i \in 1..Len(q) :
       /\ q[i].node \in vis
       /\ cur.dist <= q[i].dist /\ q[i].dist <= cur.dist + 1 /\ q[i].dist <= D
       /\ Exactly(N, E, q[i].dist, s, q[i].node)
  /\ \A i, j \in 1..Len(q) : i < j => q[i].dist <= q[j].dist

\* The node being expanded: its edges that are not pending have been followed.
CurrentOK(N, E, D, s, cur, vis, pend, sn) ==
  IF cur.node = None
    THEN pend = {} /\ cur.dist = 0
    ELSE /\ cur.node \in vis /\ cur.dist <= D
         /\ Exactly(N, E, cur.dist, s, cur.node)
         /\ pend \subseteq Incident(E, cur.node)
         /\ cur.dist < D => \A e \in Incident(E, cur.node) \ pend :
                              e \in sn /\ Other(e, cur.node) \in vis
         /\ ~ (cur.dist < D) => pend = {}

\* Whatever is visited is in the frontier, being expanded, expanded or too far.
Accounted(N, E, D, s, cur, q, vis, sn) ==
  \A n \in vis : \/ \E i \in 1..Len(q) : q[i].node = n
                 \/ n = cur.node
                 \/ Closed(E, n, vis, sn)
                 \/ Far(N, E, D, s, n)

WalkOK(N, E, D, s, cur, q, vis, pend, sn) ==
  /\ s \in vis /\ vis \subseteq N
  /\ FrontierOK(N, E, D, s, cur, q, vis)
  /\ CurrentOK(N, E, D, s, cur, vis, pend, sn)
  /\ Accounted(N, E, D, s, cur, q, vis, sn)
  /\ \A n \in N : Near(N, E, cur.dist, s, n) => n \in vis
  /\ sn \subseteq Within(N, E, D, s)

\* The walk begins well.
LEMMA WalkBegins ==
  ASSUME NEW N, NEW E, NEW D \in Nat, NEW s \in N
  PROVE  WalkOK(N, E, D, s, Nowhere, <<[node |-> s, dist |-> 0]>>, {s}, {}, {})
<1> DEFINE q == <<[node |-> s, dist |-> 0]>>
<1>1. Len(q) = 1 /\ q[1].node = s /\ q[1].dist = 0 /\ 1..Len(q) = {1}
  OBVIOUS
<1>2. Exactly(N, E, 0, s, s)
  BY NearSelf DEF Exactly
<1> HIDE DEF q
<1>3. FrontierOK(N, E, D, s, Nowhere, q, {s})
  BY <1>1, <1>2 DEF FrontierOK, Nowhere
<1>4. CurrentOK(N, E, D, s, Nowhere, {s}, {}, {})
  BY DEF CurrentOK, Nowhere
<1>5. Accounted(N, E, D, s, Nowhere, q, {s}, {})
  BY <1>1 DEF Accounted
<1>6. \A n \in N : Near(N, E, Nowhere.dist, s, n) => n \in {s}
  BY NearSelf DEF Nowhere
<1> QED
  BY <1>3, <1>4, <1>5, <1>6 DEF WalkOK, q

\* Popping the head of the frontier keeps the walk well: when the distance
\* grows, all nodes of the old distance have been expanded.
LEMMA WalkPops ==
  ASSUME NEW N, NEW E, NEW D \in Nat, NEW s, NEW cur, NEW q \in Seq(Visit), NEW vis, NEW sn,
         None \notin N, cur.dist \in Nat, q # <<>>,
         WalkOK(N, E, D, s, cur, q, vis, {}, sn)
  PROVE  WalkOK(N, E, D, s, Head(q), Tail(q), vis,
                IF Head(q).dist < D THEN Incident(E, Head(q).node) ELSE {}, sn)
<1> DEFINE h == Head(q)
           t == Tail(q)
           pend == IF h.dist < D THEN Incident(E, h.node) ELSE {}
<1>1. /\ Len(q) \in Nat /\ Len(q) > 0 /\ 1 \in 1..Len(q) /\ h = q[1]
      /\ Len(t) = Len(q) - 1
      /\ \A i \in 1..Len(t) : t[i] = q[i + 1] /\ i + 1 \in 1..Len(q)
      /\ \A i \in 1..Len(q) : q[i].dist \in Nat
  <2>1. Len(q) \in Nat /\ Len(q) > 0 /\ 1 \in 1..Len(q) /\ h = q[1]
    OBVIOUS
  <2>2. Len(t) = Len(q) - 1 /\ \A i \in 1..Len(t) : t[i] = q[i + 1]
    OBVIOUS
  <2>3. \A i \in 1..Len(t) : i + 1 \in 1..Len(q)
    BY <2>1, <2>2
  <2>4. ASSUME NEW i \in 1..Len(q)
        PROVE  q[i].dist \in Nat
    <3>1. q[i] \in Visit
      OBVIOUS
    <3> QED
      BY <3>1 DEF Visit
  <2> QED
    BY <2>1, <2>2, <2>3, <2>4
<1> HIDE DEF h, t
<1>2. /\ h.dist \in Nat /\ h.node \in vis
      /\ cur.dist <= h.dist /\ h.dist <= cur.dist + 1 /\ h.dist <= D
      /\ Exactly(N, E, h.dist, s, h.node)
  BY <1>1 DEF WalkOK, FrontierOK
<1>3. FrontierOK(N, E, D, s, h, t, vis)
  <2>1. ASSUME NEW i \in 1..Len(t)
        PROVE  /\ t[i].node \in vis
               /\ h.dist <= t[i].dist /\ t[i].dist <= h.dist + 1 /\ t[i].dist <= D
               /\ Exactly(N, E, t[i].dist, s, t[i].node)
    <3>1. t[i] = q[i + 1] /\ i + 1 \in 1..Len(q) /\ 1 < i + 1
      BY <1>1
    <3>2. q[1].dist <= q[i + 1].dist
      BY <1>1, <3>1 DEF WalkOK, FrontierOK
    <3> QED
      BY <1>1, <1>2, <3>1, <3>2 DEF WalkOK, FrontierOK
  <2>2. ASSUME NEW i \in 1..Len(t), NEW j \in 1..Len(t), i < j
        PROVE  t[i].dist <= t[j].dist
    <3>1. /\ t[i] = q[i + 1] /\ i + 1 \in 1..Len(q)
          /\ t[j] = q[j + 1] /\ j + 1 \in 1..Len(q)
          /\ i + 1 < j + 1
      BY <1>1, <2>2
    <3> QED
      BY <3>1 DEF WalkOK, FrontierOK
  <2> QED
    BY <2>1, <2>2 DEF FrontierOK
<1>4. CurrentOK(N, E, D, s, h, vis, pend, sn)
  <2>1. h.node # None
    BY <1>2 DEF WalkOK
  <2> QED
    BY <1>2, <2>1 DEF CurrentOK
\* The node expanded before is expanded or too far.
<1>5. ASSUME cur.node # None
      PROVE  Closed(E, cur.node, vis, sn) \/ Far(N, E, D, s, cur.node)
  <2>1. CurrentOK(N, E, D, s, cur, vis, {}, sn)
    BY DEF WalkOK
  <2>2. CASE cur.dist < D
    BY <1>5, <2>1, <2>2 DEF CurrentOK, Closed
  <2>3. CASE ~ (cur.dist < D)
    <3>1. cur.dist = D /\ Exactly(N, E, cur.dist, s, cur.node)
      BY <1>5, <2>1, <2>3 DEF CurrentOK
    <3> QED
      BY <3>1 DEF Exactly, Far
  <2> QED
    BY <2>2, <2>3
<1>6. Accounted(N, E, D, s, h, t, vis, sn)
  <2> SUFFICES ASSUME NEW n \in vis
               PROVE  \/ \E i \in 1..Len(t) : t[i].node = n
                      \/ n = h.node
                      \/ Closed(E, n, vis, sn)
                      \/ Far(N, E, D, s, n)
    BY DEF Accounted
  <2>1. \/ \E i \in 1..Len(q) : q[i].node = n
        \/ n = cur.node
        \/ Closed(E, n, vis, sn)
        \/ Far(N, E, D, s, n)
    BY DEF WalkOK, Accounted
  <2>2. ASSUME NEW i \in 1..Len(q), q[i].node = n
        PROVE  n = h.node \/ \E j \in 1..Len(t) : t[j].node = n
    <3>1. CASE i = 1
      BY <1>1, <2>2, <3>1
    <3>2. CASE i # 1
      <4>1. i - 1 \in 1..Len(t) /\ t[i - 1] = q[i]
        BY <1>1, <3>2
      <4> QED
        BY <4>1, <2>2
    <3> QED
      BY <3>1, <3>2
  <2>3. n # None
    BY DEF WalkOK
  <2> QED
    BY <2>1, <2>2, <2>3, <1>5
<1>7. \A n \in N : Near(N, E, h.dist, s, n) => n \in vis
  <2>1. CASE h.dist = cur.dist
    BY <2>1 DEF WalkOK
  <2>2. CASE h.dist = cur.dist + 1
    <3> SUFFICES ASSUME NEW m \in N, Near(N, E, cur.dist + 1, s, m)
                 PROVE  m \in vis
      BY <2>2
    <3>1. PICK n : Near(N, E, cur.dist, s, n) /\ Step(E, m, n)
      BY NearBefore
    <3>2. n \in vis
      BY <3>1, NearIsNode DEF WalkOK
    <3>3. ~ \E i \in 1..Len(q) : q[i].node = n
      <4> SUFFICES ASSUME NEW i \in 1..Len(q), q[i].node = n
                   PROVE  FALSE
        OBVIOUS
      <4>1. /\ q[i].dist <= cur.dist + 1 /\ q[i].dist \in Nat
            /\ Exactly(N, E, q[i].dist, s, n)
        BY <1>1 DEF WalkOK, FrontierOK
      <4>2. q[1].dist <= q[i].dist
        <5>1. CASE i = 1
          BY <5>1, <4>1
        <5>2. CASE i # 1
          BY <5>2, <1>1 DEF WalkOK, FrontierOK
        <5> QED
          BY <5>1, <5>2
      <4>3. q[i].dist = cur.dist + 1 /\ q[i].dist - 1 = cur.dist /\ q[i].dist > 0
        <5> DEFINE d == q[i].dist
        <5>1. d \in Nat /\ d <= cur.dist + 1 /\ cur.dist + 1 <= d
          BY <1>1, <2>2, <4>1, <4>2
        <5> HIDE DEF d
        <5>2. d = cur.dist + 1
          BY <5>1
        <5> QED
          BY <5>2 DEF d
      <4> QED
        BY <3>1, <4>1, <4>3 DEF Exactly
    <3>4. ~ Far(N, E, D, s, n)
      <4>1. D > 0 /\ D - 1 \in Nat /\ cur.dist <= D - 1
        BY <1>2, <2>2
      <4> QED
        BY <3>1, <4>1, NearMonotone DEF Far
    <3>5. Closed(E, n, vis, sn)
      <4>1. n # None
        BY <3>2 DEF WalkOK
      <4>2. n = cur.node \/ Closed(E, n, vis, sn)
        BY <3>2, <3>3, <3>4 DEF WalkOK, Accounted
      <4> QED
        BY <4>1, <4>2, <3>4, <1>5
    <3> QED
      BY <3>1, <3>2, <3>5 DEF Step, Closed
  <2> QED
    BY <1>2, <2>1, <2>2
<1> QED
  BY <1>3, <1>4, <1>6, <1>7 DEF WalkOK, h, t

\* Following an edge keeps the walk well: a node seen for the first time is
\* one step further than the node expanded, and not nearer.
LEMMA WalkFollows ==
  ASSUME NEW N, NEW E, NEW D \in Nat, NEW s, NEW cur, NEW q \in Seq(Visit), NEW vis,
         NEW pend, NEW sn, NEW e \in pend,
         cur.dist \in Nat, Ends(E) \subseteq N,
         [node |-> Other(e, cur.node), dist |-> cur.dist + 1] \in Visit,
         WalkOK(N, E, D, s, cur, q, vis, pend, sn)
  PROVE  LET m == Other(e, cur.node)
         IN IF m \in vis
              THEN WalkOK(N, E, D, s, cur, q, vis, pend \ {e}, sn \cup {e})
              ELSE WalkOK(N, E, D, s, cur, Append(q, [node |-> m, dist |-> cur.dist + 1]),
                          vis \cup {m}, pend \ {e}, sn \cup {e})
<1> DEFINE m == Other(e, cur.node)
           new == [node |-> m, dist |-> cur.dist + 1]
           qq == IF m \in vis THEN q ELSE Append(q, new)
           vv == vis \cup {m}
           ss == sn \cup {e}
<1>1. /\ cur.node # None /\ cur.node \in vis /\ cur.dist < D
      /\ Exactly(N, E, cur.dist, s, cur.node)
      /\ e \in Incident(E, cur.node) /\ pend \subseteq Incident(E, cur.node)
      /\ \A f \in Incident(E, cur.node) \ pend : f \in sn /\ Other(f, cur.node) \in vis
  BY DEF WalkOK, CurrentOK
<1>2. e \in E /\ m \in N /\ Step(E, m, cur.node)
  BY <1>1 DEF Incident, Other, Ends, Step
<1>3. Near(N, E, cur.dist + 1, s, m)
  BY <1>1, <1>2, NearGrows DEF Exactly
<1>4. /\ Len(q) \in Nat
      /\ m \notin vis => /\ Len(qq) = Len(q) + 1
                         /\ \A i \in 1..Len(q) : qq[i] = q[i]
                         /\ qq[Len(q) + 1] = new
      /\ m \in vis => qq = q /\ vv = vis
  <2>1. new \in Visit
    OBVIOUS
  <2> HIDE DEF new
  <2> QED
    BY <2>1
<1>5. new.node = m /\ new.dist = cur.dist + 1
  OBVIOUS
<1> HIDE DEF m, new, qq, vv, ss
<1>6. FrontierOK(N, E, D, s, cur, qq, vv)
  <2>1. CASE m \in vis
    BY <1>4, <2>1 DEF WalkOK
  <2>2. CASE m \notin vis
    <3>1. Exactly(N, E, cur.dist + 1, s, m)
      <4>1. ~ Near(N, E, cur.dist, s, m)
        BY <1>2, <2>2 DEF WalkOK
      <4>2. (cur.dist + 1) - 1 = cur.dist
        OBVIOUS
      <4> QED
        BY <1>3, <4>1, <4>2 DEF Exactly
    <3>2. ASSUME NEW i \in 1..Len(qq)
          PROVE  /\ qq[i].node \in vv
                 /\ cur.dist <= qq[i].dist /\ qq[i].dist <= cur.dist + 1 /\ qq[i].dist <= D
                 /\ Exactly(N, E, qq[i].dist, s, qq[i].node)
      <4>1. CASE i \in 1..Len(q)
        <5>1. qq[i] = q[i]
          BY <1>4, <2>2, <4>1
        <5> QED
          BY <4>1, <5>1 DEF WalkOK, FrontierOK, vv
      <4>2. CASE i = Len(q) + 1
        <5>1. qq[i].node = m /\ qq[i].dist = cur.dist + 1
          BY <1>4, <1>5, <2>2, <4>2
        <5> QED
          BY <1>1, <3>1, <5>1 DEF vv
      <4> QED
        BY <1>4, <2>2, <4>1, <4>2
    <3>3. ASSUME NEW i \in 1..Len(qq), NEW j \in 1..Len(qq), i < j
          PROVE  qq[i].dist <= qq[j].dist
      <4>1. i \in 1..Len(q) /\ qq[i] = q[i]
        BY <1>4, <2>2, <3>3
      <4>2. CASE j \in 1..Len(q)
        <5>1. qq[j] = q[j]
          BY <1>4, <2>2, <4>2
        <5> QED
          BY <3>3, <4>1, <4>2, <5>1 DEF WalkOK, FrontierOK
      <4>3. CASE j = Len(q) + 1
        <5>1. qq[j].dist = cur.dist + 1
          BY <1>4, <1>5, <2>2, <4>3
        <5> QED
          BY <4>1, <5>1 DEF WalkOK, FrontierOK
      <4> QED
        BY <1>4, <2>2, <4>2, <4>3
    <3> QED
      BY <3>2, <3>3 DEF FrontierOK
  <2> QED
    BY <2>1, <2>2
<1>7. CurrentOK(N, E, D, s, cur, vv, pend \ {e}, ss)
  <2>1. ASSUME NEW f \in Incident(E, cur.node) \ (pend \ {e})
        PROVE  f \in ss /\ Other(f, cur.node) \in vv
    BY <1>1 DEF ss, vv, m
  <2> QED
    BY <1>1, <2>1 DEF CurrentOK, WalkOK, vv
<1>8. Accounted(N, E, D, s, cur, qq, vv, ss)
  <2> SUFFICES ASSUME NEW n \in vv
               PROVE  \/ \E i \in 1..Len(qq) : qq[i].node = n
                      \/ n = cur.node
                      \/ Closed(E, n, vv, ss)
                      \/ Far(N, E, D, s, n)
    BY DEF Accounted
  <2>1. CASE n \in vis
    <3>1. \/ \E i \in 1..Len(q) : q[i].node = n
          \/ n = cur.node
          \/ Closed(E, n, vis, sn)
          \/ Far(N, E, D, s, n)
      BY <2>1 DEF WalkOK, Accounted
    <3>2. ASSUME NEW i \in 1..Len(q), q[i].node = n
          PROVE  i \in 1..Len(qq) /\ qq[i].node = n
      <4>1. CASE m \in vis
        BY <1>4, <3>2, <4>1
      <4>2. CASE m \notin vis
        <5>1. qq[i] = q[i] /\ Len(qq) = Len(q) + 1
          BY <1>4, <4>2
        <5> QED
          BY <1>4, <3>2, <5>1
      <4> QED
        BY <4>1, <4>2
    <3>3. Closed(E, n, vis, sn) => Closed(E, n, vv, ss)
      BY DEF Closed, vv, ss
    <3> QED
      BY <3>1, <3>2, <3>3
  <2>2. CASE n \notin vis
    <3>1. n = m /\ m \notin vis
      BY <2>2 DEF vv
    <3>2. qq[Len(q) + 1].node = n /\ Len(q) + 1 \in 1..Len(qq)
      BY <1>4, <1>5, <3>1
    <3> QED
      BY <3>2
  <2> QED
    BY <2>1, <2>2
<1>9. ss \subseteq Within(N, E, D, s)
  <2>1. cur.dist \in 0..(D - 1)
    BY <1>1
  <2>2. Near(N, E, cur.dist, s, e.source) \/ Near(N, E, cur.dist, s, e.target)
    BY <1>1 DEF Exactly, Incident
  <2> QED
    BY <1>2, <2>1, <2>2 DEF WalkOK, Within, ss
<1>10. WalkOK(N, E, D, s, cur, qq, vv, pend \ {e}, ss)
  <2>1. s \in vv /\ vv \subseteq N /\ \A n \in N : Near(N, E, cur.dist, s, n) => n \in vv
    BY <1>2 DEF WalkOK, vv
  <2> QED
    BY <1>6, <1>7, <1>8, <1>9, <2>1 DEF WalkOK
<1>11. CASE m \in vis
  BY <1>4, <1>10, <1>11 DEF m, ss
<1>12. CASE m \notin vis
  BY <1>10, <1>12 DEF m, new, qq, vv, ss
<1> QED
  BY <1>11, <1>12 DEF m

\* A walk that ends has visited everything within reach: on a path to a node
\* it has not, the first such node follows one that was not expanded.
LEMMA WalkEnds ==
  ASSUME NEW N, NEW E, NEW D \in Nat, NEW s, NEW cur, NEW vis, NEW sn,
         cur.dist \in Nat, None \notin N,
         WalkOK(N, E, D, s, cur, <<>>, vis, {}, sn)
  PROVE  sn = Within(N, E, D, s)
<1>1. ASSUME NEW n \in vis, D > 0, Near(N, E, D - 1, s, n)
      PROVE  Closed(E, n, vis, sn)
  <2>1. n # None
    BY DEF WalkOK
  <2>2. n = cur.node \/ Closed(E, n, vis, sn) \/ Far(N, E, D, s, n)
    <3>1. \A i \in 1..Len(<<>>) : FALSE
      OBVIOUS
    <3> QED
      BY <3>1 DEF WalkOK, Accounted
  <2>3. ~ Far(N, E, D, s, n)
    BY <1>1 DEF Far
  <2>4. CASE n = cur.node
    <3>1. CurrentOK(N, E, D, s, cur, vis, {}, sn)
      BY DEF WalkOK
    <3>2. cur.dist < D
      <4>1. SUFFICES ASSUME ~ (cur.dist < D)
                     PROVE  FALSE
        OBVIOUS
      <4>2. cur.dist = D /\ Exactly(N, E, cur.dist, s, n)
        BY <2>1, <2>4, <3>1, <4>1 DEF CurrentOK
      <4> QED
        BY <1>1, <4>2 DEF Exactly
    <3> QED
      BY <2>1, <2>4, <3>1, <3>2 DEF CurrentOK, Closed
  <2> QED
    BY <2>2, <2>3, <2>4
<1>2. ASSUME NEW k \in 0..(D - 1), NEW n, Near(N, E, k, s, n)
      PROVE  n \in vis /\ Closed(E, n, vis, sn)
  <2>0. D > 0 /\ D - 1 \in Nat /\ k \in Nat /\ k <= D - 1
    BY <1>2
  <2>1. PICK p \in [0..k -> N] :
          /\ p[0] = s /\ p[k] = n
          /\ \A i \in 1..k : Step(E, p[i], p[i - 1])
    BY <1>2 DEF Near
  <2>2. n \in vis
    <3> SUFFICES ASSUME n \notin vis
                 PROVE  FALSE
      OBVIOUS
    <3> DEFINE A == {i \in 0..k : p[i] \notin vis}
    <3>1. A \subseteq Nat /\ k \in A
      BY <2>0, <2>1
    <3>2. PICK i \in A : \A j \in A : ~ (j < i)
      BY <3>1, LeastNatural
    <3>3. i # 0 /\ i \in 0..k /\ p[i] \notin vis
      BY <2>1, <3>2 DEF WalkOK
    <3>4. i - 1 \in 0..k /\ i - 1 \in Nat /\ i - 1 <= D - 1 /\ i \in 1..k /\ i - 1 < i
      BY <2>0, <3>3
    <3>5. p[i - 1] \in vis
      BY <3>2, <3>4
    <3>6. Near(N, E, i - 1, s, p[i - 1])
      BY <2>0, <2>1, <3>4, NearPrefix
    <3>7. Near(N, E, D - 1, s, p[i - 1])
      BY <2>0, <3>4, <3>6, NearMonotone
    <3>8. Closed(E, p[i - 1], vis, sn)
      BY <1>1, <2>0, <3>5, <3>7
    <3>9. Step(E, p[i], p[i - 1])
      BY <2>1, <3>4
    <3> QED
      BY <3>3, <3>5, <3>8, <3>9 DEF Step, Closed
  <2>3. Near(N, E, D - 1, s, n)
    BY <1>2, <2>0, NearMonotone
  <2> QED
    BY <1>1, <2>0, <2>2, <2>3
<1>3. Within(N, E, D, s) \subseteq sn
  <2> SUFFICES ASSUME NEW e \in E, NEW k \in 0..(D - 1),
                      Near(N, E, k, s, e.source) \/ Near(N, E, k, s, e.target)
               PROVE  e \in sn
    BY DEF Within
  <2>1. PICK n : n \in {e.source, e.target} /\ Near(N, E, k, s, n)
    OBVIOUS
  <2>2. e \in Incident(E, n)
    BY <2>1 DEF Incident
  <2> QED
    BY <1>2, <2>1, <2>2 DEF Closed
<1> QED
  BY <1>3 DEF WalkOK

-----------------------------------------------------------------------------
(* Types.                                                                   *)

LEMMA ReadingIsTyped ==
  ASSUME NEW S \in SUBSET (Texts \X Extractors)
  PROVE  /\ EdgesOf(S) \in SUBSET Edge /\ NodesOf(S) \in SUBSET Node
         /\ Ends(EdgesOf(S)) \subseteq NodesOf(S)
<1>1. ASSUME NEW t \in Texts, NEW x
      PROVE  Relationships(t, x) \subseteq Edge
  <2>1. \A e \in Facts[t] :
          /\ e \in Edge
          /\ [source |-> Untyped(e.source), relation |-> e.relation,
              target |-> Untyped(e.target)] \in Edge
    BY TextsAssumption, TypesAssumption DEF Edge, Node, Untyped
  <2> QED
    BY <2>1 DEF Relationships
<1>2. EdgesOf(S) \subseteq Edge
  BY <1>1 DEF EdgesOf
<1>3. Ends(EdgesOf(S)) \subseteq Node
  BY <1>2 DEF Ends, Edge
<1>4. UNION {Entities[r[1]] : r \in S} \subseteq Node
  BY TextsAssumption
<1> QED
  BY <1>2, <1>3, <1>4 DEF NodesOf

\* A build puts what it read into one graph.
LEMMA BuildUpserts ==
  ASSUME TypeOK, NEW w \in Workspaces, Build(w)
  PROVE  \E R, half : /\ half \subseteq Texts /\ R \in SUBSET (Texts \X Extractors)
                      /\ Upsert(w, R, half)
<1>1. PICK T \in {chunks[w]} \cup (SUBSET GivenTexts \ {{}}) : \E done \in SUBSET T :
        \E half \in {{}} \cup {{t} : t \in T \ done} : Upsert(w, done \X {extractor}, half)
  BY DEF Build
<1>2. PICK done \in SUBSET T, half \in SUBSET T : Upsert(w, done \X {extractor}, half)
  BY <1>1
<1>3. T \subseteq Texts /\ extractor \in Extractors
  BY TextsAssumption DEF TypeOK
<1>4. done \X {extractor} \in SUBSET (Texts \X Extractors) /\ half \subseteq Texts
  BY <1>3
<1> QED
  BY <1>2, <1>4

\* Every step keeps the types and every edge its ends.
LEMMA TypeKept == TypeOK /\ [Next]_vars => TypeOK'
<1> SUFFICES ASSUME TypeOK, [Next]_vars
             PROVE  TypeOK'
  OBVIOUS
<1> USE BoundsAssumption
<1>1. ASSUME NEW w \in Workspaces, NEW t \in Texts, Index(w, t)
      PROVE  TypeOK'
  BY <1>1 DEF TypeOK, Index, graph, process, query, walk
<1>2. ASSUME NEW w \in Workspaces, NEW t \in Texts, Unindex(w, t)
      PROVE  TypeOK'
  BY <1>2 DEF TypeOK, Unindex, graph, process, query, walk
<1>3. ASSUME NEW w \in Workspaces, Build(w)
      PROVE  TypeOK'
  <2>1. PICK R, half :
          /\ half \subseteq Texts /\ R \in SUBSET (Texts \X Extractors)
          /\ Upsert(w, R, half)
    BY <1>3, BuildUpserts
  <2>3. /\ EdgesOf(R) \in SUBSET Edge /\ NodesOf(R) \in SUBSET Node
        /\ Ends(EdgesOf(R)) \subseteq NodesOf(R)
    BY <2>1, ReadingIsTyped
  <2>4. UNION {Entities[t] : t \in half} \subseteq Node
    BY <2>1, TextsAssumption
  <2>5. nodes' \in [Workspaces -> SUBSET Node] /\ edges' \in [Workspaces -> SUBSET Edge]
    BY <2>1, <2>3, <2>4 DEF TypeOK, Upsert
  <2>6. read' \in [Workspaces -> SUBSET (Texts \X Extractors)]
    BY <2>1 DEF TypeOK, Upsert
  <2>7. ASSUME NEW v \in Workspaces
        PROVE  Ends(edges'[v]) \subseteq nodes'[v]
    <3>1. Ends(edges[v]) \subseteq nodes[v]
      BY DEF TypeOK
    <3>2. CASE v = w
      <4>1. edges'[v] = edges[v] \cup EdgesOf(R) /\ nodes[v] \cup NodesOf(R) \subseteq nodes'[v]
        BY <2>1, <3>2 DEF TypeOK, Upsert
      <4> QED
        BY <2>3, <3>1, <4>1 DEF Ends
    <3>3. CASE v # w
      BY <2>1, <3>1, <3>3 DEF TypeOK, Upsert
    <3> QED
      BY <3>2, <3>3
  <2>8. UNCHANGED <<process, pc, query, todo, walk, answer>>
    BY <1>3 DEF Build
  <2> QED
    BY <2>5, <2>6, <2>7, <2>8 DEF TypeOK, process, query, walk
<1>4. ASSUME NEW w \in Workspaces, NEW d \in 0..MaxDepth, Ask(w, d)
      PROVE  TypeOK'
  BY <1>4 DEF TypeOK, Ask, graph, process, walk
<1>5. ASSUME NEW s \in todo, Begin(s)
      PROVE  TypeOK'
  <2>1. s \in Node /\ [node |-> s, dist |-> 0] \in Visit
    BY DEF TypeOK, Visit
  <2>2. queue' \in Seq(Visit)
    BY <1>5, <2>1 DEF Begin
  <2> QED
    BY <1>5, <2>1, <2>2 DEF TypeOK, Begin, graph, process, query
<1>6. CASE Pop
  <2>1. Head(queue) \in Visit /\ Tail(queue) \in Seq(Visit)
    BY <1>6 DEF TypeOK, Pop
  <2>2. at' \in [node: Node \cup {None}, dist: Nat]
    BY <1>6, <2>1 DEF Pop, Visit
  <2>3. pending' \subseteq Edge
    <3>1. asker \in Workspaces /\ edges[asker] \subseteq Edge
      BY <1>6 DEF TypeOK, Pop
    <3> QED
      BY <1>6, <3>1 DEF Pop, Incident
  <2> QED
    BY <1>6, <2>1, <2>2, <2>3 DEF TypeOK, Pop, graph, process, query
<1>7. ASSUME NEW e \in pending, Follow(e)
      PROVE  TypeOK'
  <2> DEFINE m == Other(e, at.node)
             new == [node |-> m, dist |-> at.dist + 1]
  <2>1. e \in Edge /\ m \in Node
    BY DEF TypeOK, Edge, Other
  <2>2. new \in Visit
    BY <2>1 DEF TypeOK, Visit
  <2> HIDE DEF new
  <2>3. Append(queue, new) \in Seq(Visit)
    BY <2>2 DEF TypeOK
  <2> HIDE DEF m
  <2>4. queue' \in Seq(Visit) /\ visited' \subseteq Node
    BY <1>7, <2>1, <2>3 DEF TypeOK, Follow, m, new
  <2>5. pending' \subseteq Edge /\ seen' \subseteq Edge
    BY <1>7, <2>1 DEF TypeOK, Follow
  <2> QED
    BY <1>7, <2>4, <2>5 DEF TypeOK, Follow, graph, process, query
<1>8. CASE Return
  BY <1>8 DEF TypeOK, Return, Nowhere, graph, process, query
<1>9. CASE Answer
  BY <1>9 DEF TypeOK, Answer, graph, process, query, walk
<1>10. CASE Reply
  BY <1>10 DEF TypeOK, Reply, Forget, graph, process, walk
<1>11. CASE Crash
  <2>1. /\ nodes' \in [Workspaces -> SUBSET Node] /\ edges' \in [Workspaces -> SUBSET Edge]
        /\ \A w \in Workspaces : Ends(edges'[w]) \subseteq nodes'[w]
        /\ read' \in [Workspaces -> SUBSET (Texts \X Extractors)]
    BY <1>11 DEF TypeOK, Crash, graph, Ends
  <2>2. queue' \in Seq(Visit) /\ at' \in [node: Node \cup {None}, dist: Nat]
    BY <1>11 DEF Crash, Stop, Nowhere
  <2> QED
    BY <1>11, <2>1, <2>2 DEF TypeOK, Crash, Forget, Stop
<1>12. CASE QueryFails
  BY <1>12 DEF TypeOK, QueryFails, Forget, Stop, Nowhere, graph, process
<1>13. CASE UNCHANGED vars
  BY <1>13 DEF TypeOK, vars
<1> QED
  BY <1>1, <1>2, <1>3, <1>4, <1>5, <1>6, <1>7, <1>8, <1>9, <1>10, <1>11, <1>12, <1>13 DEF Next, Walking

\* Every variable has its type in every reachable state, and every edge its
\* ends: whatever the texts say, a fact names no entity the graph lacks.
THEOREM GraphTypeCorrect == Spec => []TypeOK
<1>1. Init => TypeOK
  BY BoundsAssumption DEF Init, TypeOK, Nowhere, Ends
<1> QED
  BY <1>1, TypeKept, PTL DEF Spec

-----------------------------------------------------------------------------
(* Where answers come from.                                                 *)

\* The edges of a workspace were read for it, and a query touches only those of
\* its asker.
Sourced ==
  /\ \A w \in Workspaces : edges[w] \subseteq EdgesOf(read[w])
  /\ pc # "walk" => pending = {} /\ seen = {}
  /\ pc = "idle" => answer = {}
  /\ pc # "idle" => pending \cup seen \cup answer \subseteq edges[asker]

\* Every step keeps the facts and their origin together.
LEMMA SourcedKept == TypeOK /\ Sourced /\ [Next]_vars => Sourced'
<1> SUFFICES ASSUME TypeOK, Sourced, [Next]_vars
             PROVE  Sourced'
  OBVIOUS
<1>1. ASSUME NEW w \in Workspaces, NEW t \in Texts, Index(w, t) \/ Unindex(w, t)
      PROVE  Sourced'
  BY <1>1 DEF Sourced, Index, Unindex, graph, query, walk
<1>2. ASSUME NEW w \in Workspaces, Build(w)
      PROVE  Sourced'
  <2>1. PICK R, half : Upsert(w, R, half)
    BY <1>2, BuildUpserts
  <2>2. ASSUME NEW v \in Workspaces
        PROVE  edges'[v] \subseteq EdgesOf(read'[v])
    <3>1. edges[v] \subseteq EdgesOf(read[v])
      BY DEF Sourced
    <3>2. CASE v = w
      <4>1. edges'[v] = edges[v] \cup EdgesOf(R) /\ read'[v] = read[v] \cup R
        BY <2>1, <3>2 DEF TypeOK, Upsert
      <4>2. EdgesOf(read[v]) \cup EdgesOf(R) \subseteq EdgesOf(read[v] \cup R)
        BY DEF EdgesOf
      <4> QED
        BY <3>1, <4>1, <4>2
    <3>3. CASE v # w
      BY <2>1, <3>1, <3>3 DEF TypeOK, Upsert
    <3> QED
      BY <3>2, <3>3
  <2>3. pc = "idle" /\ UNCHANGED <<pc, pending, seen, answer>>
    BY <1>2 DEF Build, walk
  <2> QED
    BY <2>2, <2>3 DEF Sourced
<1>3. ASSUME NEW w \in Workspaces, NEW d \in 0..MaxDepth, Ask(w, d)
      PROVE  Sourced'
  BY <1>3 DEF Sourced, Ask, graph, walk
<1>4. ASSUME NEW s \in todo, Begin(s)
      PROVE  Sourced'
  BY <1>4 DEF Sourced, Begin, graph, query
<1>5. CASE Pop
  BY <1>5 DEF Sourced, Pop, Incident, graph, query
<1>6. ASSUME NEW e \in pending, Follow(e)
      PROVE  Sourced'
  BY <1>6 DEF Sourced, Follow, graph, query
<1>7. CASE Return
  BY <1>7 DEF Sourced, Return, graph, query
<1>8. CASE Answer
  BY <1>8 DEF Sourced, Answer, graph, query, walk
<1>9. CASE Reply
  BY <1>9 DEF Sourced, Reply, Forget, graph, walk
<1>10. CASE Crash
  <2>1. \A w \in Workspaces : edges'[w] \subseteq EdgesOf(read'[w])
    BY <1>10 DEF Sourced, Crash, graph
  <2> QED
    BY <1>10, <2>1 DEF Crash, Forget, Stop, Sourced
<1>11. CASE QueryFails
  BY <1>11 DEF Sourced, QueryFails, Forget, Stop, graph
<1>12. CASE UNCHANGED vars
  BY <1>12 DEF Sourced, vars
<1> QED
  BY <1>1, <1>2, <1>3, <1>4, <1>5, <1>6, <1>7, <1>8, <1>9, <1>10, <1>11, <1>12 DEF Next, Walking

\* An answer holds facts that a build of the asker's own workspace read in a
\* text, with the extractor it ran with, and that no restart has lost since.
THEOREM AnswersHaveSources == Spec => []AnswersComeFromTexts
<1>1. Init => TypeOK /\ Sourced
  BY BoundsAssumption DEF Init, TypeOK, Nowhere, Ends, Sourced
<1>2. TypeOK /\ Sourced => AnswersComeFromTexts
  BY DEF TypeOK, Sourced, AnswersComeFromTexts
<1> QED
  BY <1>1, <1>2, TypeKept, SourcedKept, PTL DEF Spec

-----------------------------------------------------------------------------
(* Answers are exact.                                                       *)

\* The facts that starting from all of S finds.
Found(N, E, D, S) == UNION {Within(N, E, D, x) : x \in S}

\* The seeds that are done are in the answer with all their facts; the one being
\* walked from is walked from well.
QueryOK ==
  /\ pc # "idle" => seeds \subseteq nodes[asker]
  /\ pc # "walk" => at = Nowhere /\ queue = <<>> /\ visited = {} /\ pending = {} /\ seen = {}
  /\ pc = "idle" => answer = {}
  /\ pc = "answered" => todo = {}
  /\ pc \in {"seed", "answered"} => answer = Found(nodes[asker], edges[asker], depth, seeds \ todo)
  /\ pc = "walk" =>
       \E s \in seeds \ todo :
         /\ answer = Found(nodes[asker], edges[asker], depth, seeds \ (todo \cup {s}))
         /\ WalkOK(nodes[asker], edges[asker], depth, s, at, queue, visited, pending, seen)

\* Every step keeps a query exact.
LEMMA QueryKept == TypeOK /\ TypeOK' /\ QueryOK /\ [Next]_vars => QueryOK'
<1> SUFFICES ASSUME TypeOK, TypeOK', QueryOK, [Next]_vars
             PROVE  QueryOK'
  OBVIOUS
<1> DEFINE N == nodes[asker]
           E == edges[asker]
<1>0. /\ depth \in Nat /\ at.dist \in Nat /\ queue \in Seq(Visit)
      /\ pc # "idle" => N \subseteq Node /\ None \notin N /\ Ends(E) \subseteq N
  BY BoundsAssumption, NoneAssumption DEF TypeOK
<1>1. ASSUME NEW w \in Workspaces, NEW t \in Texts, Index(w, t) \/ Unindex(w, t)
      PROVE  QueryOK'
  BY <1>1 DEF QueryOK, Index, Unindex, walk
<1>2. ASSUME NEW w \in Workspaces, Build(w)
      PROVE  QueryOK'
  BY <1>2 DEF QueryOK, Build, walk
<1>3. ASSUME NEW w \in Workspaces, NEW d \in 0..MaxDepth, Ask(w, d)
      PROVE  QueryOK'
  <2>1. seeds' \subseteq nodes'[asker'] /\ seeds' \ todo' = {} /\ answer' = {} /\ pc' = "seed"
    BY <1>3 DEF QueryOK, Ask, graph
  <2>2. UNCHANGED walk /\ pc = "idle"
    BY <1>3 DEF Ask
  <2> QED
    BY <2>1, <2>2 DEF QueryOK, Found, walk
<1>4. ASSUME NEW s \in todo, Begin(s)
      PROVE  QueryOK'
  <2>1. s \in N /\ s \in seeds /\ at = Nowhere /\ pending = {} /\ seen = {} /\ pc = "seed"
    BY <1>4 DEF QueryOK, Begin, TypeOK
  <2>2. WalkOK(N, E, depth, s, Nowhere, <<[node |-> s, dist |-> 0]>>, {s}, {}, {})
    BY <1>0, <2>1, WalkBegins
  <2>3. answer = Found(N, E, depth, seeds \ todo)
    BY <2>1 DEF QueryOK
  <2>4. s \in seeds' \ todo' /\ seeds' \ (todo' \cup {s}) = seeds \ todo
    BY <1>4, <2>1 DEF Begin, query
  <2>5. answer' = Found(nodes'[asker'], edges'[asker'], depth', seeds' \ (todo' \cup {s}))
    BY <1>4, <2>3, <2>4 DEF Begin, graph, query
  <2>6. WalkOK(nodes'[asker'], edges'[asker'], depth', s, at', queue', visited', pending', seen')
    BY <1>4, <2>1, <2>2 DEF Begin, graph, query
  <2>7. pc' = "walk" /\ seeds' \subseteq nodes'[asker']
    BY <1>4, <2>1 DEF QueryOK, Begin, graph, query
  <2> QED
    BY <2>4, <2>5, <2>6, <2>7 DEF QueryOK
<1>5. ASSUME pc = "walk", UNCHANGED <<graph, query, pc, todo, answer>>,
             \A s : WalkOK(N, E, depth, s, at, queue, visited, pending, seen)
                      => WalkOK(N, E, depth, s, at', queue', visited', pending', seen')
      PROVE  QueryOK'
  <2>1. PICK s \in seeds \ todo :
          /\ answer = Found(N, E, depth, seeds \ (todo \cup {s}))
          /\ WalkOK(N, E, depth, s, at, queue, visited, pending, seen)
    BY <1>5 DEF QueryOK
  <2>2. WalkOK(nodes'[asker'], edges'[asker'], depth', s, at', queue', visited', pending', seen')
    BY <1>5, <2>1 DEF graph, query
  <2>3. answer' = Found(nodes'[asker'], edges'[asker'], depth', seeds' \ (todo' \cup {s}))
    BY <1>5, <2>1 DEF graph, query
  <2>4. s \in seeds' \ todo' /\ pc' = "walk" /\ seeds' \subseteq nodes'[asker']
    BY <1>5, <2>1 DEF QueryOK, graph, query
  <2> QED
    BY <2>2, <2>3, <2>4 DEF QueryOK
<1>6. CASE Pop
  <2>1. /\ pc = "walk" /\ pending = {} /\ queue # <<>>
        /\ at' = Head(queue) /\ queue' = Tail(queue)
        /\ pending' = IF Head(queue).dist < depth THEN Incident(E, Head(queue).node) ELSE {}
        /\ visited' = visited /\ seen' = seen
        /\ UNCHANGED <<graph, query, pc, todo, answer>>
    BY <1>6 DEF Pop
  <2>2. ASSUME NEW s, WalkOK(N, E, depth, s, at, queue, visited, pending, seen)
        PROVE  WalkOK(N, E, depth, s, at', queue', visited', pending', seen')
    BY <1>0, <2>1, <2>2, WalkPops
  <2> QED
    BY <1>5, <2>1, <2>2
<1>7. ASSUME NEW e \in pending, Follow(e)
      PROVE  QueryOK'
  <2> DEFINE m == Other(e, at.node)
             new == [node |-> m, dist |-> at.dist + 1]
  <2>1. pc = "walk" /\ UNCHANGED <<graph, query, pc, todo, at, answer>>
    BY <1>7 DEF Follow
  <2>2. new \in Visit
    BY <1>0 DEF TypeOK, Edge, Other, Visit
  <2>3. ASSUME NEW s, WalkOK(N, E, depth, s, at, queue, visited, pending, seen)
        PROVE  WalkOK(N, E, depth, s, at', queue', visited', pending', seen')
    <3>1. IF m \in visited
            THEN WalkOK(N, E, depth, s, at, queue, visited, pending \ {e}, seen \cup {e})
            ELSE WalkOK(N, E, depth, s, at, Append(queue, new), visited \cup {m},
                        pending \ {e}, seen \cup {e})
      BY <1>0, <2>1, <2>2, <2>3, WalkFollows
    <3> HIDE DEF m
    <3>2. CASE m \in visited
      BY <1>7, <2>1, <3>1, <3>2 DEF Follow, m
    <3>3. CASE m \notin visited
      BY <1>7, <2>1, <3>1, <3>3 DEF Follow, m
    <3> QED
      BY <3>2, <3>3
  <2> QED
    BY <1>5, <2>1, <2>3
<1>8. CASE Return
  <2>1. PICK s \in seeds \ todo :
          /\ answer = Found(N, E, depth, seeds \ (todo \cup {s}))
          /\ WalkOK(N, E, depth, s, at, queue, visited, pending, seen)
    BY <1>8 DEF QueryOK, Return
  <2>2. /\ pending = {} /\ queue = <<>> /\ pc = "walk" /\ pc' = "seed"
        /\ at' = Nowhere /\ visited' = {} /\ seen' = {} /\ queue' = <<>> /\ pending' = {}
        /\ answer' = answer \cup seen
        /\ UNCHANGED <<graph, query, todo>>
    BY <1>8 DEF Return
  <2>3. seen = Within(N, E, depth, s)
    BY <1>0, <2>1, <2>2, WalkEnds
  <2>4. answer' = Found(N, E, depth, seeds \ todo)
    BY <2>1, <2>2, <2>3 DEF Found
  <2>5. answer' = Found(nodes'[asker'], edges'[asker'], depth', seeds' \ todo')
    BY <2>2, <2>4 DEF graph, query
  <2>6. seeds' \subseteq nodes'[asker']
    BY <2>2 DEF QueryOK, graph, query
  <2> QED
    BY <2>2, <2>5, <2>6 DEF QueryOK
<1>9. CASE Answer
  <2>1. answer' = Found(nodes'[asker'], edges'[asker'], depth', seeds' \ todo')
    BY <1>9 DEF QueryOK, Answer, graph, query
  <2> QED
    BY <1>9, <2>1 DEF QueryOK, Answer, graph, query, walk
<1>10. CASE Reply
  BY <1>10 DEF QueryOK, Reply, Forget, walk
<1>11. CASE Crash
  BY <1>11 DEF QueryOK, Crash, Forget, Stop
<1>12. CASE QueryFails
  BY <1>12 DEF QueryOK, QueryFails, Forget, Stop
<1>13. CASE UNCHANGED vars
  BY <1>13 DEF QueryOK, vars
<1> QED
  BY <1>1, <1>2, <1>3, <1>4, <1>6, <1>7, <1>8, <1>9, <1>10, <1>11, <1>12, <1>13 DEF Next, Walking

\* A query is answered with exactly the facts within its depth of its seeds, on
\* every graph, in whatever order edges and seeds are taken.
THEOREM AnswersExact == Spec => []AnswersAreExact
<1>1. Init => TypeOK /\ QueryOK
  <2>1. Init => TypeOK
    BY BoundsAssumption DEF Init, TypeOK, Nowhere, Ends
  <2>2. Init => QueryOK
    BY DEF Init, QueryOK
  <2> QED
    BY <2>1, <2>2
<1>2. QueryOK => AnswersAreExact
  BY DEF QueryOK, AnswersAreExact, Found
<1> QED
  BY <1>1, <1>2, TypeKept, QueryKept, PTL DEF Spec
=============================================================================
