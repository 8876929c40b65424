------------------------- MODULE ArchitectureProofs -------------------------
(* What the verdict on an architecture says of the code, for every graph    *)
(* and every contract, what the verdict on a change rests on, for every     *)
(* repository and every call, and what the frames of a trace are mapped to, *)
(* for every trace and every graph.                                         *)
EXTENDS ArchitectureRatchet, VerifiedChange, StackTrace, DataInduction, FiniteSetTheorems

EdgesKnown == edges \subseteq DOMAIN PossibleEdges

FileNodes(file) == {n \in DOMAIN FileAtNode : FileAtNode[n] = file}

(* What is one edge away from these nodes.                                  *)
OneStep(rule, nodes) ==
  {PossibleEdges[k].to : k \in {j \in edges : PossibleEdges[j].from \in nodes /\ Selects(rule, j)}}

LEMMA EdgeEnds ==
  ASSUME NEW k \in DOMAIN PossibleEdges
  PROVE  PossibleEdges[k].from \in Nodes /\ PossibleEdges[k].to \in Nodes
<1>1. ASSUME NEW S, NEW q \in Seq(S), NEW j \in DOMAIN q
      PROVE  q[j] \in S
  OBVIOUS
<1> DEFINE S == [from : Nodes, to : Nodes, kind : STRING]
<1>2. PossibleEdges \in Seq(S)
  BY RatchetAssumption
<1>3. PossibleEdges[k] \in S
  <2> HIDE DEF S
  <2> QED
    BY <1>1, <1>2
<1> QED
  BY <1>3

-----------------------------------------------------------------------------
(* What a file needs is counted in layers.                                  *)

GrowsInLayers(rule, file) ==
  \E F \in [SUBSET Nodes -> SUBSET Nodes] :
    /\ \A s \in SUBSET Nodes : F[s] = s \cup OneStep(rule, s)
    /\ \A h \in Nat : \E w : /\ IsIteration(w, h, SUBSET Nodes, FileNodes(file), F)
                             /\ Needed(rule, file, h) = w[h]

LEMMA NeededGrows ==
  ASSUME EdgesKnown, NEW rule, NEW file
  PROVE  GrowsInLayers(rule, file)
<1> DEFINE S == SUBSET Nodes
           F == [s \in S |-> s \cup OneStep(rule, s)]
           Near(s) == {PossibleEdges[k].to :
                         k \in {j \in edges : PossibleEdges[j].from \in s /\ Selects(rule, j)}}
<1>0. \A s : OneStep(rule, s) = Near(s)
  BY DEF OneStep
<1>1. F \in [S -> S] /\ FileNodes(file) \in S
  <2>1. \A s : OneStep(rule, s) \subseteq Nodes
    BY EdgeEnds DEF OneStep, EdgesKnown
  <2>2. FileNodes(file) \subseteq Nodes
    BY RatchetAssumption DEF FileNodes
  <2> QED
    BY <2>1, <2>2
<1>2. \A s \in S : F[s] = s \cup OneStep(rule, s)
  OBVIOUS
<1>3. ASSUME NEW h \in Nat
      PROVE  \E w : IsIteration(w, h, S, FileNodes(file), F) /\ Needed(rule, file, h) = w[h]
  <2> DEFINE Layers(w) == [k \in 0..h |-> IF k = 0 THEN {n \in DOMAIN FileAtNode : FileAtNode[n] = file}
                                          ELSE w[k - 1] \cup Near(w[k - 1])]
             W == CHOOSE w : w = Layers(w)
  <2>1. Needed(rule, file, h) = W[h]
    BY DEF Needed
  <2>2. PICK c : IsIteration(c, h, S, FileNodes(file), F)
    <3> HIDE DEF F, S
    <3> QED
      BY <1>1, IterationExists
  <2>3. c \in [0..h -> S] /\ c[0] = FileNodes(file) /\ \A k \in 1..h : c[k] = F[c[k - 1]]
    BY <2>2 DEF IsIteration
  <2>4. \A k \in 1..h : c[k] = c[k - 1] \cup Near(c[k - 1])
    <3> HIDE DEF F, Near
    <3> QED
      BY <1>0, <1>2, <2>3
  <2> HIDE DEF Near, F
  <2>5. c = Layers(c)
    BY <2>3, <2>4 DEF FileNodes
  <2>6. W = Layers(W)
    <3> HIDE DEF Layers
    <3> QED
      BY <2>5
  <2>7. W = c
    <3> HIDE DEF W
    <3> DEFINE T == {k \in 0..h : W[k] = c[k]}
    <3>1. 0 \in T
      BY <2>3, <2>6 DEF FileNodes
    <3>2. ASSUME NEW k \in 0..h, k < h, k \in T
          PROVE  k + 1 \in T
      <4>1. k + 1 \in 1..h /\ k + 1 - 1 = k /\ k + 1 \in 0..h /\ k + 1 # 0
        BY <3>2
      <4>2. W[k + 1] = W[k] \cup Near(W[k])
        <5>1. W[k + 1] = Layers(W)[k + 1]
          <6> HIDE DEF Layers
          <6> QED
            BY <2>6
        <5> QED
          BY <4>1, <5>1
      <4>3. c[k + 1] = c[k] \cup Near(c[k])
        BY <2>4, <4>1
      <4> QED
        BY <3>2, <4>1, <4>2, <4>3
    <3>3. \A k \in 0..h : k \in T
      <4> HIDE DEF T
      <4> QED
        BY <3>1, <3>2, BoundedInduction
    <3>4. W \in [0..h -> {W[k] : k \in 0..h}]
      BY <2>6
    <3> QED
      BY <2>3, <3>3, <3>4
  <2> HIDE DEF W, Layers
  <2> QED
    BY <2>1, <2>2, <2>7
<1> HIDE DEF F
<1> QED
  BY <1>1, <1>2, <1>3 DEF GrowsInLayers

(* One layer more. *)
LEMMA NeededNext ==
  ASSUME EdgesKnown, NEW rule, NEW file, NEW d \in Nat
  PROVE  /\ Needed(rule, file, 0) = FileNodes(file)
         /\ Needed(rule, file, d) \subseteq Nodes
         /\ Needed(rule, file, d + 1)
              = Needed(rule, file, d) \cup OneStep(rule, Needed(rule, file, d))
<1>1. PICK F \in [SUBSET Nodes -> SUBSET Nodes] :
        /\ \A s \in SUBSET Nodes : F[s] = s \cup OneStep(rule, s)
        /\ \A h \in Nat : \E w : /\ IsIteration(w, h, SUBSET Nodes, FileNodes(file), F)
                                 /\ Needed(rule, file, h) = w[h]
  <2>1. GrowsInLayers(rule, file)
    BY NeededGrows
  <2> QED
    BY <2>1 DEF GrowsInLayers
<1> DEFINE It(w, h) == /\ IsIteration(w, h, SUBSET Nodes, FileNodes(file), F)
                       /\ Needed(rule, file, h) = w[h]
<1>0. \A h \in Nat : \E w : It(w, h)
  BY <1>1
<1> HIDE DEF It
<1>2. PICK w : It(w, d + 1)
  BY <1>0
<1>3. ASSUME NEW k \in 0..(d + 1)
      PROVE  Needed(rule, file, k) = w[k]
  <2>1. PICK b : It(b, k)
    BY <1>0
  <2>2. \A j \in 0..k : b[j] = w[j]
    BY <1>2, <2>1, IterationsAgree DEF It
  <2> QED
    BY <2>1, <2>2 DEF It
<1>4. w[0] = FileNodes(file) /\ w[d] \in SUBSET Nodes /\ w[d + 1] = F[w[d]]
  <2>1. d + 1 \in 1..(d + 1) /\ d + 1 - 1 = d /\ d \in 0..(d + 1)
    OBVIOUS
  <2> QED
    BY <1>2, <2>1 DEF It, IsIteration
<1>5. w[d + 1] = w[d] \cup OneStep(rule, w[d])
  BY <1>1, <1>4
<1>6. 0 \in 0..(d + 1) /\ d \in 0..(d + 1) /\ d + 1 \in 0..(d + 1)
  OBVIOUS
<1> QED
  BY <1>3, <1>4, <1>5, <1>6

LEMMA NeededIsMore ==
  ASSUME EdgesKnown, NEW rule, NEW file, NEW d \in Nat, NEW h \in Nat, d <= h
  PROVE  Needed(rule, file, d) \subseteq Needed(rule, file, h)
<1> DEFINE D(k) == Needed(rule, file, k)
           T == {k \in Nat : D(d) \subseteq D(d + k)}
<1>1. 0 \in T
  OBVIOUS
<1>2. ASSUME NEW k \in Nat, k \in T
      PROVE  k + 1 \in T
  <2>1. d + k \in Nat /\ d + (k + 1) = d + k + 1
    OBVIOUS
  <2>2. D(d + k) \subseteq D(d + k + 1)
    BY <2>1, NeededNext
  <2> HIDE DEF D
  <2> QED
    BY <1>2, <2>1, <2>2
<1>3. \A k \in Nat : k \in T
  <2> HIDE DEF T
  <2> QED
    BY <1>1, <1>2, SetInduction
<1>4. h - d \in Nat /\ d + (h - d) = h
  OBVIOUS
<1> HIDE DEF D
<1>5. D(d) \subseteq D(h)
  BY <1>3, <1>4
<1> QED
  BY <1>5 DEF D

(* Nodes that hold those of the file and what they lead to hold all that    *)
(* the file needs.                                                          *)
LEMMA NeededIsIn ==
  ASSUME EdgesKnown, NEW rule, NEW file, NEW B, FileNodes(file) \subseteq B,
         OneStep(rule, B) \subseteq B, NEW h \in Nat
  PROVE  Needed(rule, file, h) \subseteq B
<1> DEFINE D(k) == Needed(rule, file, k)
           T == {k \in Nat : D(k) \subseteq B}
<1>1. 0 \in T
  BY NeededNext
<1>2. ASSUME NEW k \in Nat, k \in T
      PROVE  k + 1 \in T
  <2>1. D(k + 1) = D(k) \cup OneStep(rule, D(k))
    BY NeededNext
  <2>2. OneStep(rule, D(k)) \subseteq OneStep(rule, B)
    BY <1>2 DEF OneStep
  <2> HIDE DEF D
  <2> QED
    BY <1>2, <2>1, <2>2
<1>3. \A k \in Nat : k \in T
  <2> HIDE DEF T
  <2> QED
    BY <1>1, <1>2, SetInduction
<1> HIDE DEF D
<1>4. D(h) \subseteq B
  BY <1>3
<1> QED
  BY <1>4 DEF D

-----------------------------------------------------------------------------
(* The search for a path, unfolded step by step.                            *)

Item == [node : Nodes, depth : Nat]

Search == [seen : SUBSET Nodes, found : Nodes \cup {None}, queue : Seq(Item)]

LEMMA MetTells ==
  ASSUME NEW s \in Search, NEW n \in Nodes, NEW d \in Nat
  PROVE  /\ Met(s, n, d) \in Search
         /\ Met(s, n, d).seen = s.seen \cup {n} /\ Met(s, n, d).found = s.found
         /\ Met(s, n, d).queue = Append(s.queue, [node |-> n, depth |-> d])
<1>1. /\ s.seen \in SUBSET Nodes /\ s.found \in Nodes \cup {None} /\ s.queue \in Seq(Item)
      /\ s = [seen |-> s.seen, found |-> s.found, queue |-> s.queue]
  BY DEF Search
<1>2. [node |-> n, depth |-> d] \in Item
  BY DEF Item
<1>3. Append(s.queue, [node |-> n, depth |-> d]) \in Seq(Item)
  BY <1>1, <1>2, AppendPlaces
<1> QED
  BY <1>1, <1>3 DEF Search, Met

Unmet == [seen |-> {}, found |-> None, queue |-> <<>>]

SeedStep(file, k, s) ==
  IF k \in DOMAIN FileAtNode /\ FileAtNode[k] = file THEN Met(s, k, 0) ELSE s

LEMMA SeededUnfolds ==
  ASSUME NEW file
  PROVE  \E a : /\ a[0] = Unmet
                /\ \A k \in 1..NodeCount : a[k] = SeedStep(file, k, a[k - 1])
                /\ Seeded(file) = a[NodeCount]
<1> DEFINE N == NodeCount
           Body(f) == [k \in 0..N |->
             IF k = 0 THEN [seen |-> {}, found |-> None, queue |-> <<>>]
             ELSE IF k \in DOMAIN FileAtNode /\ FileAtNode[k] = file THEN Met(f[k - 1], k, 0)
             ELSE f[k - 1]]
           A == CHOOSE f : f = Body(f)
           F == [k \in 1..N |-> [s \in Search |-> SeedStep(file, k, s)]]
<1>1. Seeded(file) = A[N]
  BY DEF Seeded
<1>2. N \in Nat /\ Unmet \in Search
  BY RatchetAssumption DEF Search, Unmet
<1>3. \A k \in 1..N : \A s \in Search : SeedStep(file, k, s) \in Search
  BY <1>2, MetTells DEF SeedStep, Nodes
<1> HIDE DEF N
<1>4. F \in [1..N -> [Search -> Search]] /\ \A k \in 1..N : \A s \in Search : F[k][s] = SeedStep(file, k, s)
  BY <1>3
<1>5. PICK c : IsIndexedIteration(c, N, Search, Unmet, F)
  <2> HIDE DEF F
  <2> QED
    BY <1>2, <1>4, IndexedIterationExists
<1>6. c \in [0..N -> Search] /\ c[0] = Unmet /\ \A k \in 1..N : c[k] = SeedStep(file, k, c[k - 1])
  <2> HIDE DEF F
  <2>1. ASSUME NEW k \in 1..N
        PROVE  c[k - 1] \in Search /\ c[k] = F[k][c[k - 1]]
    <3>1. k - 1 \in 0..N
      BY <1>2
    <3> QED
      BY <1>5, <3>1 DEF IsIndexedIteration
  <2> QED
    BY <1>4, <1>5, <2>1 DEF IsIndexedIteration
<1> HIDE DEF F
<1>7. c = Body(c)
  <2>1. \A k \in 0..N : k = 0 \/ k \in 1..N
    BY <1>2
  <2>2. \A k \in 0..N : c[k] = IF k = 0 THEN Unmet ELSE SeedStep(file, k, c[k - 1])
    BY <1>2, <1>6, <2>1
  <2> QED
    BY <1>6, <2>2 DEF SeedStep, Unmet
<1>8. A = Body(A)
  <2> HIDE DEF Body
  <2> QED
    BY <1>7
<1> HIDE DEF A
<1>9. A[0] = Unmet /\ \A k \in 1..N : A[k] = SeedStep(file, k, A[k - 1])
  <2>1. \A k \in 0..N : A[k] = Body(A)[k]
    <3> HIDE DEF Body
    <3> QED
      BY <1>8
  <2>2. 0 \in 0..N /\ \A k \in 1..N : k \in 0..N /\ k # 0
    BY <1>2
  <2> QED
    BY <2>1, <2>2 DEF SeedStep, Unmet
<1> QED
  BY <1>1, <1>9 DEF N

LEMMA SteppedTypes ==
  ASSUME EdgesKnown, NEW rule, NEW item \in Item, NEW s \in Search, NEW k \in DOMAIN PossibleEdges
  PROVE  Stepped(rule, item, s, k) \in Search
<1> DEFINE node == PossibleEdges[k].to
           next == Met(s, node, item.depth + 1)
<1>1. node \in Nodes /\ item.depth + 1 \in Nat
  BY EdgeEnds DEF Item
<1>2. next \in Search
  BY <1>1, MetTells
<1>3. ASSUME NEW f \in Nodes \cup {None}
      PROVE  [next EXCEPT !.found = f] \in Search
  BY <1>2 DEF Search
<1>4. (IF IsTarget(rule, node) THEN node ELSE None) \in Nodes \cup {None}
  BY <1>1
<1> QED
  BY <1>3, <1>4 DEF Stepped

(* The edges of the graph are looked at one after the other.                *)
Unfolds(a, rule, limit, s) ==
  /\ a \in [0..Len(PossibleEdges) -> Search]
  /\ a[0] = [s EXCEPT !.queue = Tail(@)]
  /\ \A k \in 1..Len(PossibleEdges) : a[k] = Stepped(rule, Head(s.queue), a[k - 1], k)
  /\ Expansion(rule, limit, s)
       = a[IF Head(s.queue).depth >= limit THEN 0 ELSE Len(PossibleEdges)]

LEMMA ExpansionUnfolds ==
  ASSUME EdgesKnown, NEW rule, NEW limit \in Nat, NEW s \in Search, s.found = None, s.queue # <<>>
  PROVE  \E a : Unfolds(a, rule, limit, s)
<1> DEFINE N == Len(PossibleEdges)
           item == Head(s.queue)
           start == [s EXCEPT !.queue = Tail(@)]
           Body(f) == [k \in 0..N |-> IF k = 0 THEN start ELSE Stepped(rule, item, f[k - 1], k)]
           A == CHOOSE f : f = Body(f)
           F == [k \in 1..N |-> [t \in Search |-> Stepped(rule, item, t, k)]]
<1>1. Expansion(rule, limit, s) = A[IF item.depth >= limit THEN 0 ELSE N]
  BY DEF Expansion
<1>2. N \in Nat /\ DOMAIN PossibleEdges = 1..N
  BY RatchetAssumption
<1>3. s.queue \in Seq(Item) /\ s = [seen |-> s.seen, found |-> s.found, queue |-> s.queue]
  BY DEF Search
<1>4. item \in Item /\ Tail(s.queue) \in Seq(Item)
  BY <1>3, TailPlaces
<1>5. start \in Search
  BY <1>3, <1>4 DEF Search
<1> HIDE DEF N, item, start
<1>6. \A k \in 1..N : \A t \in Search : Stepped(rule, item, t, k) \in Search
  BY <1>2, <1>4, SteppedTypes
<1>7. F \in [1..N -> [Search -> Search]] /\ \A k \in 1..N : \A t \in Search : F[k][t] = Stepped(rule, item, t, k)
  BY <1>6
<1>8. PICK c : IsIndexedIteration(c, N, Search, start, F)
  <2> HIDE DEF F
  <2> QED
    BY <1>2, <1>5, <1>7, IndexedIterationExists
<1>9. c \in [0..N -> Search] /\ c[0] = start /\ \A k \in 1..N : c[k] = Stepped(rule, item, c[k - 1], k)
  <2> HIDE DEF F
  <2>1. ASSUME NEW k \in 1..N
        PROVE  c[k - 1] \in Search /\ c[k] = F[k][c[k - 1]]
    <3>1. k - 1 \in 0..N
      BY <1>2
    <3> QED
      BY <1>8, <3>1 DEF IsIndexedIteration
  <2> QED
    BY <1>7, <1>8, <2>1 DEF IsIndexedIteration
<1> HIDE DEF F
<1>10. c = Body(c)
  <2>1. \A k \in 0..N : k = 0 \/ k \in 1..N
    BY <1>2
  <2>2. \A k \in 0..N : c[k] = IF k = 0 THEN start ELSE Stepped(rule, item, c[k - 1], k)
    BY <1>2, <1>9, <2>1
  <2> QED
    BY <1>9, <2>2
<1>11. A = Body(A)
  <2> HIDE DEF Body
  <2> QED
    BY <1>10
<1> HIDE DEF A
<1>12. A[0] = start /\ \A k \in 1..N : A[k] = Stepped(rule, item, A[k - 1], k)
  <2>1. \A k \in 0..N : A[k] = Body(A)[k]
    <3> HIDE DEF Body
    <3> QED
      BY <1>11
  <2>2. 0 \in 0..N /\ \A k \in 1..N : k \in 0..N /\ k # 0
    BY <1>2
  <2> QED
    BY <2>1, <2>2
<1>13. A \in [0..N -> Search]
  <2> DEFINE T == {k \in 0..N : A[k] \in Search}
  <2>1. 0 \in T
    BY <1>2, <1>5, <1>12
  <2>2. ASSUME NEW k \in 0..N, k < N, k \in T
        PROVE  k + 1 \in T
    <3>1. k + 1 \in 1..N /\ k + 1 - 1 = k /\ k + 1 \in 0..N
      BY <1>2, <2>2
    <3> QED
      BY <1>6, <1>12, <2>2, <3>1
  <2>3. \A k \in 0..N : k \in T
    <3> HIDE DEF T
    <3> QED
      BY <1>2, <2>1, <2>2, BoundedInduction
  <2>4. A = [k \in 0..N |-> A[k]]
    <3>1. Body(A) = [k \in 0..N |-> Body(A)[k]]
      OBVIOUS
    <3> HIDE DEF Body
    <3> QED
      BY <1>11, <3>1
  <2> QED
    BY <2>3, <2>4
<1> QED
  BY <1>1, <1>12, <1>13 DEF N, item, start, Unfolds

LEMMA ExpansionTypes ==
  ASSUME EdgesKnown, NEW rule, NEW limit \in Nat, NEW s \in Search
  PROVE  Expansion(rule, limit, s) \in Search
<1>1. CASE s.found # None \/ s.queue = <<>>
  BY <1>1 DEF Expansion
<1>2. CASE s.found = None /\ s.queue # <<>>
  <2>1. PICK a : Unfolds(a, rule, limit, s)
    BY <1>2, ExpansionUnfolds
  <2>2. Len(PossibleEdges) \in Nat
    BY RatchetAssumption
  <2> QED
    BY <2>1, <2>2 DEF Unfolds
<1> QED
  BY <1>1, <1>2

Waiting(s, n) == \E k \in DOMAIN s.queue : s.queue[k].node = n

(* The search begins at the nodes of the file.                              *)
Begun(file, s) ==
  /\ s \in Search /\ s.seen = FileNodes(file) /\ s.found = None
  /\ \A k \in DOMAIN s.queue : s.queue[k].depth = 0 /\ s.queue[k].node \in FileNodes(file)
  /\ \A n \in FileNodes(file) : Waiting(s, n)
  /\ Len(s.queue) = Cardinality(s.seen)

LEMMA SearchFields ==
  ASSUME NEW s \in Search
  PROVE  /\ s.seen \subseteq Nodes /\ s.found \in Nodes \cup {None} /\ s.queue \in Seq(Item)
         /\ IsFiniteSet(s.seen) /\ Cardinality(s.seen) \in Nat /\ Cardinality(s.seen) <= NodeCount
         /\ \A k \in DOMAIN s.queue : /\ s.queue[k] \in Item
                                      /\ s.queue[k].node \in Nodes /\ s.queue[k].depth \in Nat
         /\ Len(s.queue) \in Nat /\ DOMAIN s.queue = 1..Len(s.queue)
<1>1. s.seen \subseteq Nodes /\ s.found \in Nodes \cup {None} /\ s.queue \in Seq(Item)
  BY DEF Search
<1>2. IsFiniteSet(Nodes) /\ Cardinality(Nodes) = NodeCount
  <2>1. NodeCount \in Nat /\ 1 \in Int /\ NodeCount \in Int /\ NodeCount - 1 + 1 = NodeCount
    BY RatchetAssumption
  <2>2. IsFiniteSet(1..NodeCount)
    BY <2>1, FS_Interval
  <2>3. Cardinality(1..NodeCount) = NodeCount
    <3>1. Cardinality(1..NodeCount) = IF 1 > NodeCount THEN 0 ELSE NodeCount - 1 + 1
      BY <2>1, FS_Interval
    <3> QED
      BY <2>1, <3>1
  <2> QED
    BY <2>2, <2>3 DEF Nodes
<1>3. IsFiniteSet(s.seen) /\ Cardinality(s.seen) <= NodeCount
  BY <1>1, <1>2, FS_Subset
<1>4. Cardinality(s.seen) \in Nat
  BY <1>3, FS_CardinalityType
<1>5. ASSUME NEW k \in DOMAIN s.queue
      PROVE  s.queue[k] \in Item /\ s.queue[k].node \in Nodes /\ s.queue[k].depth \in Nat
  <2>1. ASSUME NEW S, NEW q \in Seq(S), NEW j \in DOMAIN q
        PROVE  q[j] \in S
    OBVIOUS
  <2>2. s.queue[k] \in Item
    BY <1>1, <2>1
  <2> QED
    BY <2>2 DEF Item
<1>6. Len(s.queue) \in Nat /\ DOMAIN s.queue = 1..Len(s.queue)
  BY <1>1
<1> QED
  BY <1>1, <1>3, <1>4, <1>5, <1>6

(* A node that is met waits, the others go on waiting.                      *)
LEMMA MetPlaces ==
  ASSUME NEW s \in Search, NEW n \in Nodes, NEW d \in Nat
  PROVE  /\ \A k \in DOMAIN s.queue : /\ k \in DOMAIN Met(s, n, d).queue
                                      /\ Met(s, n, d).queue[k] = s.queue[k]
         /\ \A k \in DOMAIN Met(s, n, d).queue :
              \/ k \in DOMAIN s.queue /\ Met(s, n, d).queue[k] = s.queue[k]
              \/ k = Len(s.queue) + 1 /\ Met(s, n, d).queue[k].node = n
                                      /\ Met(s, n, d).queue[k].depth = d
         /\ Waiting(Met(s, n, d), n)
         /\ \A m : Waiting(s, m) => Waiting(Met(s, n, d), m)
         /\ Len(Met(s, n, d).queue) = Len(s.queue) + 1
<1> DEFINE item == [node |-> n, depth |-> d]
           q == s.queue
           r == Append(q, item)
<1>1. Met(s, n, d).queue = r
  BY MetTells
<1>2. item \in Item /\ item.node = n /\ item.depth = d
  BY DEF Item
<1>3. q \in Seq(Item)
  BY SearchFields
<1> HIDE DEF item, q
<1>4. /\ DOMAIN q \subseteq DOMAIN r
      /\ Len(q) + 1 \in DOMAIN r /\ r[Len(q) + 1] = item
      /\ \A k \in DOMAIN r : k \in DOMAIN q \/ k = Len(q) + 1
      /\ \A k \in DOMAIN q : r[k] = q[k]
      /\ Len(r) = Len(q) + 1
  BY <1>2, <1>3
<1> HIDE DEF r
<1>5. \E k \in DOMAIN r : r[k].node = n
  BY <1>2, <1>4
<1>6. ASSUME NEW m, \E k \in DOMAIN q : q[k].node = m
      PROVE  \E k \in DOMAIN r : r[k].node = m
  BY <1>4, <1>6
<1> QED
  BY <1>1, <1>2, <1>4, <1>5, <1>6 DEF Waiting, q

LEMMA SeededTells ==
  ASSUME NEW file
  PROVE  Begun(file, Seeded(file))
<1>1. PICK a : /\ a[0] = Unmet
               /\ \A k \in 1..NodeCount : a[k] = SeedStep(file, k, a[k - 1])
               /\ Seeded(file) = a[NodeCount]
  BY SeededUnfolds
<1>2. NodeCount \in Nat
  BY RatchetAssumption
<1> DEFINE Up(k) == {n \in FileNodes(file) : n <= k}
           Good(s, k) ==
             /\ s \in Search /\ s.seen = Up(k) /\ s.found = None
             /\ \A j \in DOMAIN s.queue : s.queue[j].depth = 0 /\ s.queue[j].node \in FileNodes(file)
             /\ \A n \in Up(k) : Waiting(s, n)
             /\ Len(s.queue) = Cardinality(s.seen)
           T == {k \in 0..NodeCount : Good(a[k], k)}
<1>3. FileNodes(file) \subseteq Nodes /\ FileNodes(file) \subseteq DOMAIN FileAtNode
  BY RatchetAssumption DEF FileNodes
<1>4. 0 \in T
  <2>1. Up(0) = {}
    BY <1>2, <1>3 DEF Nodes
  <2>2. Unmet \in Search /\ Unmet.seen = {} /\ Unmet.found = None /\ Unmet.queue = <<>>
    BY DEF Unmet, Search
  <2>3. Cardinality({}) = 0 /\ Len(<<>>) = 0
    BY FS_EmptySet
  <2> HIDE DEF Up
  <2>4. DOMAIN Unmet.queue = {}
    BY <2>2
  <2>5. Good(Unmet, 0)
    BY <2>1, <2>2, <2>3, <2>4
  <2> QED
    BY <1>1, <1>2, <2>5
<1>5. ASSUME NEW k \in 0..NodeCount, k < NodeCount, k \in T
      PROVE  k + 1 \in T
  <2>1. k + 1 \in 1..NodeCount /\ k + 1 - 1 = k /\ k + 1 \in 0..NodeCount /\ k + 1 \in Nodes
    BY <1>2, <1>5 DEF Nodes
  <2>2. a[k + 1] = SeedStep(file, k + 1, a[k]) /\ Good(a[k], k)
    BY <1>1, <1>5, <2>1
  <2>3. CASE k + 1 \in FileNodes(file)
    <3> DEFINE s == a[k]
               t == Met(s, k + 1, 0)
    <3>1. a[k + 1] = t
      BY <2>2, <2>3 DEF SeedStep, FileNodes
    <3>2. Up(k + 1) = Up(k) \cup {k + 1} /\ k + 1 \notin Up(k)
      BY <1>3, <2>1, <2>3 DEF Nodes
    <3> HIDE DEF s
    <3>3. s \in Search /\ Good(s, k)
      BY <2>2 DEF s
    <3>0. t \in Search /\ t.seen = s.seen \cup {k + 1} /\ t.found = s.found
      BY <2>1, <3>3, MetTells
    <3>4. t \in Search /\ t.seen = Up(k + 1) /\ t.found = None
      BY <3>0, <3>2, <3>3
    <3>5. /\ \A j \in DOMAIN t.queue :
               \/ j \in DOMAIN s.queue /\ t.queue[j] = s.queue[j]
               \/ t.queue[j].node = k + 1 /\ t.queue[j].depth = 0
          /\ Waiting(t, k + 1) /\ \A m : Waiting(s, m) => Waiting(t, m)
          /\ Len(t.queue) = Len(s.queue) + 1
      BY <2>1, <3>3, MetPlaces
    <3>6. Cardinality(t.seen) = Cardinality(s.seen) + 1
      <4>1. IsFiniteSet(s.seen) /\ k + 1 \notin s.seen
        BY <3>2, <3>3, SearchFields
      <4>2. Cardinality(s.seen \cup {k + 1}) = Cardinality(s.seen) + 1
        BY <4>1, FS_AddElement
      <4> QED
        BY <3>0, <4>2
    <3> HIDE DEF t, Up
    <3>7. \A j \in DOMAIN t.queue : t.queue[j].depth = 0 /\ t.queue[j].node \in FileNodes(file)
      BY <2>3, <3>3, <3>5
    <3>8. \A n \in Up(k + 1) : Waiting(t, n)
      BY <3>2, <3>3, <3>5
    <3> QED
      BY <2>1, <3>1, <3>3, <3>4, <3>5, <3>6, <3>7, <3>8
  <2>4. CASE k + 1 \notin FileNodes(file)
    <3>1. a[k + 1] = a[k]
      BY <2>2, <2>4 DEF SeedStep, FileNodes
    <3>2. Up(k + 1) = Up(k)
      BY <1>3, <2>1, <2>4 DEF Nodes
    <3> HIDE DEF Up
    <3> QED
      BY <2>1, <2>2, <3>1, <3>2
  <2> QED
    BY <2>3, <2>4
<1>6. NodeCount \in T
  <2>1. \A k \in 0..NodeCount : k \in T
    <3> HIDE DEF T
    <3> QED
      BY <1>2, <1>4, <1>5, BoundedInduction
  <2> QED
    BY <1>2, <2>1
<1>7. Up(NodeCount) = FileNodes(file)
  BY <1>2, <1>3 DEF Nodes
<1> HIDE DEF Up
<1> QED
  BY <1>1, <1>6, <1>7 DEF Begun

IsSearch(a, rule, file, limit) ==
  /\ a \in [0..NodeCount -> Search]
  /\ a[0] = Seeded(file)
  /\ \A k \in 1..NodeCount : a[k] = Expansion(rule, limit, a[k - 1])
  /\ ShortestPath(rule, file, limit) = a[NodeCount].found

LEMMA SearchUnfolds ==
  ASSUME EdgesKnown, NEW rule, NEW file, NEW limit \in Nat
  PROVE  \E a : IsSearch(a, rule, file, limit)
<1> DEFINE N == NodeCount
           start == Seeded(file)
           Body(f) == [k \in 0..N |-> IF k = 0 THEN start ELSE Expansion(rule, limit, f[k - 1])]
           A == CHOOSE f : f = Body(f)
           F == [s \in Search |-> Expansion(rule, limit, s)]
<1>1. ShortestPath(rule, file, limit) = A[N].found
  BY DEF ShortestPath
<1>2. N \in Nat
  BY RatchetAssumption
<1>3. start \in Search
  BY SeededTells DEF Begun
<1> HIDE DEF N, start
<1>4. F \in [Search -> Search] /\ \A s \in Search : F[s] = Expansion(rule, limit, s)
  BY ExpansionTypes
<1>5. PICK c : IsIteration(c, N, Search, start, F)
  <2> HIDE DEF F
  <2> QED
    BY <1>2, <1>3, <1>4, IterationExists
<1>6. c \in [0..N -> Search] /\ c[0] = start /\ \A k \in 1..N : c[k] = Expansion(rule, limit, c[k - 1])
  <2> HIDE DEF F
  <2>1. ASSUME NEW k \in 1..N
        PROVE  c[k - 1] \in Search /\ c[k] = F[c[k - 1]]
    <3>1. k - 1 \in 0..N
      BY <1>2
    <3> QED
      BY <1>5, <3>1 DEF IsIteration
  <2> QED
    BY <1>4, <1>5, <2>1 DEF IsIteration
<1> HIDE DEF F
<1>7. c = Body(c)
  <2>1. \A k \in 0..N : k = 0 \/ k \in 1..N
    BY <1>2
  <2>2. \A k \in 0..N : c[k] = IF k = 0 THEN start ELSE Expansion(rule, limit, c[k - 1])
    BY <1>2, <1>6, <2>1
  <2> QED
    BY <1>6, <2>2
<1>8. A = Body(A)
  <2> HIDE DEF Body
  <2> QED
    BY <1>7
<1> HIDE DEF A
<1>9. A[0] = start /\ \A k \in 1..N : A[k] = Expansion(rule, limit, A[k - 1])
  <2>1. \A k \in 0..N : A[k] = Body(A)[k]
    <3> HIDE DEF Body
    <3> QED
      BY <1>8
  <2>2. 0 \in 0..N /\ \A k \in 1..N : k \in 0..N /\ k # 0
    BY <1>2
  <2> QED
    BY <2>1, <2>2
<1>10. A \in [0..N -> Search]
  <2> DEFINE T == {k \in 0..N : A[k] \in Search}
  <2>1. 0 \in T
    BY <1>2, <1>3, <1>9
  <2>2. ASSUME NEW k \in 0..N, k < N, k \in T
        PROVE  k + 1 \in T
    <3>1. k + 1 \in 1..N /\ k + 1 - 1 = k /\ k + 1 \in 0..N
      BY <1>2, <2>2
    <3>2. A[k + 1] = Expansion(rule, limit, A[k]) /\ A[k] \in Search
      BY <1>9, <2>2, <3>1
    <3>3. A[k + 1] \in Search
      BY <3>2, ExpansionTypes
    <3> QED
      BY <3>1, <3>3
  <2>3. \A k \in 0..N : k \in T
    <3> HIDE DEF T
    <3> QED
      BY <1>2, <2>1, <2>2, BoundedInduction
  <2>4. A = [k \in 0..N |-> A[k]]
    <3>1. Body(A) = [k \in 0..N |-> Body(A)[k]]
      OBVIOUS
    <3> HIDE DEF Body
    <3> QED
      BY <1>8, <3>1
  <2> QED
    BY <2>3, <2>4
<1> QED
  BY <1>1, <1>9, <1>10 DEF N, start, IsSearch

-----------------------------------------------------------------------------
(* The search goes outwards layer by layer, and stops at the first target.  *)

(* What has been met is no target but the nodes of the file, and what is    *)
(* found is one that is not nearer.                                         *)
Sound(rule, file, limit, s) ==
  /\ FileNodes(file) \subseteq s.seen
  /\ \A k \in DOMAIN s.queue : /\ s.queue[k].depth <= limit
                               /\ s.queue[k].node \in Needed(rule, file, s.queue[k].depth)
  /\ s.found = None => \A n \in s.seen \ FileNodes(file) : ~IsTarget(rule, n)
  /\ s.found # None => \E hops \in 1..limit : /\ Others(rule, file, hops - 1) = {}
                                              /\ s.found \in Others(rule, file, hops)

AllIsMet(rule, file, limit, s) == Needed(rule, file, limit) \subseteq s.seen

(* All within a distance was met; what waits is as far away or one step     *)
(* farther; what neither waits nor is expanded leads to nothing new.        *)
Layer(rule, file, s, at, c) ==
  /\ Needed(rule, file, c) \subseteq s.seen
  /\ \A j, k \in DOMAIN s.queue : j < k => s.queue[j].depth <= s.queue[k].depth
  /\ \A k \in DOMAIN s.queue :
       /\ c <= s.queue[k].depth /\ s.queue[k].depth <= c + 1
       /\ s.queue[k].depth # 0 => s.queue[k].node \notin Needed(rule, file, s.queue[k].depth - 1)
  /\ \A n \in s.seen : Waiting(s, n) \/ n \in at \/ OneStep(rule, {n}) \subseteq s.seen

Between(rule, file, limit, s) ==
  /\ s \in Search /\ Sound(rule, file, limit, s)
  /\ s.found = None =>
       \/ AllIsMet(rule, file, limit, s)
       \/ s.queue # <<>> /\ Layer(rule, file, s, {}, Head(s.queue).depth)

(* While an item is expanded and the first edges have been looked at.       *)
Following(rule, file, limit, item, s, done) ==
  /\ s \in Search /\ Sound(rule, file, limit, s)
  /\ s.found = None =>
       \/ AllIsMet(rule, file, limit, s)
       \/ /\ Layer(rule, file, s, {item.node}, item.depth)
          /\ \A j \in edges : j <= done /\ PossibleEdges[j].from = item.node /\ Selects(rule, j)
                              => PossibleEdges[j].to \in s.seen

(* A target is a node of a file in a component.                             *)
LEMMA TargetsHaveFiles ==
  ASSUME NEW rule \in Rule, NEW n, IsTarget(rule, n)
  PROVE  n \in DOMAIN FileAtNode
<1>1. None \notin rule.to
  BY RatchetAssumption DEF Rule
<1> QED
  BY <1>1 DEF IsTarget, Component

LEMMA OthersAreTargets ==
  ASSUME NEW rule, NEW file, NEW h
  PROVE  \A n : n \in Others(rule, file, h) <=>
                  /\ n \in Needed(rule, file, h) /\ n \in DOMAIN FileAtNode
                  /\ IsTarget(rule, n) /\ n \notin FileNodes(file)
BY DEF Others, FileNodes

(* An edge leads from a node within a distance to one a step farther.       *)
LEMMA EdgeLeads ==
  ASSUME EdgesKnown, NEW rule, NEW file, NEW d \in Nat, NEW j \in edges,
         PossibleEdges[j].from \in Needed(rule, file, d), Selects(rule, j)
  PROVE  PossibleEdges[j].to \in Needed(rule, file, d + 1)
<1>1. PossibleEdges[j].to \in OneStep(rule, Needed(rule, file, d))
  BY DEF OneStep
<1> QED
  BY <1>1, NeededNext

LEMMA StepsAdd ==
  ASSUME NEW rule, NEW nodes, NEW B, \A n \in nodes : OneStep(rule, {n}) \subseteq B
  PROVE  OneStep(rule, nodes) \subseteq B
BY DEF OneStep

LEMMA SteppedTells ==
  ASSUME EdgesKnown, NEW rule, NEW item \in Item, NEW s \in Search, NEW k \in DOMAIN PossibleEdges
  PROVE  \/ /\ Stepped(rule, item, s, k) = s
            /\ s.found # None \/ (k \in edges /\ PossibleEdges[k].from = item.node /\ Selects(rule, k)
                                   => PossibleEdges[k].to \in s.seen)
         \/ /\ k \in edges /\ PossibleEdges[k].from = item.node /\ Selects(rule, k)
            /\ s.found = None /\ PossibleEdges[k].to \notin s.seen
            /\ LET node == PossibleEdges[k].to
                   next == Met(s, node, item.depth + 1)
                   t == Stepped(rule, item, s, k)
               IN  /\ t \in Search /\ t.seen = s.seen \cup {node} /\ t.queue = next.queue
                   /\ t.found = IF IsTarget(rule, node) THEN node ELSE None
<1> DEFINE node == PossibleEdges[k].to
           next == Met(s, node, item.depth + 1)
           t == Stepped(rule, item, s, k)
           Skips == \/ k \notin edges \/ PossibleEdges[k].from # item.node
                    \/ s.found # None \/ ~Selects(rule, k) \/ node \in s.seen
<1>1. CASE Skips
  BY <1>1 DEF Stepped
<1>2. CASE ~Skips
  <2>1. t = [next EXCEPT !.found = IF IsTarget(rule, node) THEN node ELSE None]
    BY <1>2 DEF Stepped
  <2>2. next \in Search /\ next.seen = s.seen \cup {node}
    <3>1. node \in Nodes /\ item.depth + 1 \in Nat
      BY EdgeEnds DEF Item
    <3> QED
      BY <3>1, MetTells
  <2>3. t \in Search
    BY SteppedTypes
  <2>4. t.seen = next.seen /\ t.queue = next.queue
        /\ t.found = IF IsTarget(rule, node) THEN node ELSE None
    BY <2>1, <2>2 DEF Search
  <2> QED
    BY <1>2, <2>2, <2>3, <2>4
<1> QED
  BY <1>1, <1>2

LEMMA FollowingStep ==
  ASSUME EdgesKnown, NEW rule \in Rule, NEW file, NEW limit \in Nat,
         NEW item \in Item, item.depth < limit, item.node \in Needed(rule, file, item.depth),
         NEW k \in DOMAIN PossibleEdges, NEW s \in Search,
         Following(rule, file, limit, item, s, k - 1)
  PROVE  Following(rule, file, limit, item, Stepped(rule, item, s, k), k)
<1> DEFINE node == PossibleEdges[k].to
           c == item.depth
           next == Met(s, node, c + 1)
           t == Stepped(rule, item, s, k)
           D(d) == Needed(rule, file, d)
<1>1. c \in Nat /\ c + 1 \in Nat /\ c + 1 \in 1..limit /\ c + 1 - 1 = c /\ node \in Nodes
  BY EdgeEnds DEF Item
<1>2. k \in Int /\ \A j \in edges : j \in Int /\ (j <= k => j <= k - 1 \/ j = k)
  BY RatchetAssumption DEF EdgesKnown
<1>3. Sound(rule, file, limit, s)
  BY DEF Following
<1>4. CASE /\ t = s
           /\ s.found # None \/ (k \in edges /\ PossibleEdges[k].from = item.node /\ Selects(rule, k)
                                   => node \in s.seen)
  <2> HIDE DEF t
  <2>1. Following(rule, file, limit, item, t, k)
    BY <1>2, <1>4 DEF Following
  <2> QED
    BY <2>1 DEF t
<1>5. CASE /\ k \in edges /\ PossibleEdges[k].from = item.node /\ Selects(rule, k)
           /\ s.found = None /\ node \notin s.seen
           /\ t \in Search /\ t.seen = s.seen \cup {node} /\ t.queue = next.queue
           /\ t.found = IF IsTarget(rule, node) THEN node ELSE None
  <2>1. node \in D(c + 1)
    BY <1>1, <1>5, EdgeLeads
  <2>2. c + 1 <= limit /\ D(c + 1) \subseteq D(limit)
    BY <1>1, NeededIsMore
  <2>3. /\ \A j \in DOMAIN s.queue : j \in DOMAIN t.queue /\ t.queue[j] = s.queue[j]
        /\ \A j \in DOMAIN t.queue :
             \/ j \in DOMAIN s.queue /\ t.queue[j] = s.queue[j]
             \/ j = Len(s.queue) + 1 /\ t.queue[j].node = node /\ t.queue[j].depth = c + 1
        /\ Waiting(t, node) /\ \A m : Waiting(s, m) => Waiting(t, m)
    <3> HIDE DEF t, next, node
    <3>1. /\ \A j \in DOMAIN s.queue : j \in DOMAIN next.queue /\ next.queue[j] = s.queue[j]
          /\ \A j \in DOMAIN next.queue :
               \/ j \in DOMAIN s.queue /\ next.queue[j] = s.queue[j]
               \/ j = Len(s.queue) + 1 /\ next.queue[j].node = node /\ next.queue[j].depth = c + 1
          /\ Waiting(next, node) /\ \A m : Waiting(s, m) => Waiting(next, m)
      BY <1>1, MetPlaces DEF next
    <3> QED
      BY <1>5, <3>1 DEF Waiting
  <2> HIDE DEF t, next
  <2>4. ~AllIsMet(rule, file, limit, s)
    BY <1>5, <2>1, <2>2 DEF AllIsMet
  <2>5. /\ Layer(rule, file, s, {item.node}, c)
        /\ \A j \in edges : j <= k - 1 /\ PossibleEdges[j].from = item.node /\ Selects(rule, j)
                            => PossibleEdges[j].to \in s.seen
    BY <1>5, <2>4 DEF Following
  <2>6. D(c) \subseteq s.seen /\ node \notin D(c)
    BY <1>5, <2>5 DEF Layer
  <2>7. node \notin FileNodes(file) /\ FileNodes(file) \subseteq s.seen
    BY <1>3, <1>5 DEF Sound
  <2>8. Sound(rule, file, limit, t)
    <3>1. FileNodes(file) \subseteq t.seen
      BY <1>5, <2>7
    <3>2. ASSUME NEW j \in DOMAIN t.queue
          PROVE  t.queue[j].depth <= limit /\ t.queue[j].node \in Needed(rule, file, t.queue[j].depth)
      <4>1. CASE j \in DOMAIN s.queue /\ t.queue[j] = s.queue[j]
        BY <1>3, <4>1 DEF Sound
      <4>2. CASE t.queue[j].node = node /\ t.queue[j].depth = c + 1
        BY <2>1, <2>2, <4>2
      <4> QED
        BY <2>3, <4>1, <4>2
    <3>3. ASSUME t.found = None, NEW n \in t.seen \ FileNodes(file)
          PROVE  ~IsTarget(rule, n)
      <4>1. ~IsTarget(rule, node)
        BY <1>1, <1>5, <3>3, RatchetAssumption
      <4> QED
        BY <1>3, <1>5, <3>3, <4>1 DEF Sound
    <3>4. ASSUME t.found # None
          PROVE  \E hops \in 1..limit : /\ Others(rule, file, hops - 1) = {}
                                        /\ t.found \in Others(rule, file, hops)
      <4>1. IsTarget(rule, node) /\ t.found = node
        BY <1>5, <3>4
      <4>2. node \in DOMAIN FileAtNode
        BY <4>1, TargetsHaveFiles
      <4>3. node \in Others(rule, file, c + 1)
        BY <2>1, <2>7, <4>1, <4>2, OthersAreTargets
      <4>4. Others(rule, file, c) = {}
        <5>1. ASSUME NEW n \in Others(rule, file, c)
              PROVE  FALSE
          <6>1. n \in D(c) /\ IsTarget(rule, n) /\ n \notin FileNodes(file)
            BY OthersAreTargets
          <6> QED
            BY <1>3, <1>5, <2>6, <6>1 DEF Sound
        <5> QED
          BY <5>1
      <4> QED
        BY <1>1, <4>1, <4>3, <4>4
    <3> QED
      BY <3>1, <3>2, <3>3, <3>4 DEF Sound
  <2>9. Layer(rule, file, t, {item.node}, c)
    <3>1. D(c) \subseteq t.seen
      BY <1>5, <2>6
    <3>2. \A j \in DOMAIN s.queue : c <= s.queue[j].depth /\ s.queue[j].depth <= c + 1
      BY <2>5 DEF Layer
    <3>3. ASSUME NEW i \in DOMAIN t.queue, NEW j \in DOMAIN t.queue, i < j
          PROVE  t.queue[i].depth <= t.queue[j].depth
      <4>1. CASE j \in DOMAIN s.queue /\ t.queue[j] = s.queue[j]
        <5>1. i \in DOMAIN s.queue /\ t.queue[i] = s.queue[i]
          BY <2>3, <3>3, <4>1, SearchFields
        <5> QED
          BY <2>5, <3>3, <4>1, <5>1 DEF Layer
      <4>2. CASE j = Len(s.queue) + 1 /\ t.queue[j].depth = c + 1
        <5>1. i \in DOMAIN s.queue /\ t.queue[i] = s.queue[i]
          BY <2>3, <3>3, <4>2
        <5> QED
          BY <3>2, <4>2, <5>1
      <4> QED
        BY <2>3, <4>1, <4>2
    <3>4. ASSUME NEW j \in DOMAIN t.queue
          PROVE  /\ c <= t.queue[j].depth /\ t.queue[j].depth <= c + 1
                 /\ t.queue[j].depth # 0 =>
                      t.queue[j].node \notin Needed(rule, file, t.queue[j].depth - 1)
      <4>1. CASE j \in DOMAIN s.queue /\ t.queue[j] = s.queue[j]
        BY <2>5, <4>1 DEF Layer
      <4>2. CASE t.queue[j].node = node /\ t.queue[j].depth = c + 1
        BY <1>1, <2>6, <4>2
      <4> QED
        BY <2>3, <4>1, <4>2
    <3>5. ASSUME NEW n \in t.seen
          PROVE  Waiting(t, n) \/ n \in {item.node} \/ OneStep(rule, {n}) \subseteq t.seen
      <4>1. CASE n = node
        BY <2>3, <4>1
      <4>2. CASE n \in s.seen
        <5>1. Waiting(s, n) \/ n \in {item.node} \/ OneStep(rule, {n}) \subseteq s.seen
          BY <2>5, <4>2 DEF Layer
        <5> QED
          BY <1>5, <2>3, <5>1
      <4> QED
        BY <1>5, <4>1, <4>2
    <3> QED
      BY <3>1, <3>3, <3>4, <3>5 DEF Layer
  <2>10. \A j \in edges : j <= k /\ PossibleEdges[j].from = item.node /\ Selects(rule, j)
                          => PossibleEdges[j].to \in t.seen
    BY <1>2, <1>5, <2>5
  <2>11. Following(rule, file, limit, item, t, k)
    BY <1>5, <2>8, <2>9, <2>10 DEF Following
  <2> QED
    BY <2>11 DEF t
<1> QED
  BY <1>4, <1>5, SteppedTells

(* What the first item of the queue leaves behind.                          *)
LEMMA TakenTells ==
  ASSUME NEW s \in Search, s.queue # <<>>
  PROVE  LET t == [s EXCEPT !.queue = Tail(@)]
             item == Head(s.queue)
         IN  /\ t \in Search /\ t.seen = s.seen /\ t.found = s.found /\ t.queue = Tail(s.queue)
             /\ item \in Item /\ 1 \in DOMAIN s.queue /\ item = s.queue[1]
             /\ \A k \in DOMAIN t.queue : k + 1 \in DOMAIN s.queue /\ t.queue[k] = s.queue[k + 1]
             /\ \A n : Waiting(s, n) => n = item.node \/ Waiting(t, n)
             /\ Len(t.queue) = Len(s.queue) - 1
<1> DEFINE t == [s EXCEPT !.queue = Tail(@)]
           item == Head(s.queue)
<1>1. s.queue \in Seq(Item)
  BY SearchFields
<1>2. /\ Tail(s.queue) \in Seq(Item)
      /\ 1 \in DOMAIN s.queue /\ item = s.queue[1] /\ item \in Item
      /\ \A k \in DOMAIN Tail(s.queue) : k + 1 \in DOMAIN s.queue /\ Tail(s.queue)[k] = s.queue[k + 1]
      /\ \A k \in DOMAIN s.queue : k # 1 => k - 1 \in DOMAIN Tail(s.queue) /\ Tail(s.queue)[k - 1] = s.queue[k]
  BY <1>1, TailPlaces
<1>3. Len(Tail(s.queue)) = Len(s.queue) - 1
  BY <1>1
<1>4. t \in Search /\ t.seen = s.seen /\ t.found = s.found /\ t.queue = Tail(s.queue)
  BY <1>2 DEF Search
<1> HIDE DEF t
<1>5. ASSUME NEW n, Waiting(s, n)
      PROVE  n = item.node \/ Waiting(t, n)
  <2>1. PICK k \in DOMAIN s.queue : s.queue[k].node = n
    BY <1>5 DEF Waiting
  <2>2. CASE k = 1
    BY <1>2, <2>1, <2>2
  <2>3. CASE k # 1
    <3>1. k - 1 \in DOMAIN t.queue /\ t.queue[k - 1] = s.queue[k]
      BY <1>2, <1>4, <2>3
    <3> QED
      BY <2>1, <3>1 DEF Waiting
  <2> QED
    BY <2>2, <2>3
<1> QED
  BY <1>2, <1>3, <1>4, <1>5 DEF t

(* An expansion begins where the layers are complete.                       *)
LEMMA FollowingBegins ==
  ASSUME EdgesKnown, NEW rule \in Rule, NEW file, NEW limit \in Nat, NEW s,
         Between(rule, file, limit, s), s.found = None, s.queue # <<>>
  PROVE  LET t == [s EXCEPT !.queue = Tail(@)]
             item == Head(s.queue)
         IN  /\ Following(rule, file, limit, item, t, 0)
             /\ item.depth <= limit /\ item.node \in Needed(rule, file, item.depth)
             /\ item.depth >= limit => AllIsMet(rule, file, limit, t)
<1> DEFINE t == [s EXCEPT !.queue = Tail(@)]
           item == Head(s.queue)
<1>1. s \in Search /\ Sound(rule, file, limit, s)
  BY DEF Between
<1>2. /\ t \in Search /\ t.seen = s.seen /\ t.found = s.found
      /\ item \in Item /\ 1 \in DOMAIN s.queue /\ item = s.queue[1]
      /\ \A k \in DOMAIN t.queue : k + 1 \in DOMAIN s.queue /\ t.queue[k] = s.queue[k + 1]
      /\ \A n : Waiting(s, n) => n = item.node \/ Waiting(t, n)
  BY <1>1, TakenTells
<1> HIDE DEF t, item
<1>3. /\ item.depth \in Nat /\ item.depth <= limit /\ item.node \in Needed(rule, file, item.depth)
  BY <1>1, <1>2 DEF Sound, Item
<1>4. Sound(rule, file, limit, t)
  <2>1. \A k \in DOMAIN t.queue : /\ t.queue[k].depth <= limit
                                  /\ t.queue[k].node \in Needed(rule, file, t.queue[k].depth)
    BY <1>1, <1>2 DEF Sound
  <2> QED
    BY <1>1, <1>2, <2>1 DEF Sound
<1>5. CASE AllIsMet(rule, file, limit, s)
  <2>1. AllIsMet(rule, file, limit, t)
    BY <1>2, <1>5 DEF AllIsMet
  <2>2. Following(rule, file, limit, item, t, 0)
    BY <1>2, <1>4, <2>1 DEF Following
  <2> QED
    BY <1>3, <2>1, <2>2 DEF t, item
<1>6. CASE Layer(rule, file, s, {}, item.depth)
  <2>1. Layer(rule, file, t, {item.node}, item.depth)
    <3>1. Needed(rule, file, item.depth) \subseteq t.seen
      BY <1>2, <1>6 DEF Layer
    <3>2. ASSUME NEW i \in DOMAIN t.queue, NEW j \in DOMAIN t.queue, i < j
          PROVE  t.queue[i].depth <= t.queue[j].depth
      <4>1. /\ i + 1 \in DOMAIN s.queue /\ t.queue[i] = s.queue[i + 1]
            /\ j + 1 \in DOMAIN s.queue /\ t.queue[j] = s.queue[j + 1]
        BY <1>2
      <4>2. i + 1 < j + 1
        BY <1>2, <3>2, SearchFields
      <4> QED
        BY <1>6, <4>1, <4>2 DEF Layer
    <3>3. ASSUME NEW k \in DOMAIN t.queue
          PROVE  /\ item.depth <= t.queue[k].depth /\ t.queue[k].depth <= item.depth + 1
                 /\ t.queue[k].depth # 0 =>
                      t.queue[k].node \notin Needed(rule, file, t.queue[k].depth - 1)
      <4>1. k + 1 \in DOMAIN s.queue /\ t.queue[k] = s.queue[k + 1]
        BY <1>2
      <4> QED
        BY <1>6, <4>1 DEF Layer
    <3>4. \A n \in t.seen : Waiting(t, n) \/ n \in {item.node} \/ OneStep(rule, {n}) \subseteq t.seen
      BY <1>2, <1>6 DEF Layer
    <3> QED
      BY <3>1, <3>2, <3>3, <3>4 DEF Layer
  <2>2. \A j \in edges : ~(j <= 0)
    BY RatchetAssumption DEF EdgesKnown
  <2>3. Following(rule, file, limit, item, t, 0)
    BY <1>2, <1>4, <2>1, <2>2 DEF Following
  <2>4. item.depth >= limit => AllIsMet(rule, file, limit, t)
    <3>1. item.depth >= limit => item.depth = limit
      BY <1>3
    <3> QED
      BY <2>1, <3>1 DEF Layer, AllIsMet
  <2> QED
    BY <1>3, <2>3, <2>4 DEF t, item
<1>7. AllIsMet(rule, file, limit, s) \/ Layer(rule, file, s, {}, item.depth)
  BY DEF Between, item
<1> QED
  BY <1>5, <1>6, <1>7

(* And ends there again.                                                    *)
LEMMA FollowingEnds ==
  ASSUME EdgesKnown, NEW rule \in Rule, NEW file, NEW limit \in Nat,
         NEW item \in Item, item.depth < limit, NEW s,
         Following(rule, file, limit, item, s, Len(PossibleEdges))
  PROVE  Between(rule, file, limit, s)
<1> DEFINE c == item.depth
           D(d) == Needed(rule, file, d)
<1>1. s \in Search /\ Sound(rule, file, limit, s) /\ c \in Nat /\ c + 1 \in Nat
  BY DEF Following, Item
<1>2. CASE s.found # None \/ AllIsMet(rule, file, limit, s)
  BY <1>1, <1>2 DEF Between
<1>3. CASE s.found = None /\ ~AllIsMet(rule, file, limit, s)
  <2>1. /\ Layer(rule, file, s, {item.node}, c)
        /\ \A j \in edges : j <= Len(PossibleEdges) /\ PossibleEdges[j].from = item.node
                            /\ Selects(rule, j) => PossibleEdges[j].to \in s.seen
    BY <1>3 DEF Following
  <2>2. \A j \in edges : j <= Len(PossibleEdges)
    BY RatchetAssumption DEF EdgesKnown
  <2>3. OneStep(rule, {item.node}) \subseteq s.seen
    BY <2>1, <2>2 DEF OneStep
  <2>4. \A n \in s.seen : Waiting(s, n) \/ OneStep(rule, {n}) \subseteq s.seen
    BY <2>1, <2>3 DEF Layer
  <2>5. s.queue # <<>>
    <3> SUFFICES ASSUME s.queue = <<>>
                 PROVE  FALSE
      OBVIOUS
    <3>1. DOMAIN s.queue = {}
      OBVIOUS
    <3>2. \A n \in s.seen : OneStep(rule, {n}) \subseteq s.seen
      BY <2>4, <3>1 DEF Waiting
    <3>3. OneStep(rule, s.seen) \subseteq s.seen
      BY <3>2, StepsAdd
    <3>4. FileNodes(file) \subseteq s.seen
      BY <1>1 DEF Sound
    <3>5. D(limit) \subseteq s.seen
      BY <3>3, <3>4, NeededIsIn
    <3> QED
      BY <1>3, <3>5 DEF AllIsMet
  <2>6. Head(s.queue) = s.queue[1] /\ 1 \in DOMAIN s.queue /\ Head(s.queue).depth \in Nat
    BY <1>1, <2>5, TakenTells, SearchFields
  <2>7. \A k \in DOMAIN s.queue : k \in Nat /\ k >= 1 /\ s.queue[k].depth \in Nat
    BY <1>1, SearchFields
  <2>8. CASE Head(s.queue).depth = c
    <3>1. Layer(rule, file, s, {}, c)
      BY <2>1, <2>4 DEF Layer
    <3> QED
      BY <1>1, <2>5, <2>8, <3>1 DEF Between
  <2>9. CASE Head(s.queue).depth = c + 1
    <3>1. \A k \in DOMAIN s.queue : s.queue[k].depth = c + 1 /\ s.queue[k].node \notin D(c)
      <4>1. ASSUME NEW k \in DOMAIN s.queue
            PROVE  s.queue[k].depth = c + 1
        <5>1. s.queue[1].depth <= s.queue[k].depth
          <6>1. CASE k = 1
            BY <2>7, <6>1
          <6>2. CASE k # 1
            <7>1. 1 < k
              BY <2>7, <6>2
            <7> QED
              BY <2>1, <2>6, <7>1 DEF Layer
          <6> QED
            BY <6>1, <6>2
        <5>2. s.queue[k].depth <= c + 1
          BY <2>1 DEF Layer
        <5> QED
          BY <1>1, <2>6, <2>7, <2>9, <5>1, <5>2
      <4>2. ASSUME NEW k \in DOMAIN s.queue
            PROVE  s.queue[k].node \notin D(c)
        <5>1. s.queue[k].depth = c + 1 /\ c + 1 # 0 /\ c + 1 - 1 = c
          BY <1>1, <4>1
        <5>2. s.queue[k].depth # 0 => s.queue[k].node \notin D(s.queue[k].depth - 1)
          BY <2>1 DEF Layer
        <5>3. s.queue[k].depth # 0 /\ s.queue[k].depth - 1 = c
          BY <1>1, <5>1
        <5> HIDE DEF D
        <5> QED
          BY <5>2, <5>3
      <4> QED
        BY <4>1, <4>2
    <3>2. D(c) \subseteq s.seen
      BY <2>1 DEF Layer
    <3>3. \A n \in D(c) : OneStep(rule, {n}) \subseteq s.seen
      BY <2>4, <3>1, <3>2 DEF Waiting
    <3>4. OneStep(rule, D(c)) \subseteq s.seen
      BY <3>3, StepsAdd
    <3>5. D(c + 1) \subseteq s.seen
      <4>1. D(c + 1) = D(c) \cup OneStep(rule, D(c))
        BY <1>1, NeededNext
      <4> QED
        BY <3>2, <3>4, <4>1
    <3>6. Layer(rule, file, s, {}, c + 1)
      <4>1. \A k \in DOMAIN s.queue : c + 1 <= s.queue[k].depth /\ s.queue[k].depth <= c + 1 + 1
        BY <1>1, <3>1
      <4>2. \A k \in DOMAIN s.queue :
              s.queue[k].depth # 0 => s.queue[k].node \notin Needed(rule, file, s.queue[k].depth - 1)
        BY <2>1 DEF Layer
      <4>3. \A j, k \in DOMAIN s.queue : j < k => s.queue[j].depth <= s.queue[k].depth
        BY <2>1 DEF Layer
      <4> QED
        BY <2>4, <3>5, <4>1, <4>2, <4>3 DEF Layer
    <3> QED
      BY <1>1, <2>5, <2>9, <3>6 DEF Between
  <2>10. c <= Head(s.queue).depth /\ Head(s.queue).depth <= c + 1
    BY <2>1, <2>6 DEF Layer
  <2> QED
    BY <1>1, <2>6, <2>8, <2>9, <2>10
<1> QED
  BY <1>2, <1>3

LEMMA ExpansionKeeps ==
  ASSUME EdgesKnown, NEW rule \in Rule, NEW file, NEW limit \in Nat, NEW s,
         Between(rule, file, limit, s)
  PROVE  Between(rule, file, limit, Expansion(rule, limit, s))
<1>1. s \in Search
  BY DEF Between
<1>2. CASE s.found # None \/ s.queue = <<>>
  BY <1>2 DEF Expansion
<1>3. CASE s.found = None /\ s.queue # <<>>
  <2> DEFINE N == Len(PossibleEdges)
             item == Head(s.queue)
  <2>1. PICK a : Unfolds(a, rule, limit, s)
    BY <1>1, <1>3, ExpansionUnfolds
  <2>2. /\ a \in [0..N -> Search] /\ a[0] = [s EXCEPT !.queue = Tail(@)]
        /\ \A k \in 1..N : a[k] = Stepped(rule, item, a[k - 1], k)
        /\ Expansion(rule, limit, s) = a[IF item.depth >= limit THEN 0 ELSE N]
    BY <2>1 DEF Unfolds
  <2>3. N \in Nat /\ DOMAIN PossibleEdges = 1..N
    BY RatchetAssumption
  <2>4. /\ Following(rule, file, limit, item, a[0], 0)
        /\ item.depth <= limit /\ item.node \in Needed(rule, file, item.depth)
        /\ item.depth >= limit => AllIsMet(rule, file, limit, a[0])
    <3> DEFINE first == [s EXCEPT !.queue = Tail(@)]
    <3>1. /\ Following(rule, file, limit, item, first, 0)
          /\ item.depth <= limit /\ item.node \in Needed(rule, file, item.depth)
          /\ item.depth >= limit => AllIsMet(rule, file, limit, first)
      BY <1>3, FollowingBegins
    <3>2. a[0] = first
      BY <2>2
    <3> HIDE DEF first, item
    <3> QED
      BY <3>1, <3>2
  <2>5. item \in Item /\ item.depth \in Nat
    BY <1>1, <1>3, TakenTells DEF Item
  <2> HIDE DEF N, item
  <2>6. CASE item.depth >= limit
    <3>1. Expansion(rule, limit, s) = a[0]
      BY <2>2, <2>6
    <3> QED
      BY <2>4, <2>6, <3>1 DEF Following, Between
  <2>7. CASE item.depth < limit
    <3>1. Expansion(rule, limit, s) = a[N]
      BY <2>2, <2>5, <2>7
    <3> DEFINE T == {k \in 0..N : Following(rule, file, limit, item, a[k], k)}
    <3>2. 0 \in T
      BY <2>3, <2>4
    <3>3. ASSUME NEW k \in 0..N, k < N, k \in T
          PROVE  k + 1 \in T
      <4>1. k + 1 \in 1..N /\ k + 1 - 1 = k /\ k + 1 \in 0..N /\ k + 1 \in DOMAIN PossibleEdges
        BY <2>3, <3>3
      <4>2. a[k + 1] = Stepped(rule, item, a[k], k + 1) /\ a[k] \in Search
        BY <2>2, <4>1
      <4>3. Following(rule, file, limit, item, a[k], k + 1 - 1)
        BY <3>3, <4>1
      <4>4. Following(rule, file, limit, item, Stepped(rule, item, a[k], k + 1), k + 1)
        BY <2>4, <2>5, <2>7, <4>1, <4>2, <4>3, FollowingStep
      <4> QED
        BY <4>1, <4>2, <4>4
    <3>4. \A k \in 0..N : k \in T
      <4> HIDE DEF T
      <4> QED
        BY <2>3, <3>2, <3>3, BoundedInduction
    <3>5. Following(rule, file, limit, item, a[N], N)
      BY <2>3, <3>4
    <3>6. Between(rule, file, limit, a[N])
      BY <2>5, <2>7, <3>5, FollowingEnds DEF N
    <3> QED
      BY <3>1, <3>6
  <2> QED
    BY <2>3, <2>4, <2>5, <2>6, <2>7
<1> QED
  BY <1>2, <1>3

-----------------------------------------------------------------------------
(* No node waits twice, so that the queue runs dry.                         *)

Counted(s, taken) == taken + Len(s.queue) = Cardinality(s.seen)

LEMMA ExpansionCounts ==
  ASSUME EdgesKnown, NEW rule, NEW limit \in Nat, NEW s \in Search, NEW taken \in Nat,
         Counted(s, taken), s.found = None, s.queue # <<>>
  PROVE  Counted(Expansion(rule, limit, s), taken + 1)
<1> DEFINE N == Len(PossibleEdges)
           item == Head(s.queue)
<1>1. PICK a : Unfolds(a, rule, limit, s)
  BY ExpansionUnfolds
<1>2. /\ a \in [0..N -> Search] /\ a[0] = [s EXCEPT !.queue = Tail(@)]
      /\ \A k \in 1..N : a[k] = Stepped(rule, item, a[k - 1], k)
      /\ Expansion(rule, limit, s) = a[IF item.depth >= limit THEN 0 ELSE N]
  BY <1>1 DEF Unfolds
<1>3. N \in Nat /\ DOMAIN PossibleEdges = 1..N
  BY RatchetAssumption
<1>4. Counted(a[0], taken + 1)
  <2> DEFINE first == [s EXCEPT !.queue = Tail(@)]
  <2>0. first.seen = s.seen /\ Len(first.queue) = Len(s.queue) - 1
    BY TakenTells
  <2>1. a[0].seen = s.seen /\ Len(a[0].queue) = Len(s.queue) - 1
    <3>1. a[0] = first
      BY <1>2
    <3> HIDE DEF first
    <3> QED
      BY <2>0, <3>1
  <2>2. Len(s.queue) \in Nat
    BY SearchFields
  <2>3. taken + Len(s.queue) = Cardinality(s.seen)
    BY DEF Counted
  <2>4. (taken + 1) + Len(a[0].queue) = taken + Len(s.queue)
    <3>1. \A i, j \in Nat : (i + 1) + (j - 1) = i + j
      OBVIOUS
    <3> QED
      BY <2>1, <2>2, <3>1
  <2>5. (taken + 1) + Len(a[0].queue) = Cardinality(a[0].seen)
    BY <2>1, <2>3, <2>4
  <2> QED
    BY <2>5 DEF Counted
<1>5. item \in Item
  BY TakenTells
<1> HIDE DEF N, item
<1> DEFINE T == {k \in 0..N : Counted(a[k], taken + 1)}
<1>6. 0 \in T
  BY <1>3, <1>4
<1>7. ASSUME NEW k \in 0..N, k < N, k \in T
      PROVE  k + 1 \in T
  <2>1. k + 1 \in 1..N /\ k + 1 - 1 = k /\ k + 1 \in 0..N /\ k + 1 \in DOMAIN PossibleEdges
    BY <1>3, <1>7
  <2> DEFINE t == a[k]
             node == PossibleEdges[k + 1].to
             next == Met(t, node, item.depth + 1)
             new == Stepped(rule, item, t, k + 1)
  <2>2. a[k + 1] = new /\ t \in Search /\ Counted(t, taken + 1)
    BY <1>2, <1>7, <2>1
  <2>3. \/ new = t
        \/ node \notin t.seen /\ new.seen = t.seen \cup {node} /\ new.queue = next.queue
    <3> HIDE DEF t
    <3>1. t \in Search
      BY <2>2
    <3> QED
      BY <1>5, <2>1, <3>1, SteppedTells
  <2>4. node \in Nodes /\ item.depth + 1 \in Nat
    BY <1>5, <2>1, EdgeEnds DEF Item
  <2> HIDE DEF t, node
  <2>5. Len(next.queue) = Len(t.queue) + 1 /\ Len(t.queue) \in Nat
    BY <2>2, <2>4, MetPlaces, SearchFields
  <2>6. IsFiniteSet(t.seen) /\ Cardinality(t.seen) \in Nat
    BY <2>2, SearchFields
  <2>7. node \notin t.seen => Cardinality(t.seen \cup {node}) = Cardinality(t.seen) + 1
    BY <2>6, FS_AddElement
  <2> HIDE DEF new, next
  <2>8. ASSUME new = t
        PROVE  Counted(new, taken + 1)
    BY <2>2, <2>8
  <2>9. ASSUME node \notin t.seen, new.seen = t.seen \cup {node}, new.queue = next.queue
        PROVE  Counted(new, taken + 1)
    <3>1. Cardinality(new.seen) = Cardinality(t.seen) + 1 /\ Len(new.queue) = Len(t.queue) + 1
      BY <2>5, <2>7, <2>9
    <3>2. taken + 1 + Len(t.queue) = Cardinality(t.seen)
      BY <2>2 DEF Counted
    <3>3. taken + 1 + Len(new.queue) = Cardinality(new.seen)
      <4>1. \A i, j, c \in Nat : i + 1 + j = c => i + 1 + (j + 1) = c + 1
        OBVIOUS
      <4> DEFINE i == taken
                 j == Len(t.queue)
                 c == Cardinality(t.seen)
      <4>2. i \in Nat /\ j \in Nat /\ c \in Nat /\ i + 1 + j = c
        BY <2>5, <2>6, <3>2
      <4>3. Len(new.queue) = j + 1 /\ Cardinality(new.seen) = c + 1
        BY <3>1
      <4> HIDE DEF i, j, c
      <4>4. i + 1 + (j + 1) = c + 1
        BY <4>1, <4>2
      <4>5. i + 1 + Len(new.queue) = Cardinality(new.seen)
        BY <4>3, <4>4
      <4> QED
        BY <4>5 DEF i
    <3> QED
      BY <3>3 DEF Counted
  <2>10. Counted(new, taken + 1)
    BY <2>3, <2>8, <2>9
  <2> QED
    BY <2>1, <2>2, <2>10
<1>8. \A k \in 0..N : k \in T
  <2> HIDE DEF T
  <2> QED
    BY <1>3, <1>6, <1>7, BoundedInduction
<1>9. (IF item.depth >= limit THEN 0 ELSE N) \in 0..N
  BY <1>3
<1> QED
  BY <1>2, <1>8, <1>9

(* shortest_path() returns a target no other is nearer than, or there is    *)
(* none within the limit.                                                   *)
LEMMA ShortestPathTells ==
  ASSUME EdgesKnown, NEW rule \in Rule, NEW file, NEW limit \in Nat
  PROVE  LET path == ShortestPath(rule, file, limit)
         IN  /\ path = None => Others(rule, file, limit) = {}
             /\ path # None => \E hops \in 1..limit : /\ Others(rule, file, hops - 1) = {}
                                                      /\ path \in Others(rule, file, hops)
<1>1. PICK a : IsSearch(a, rule, file, limit)
  BY SearchUnfolds
<1>2. /\ a \in [0..NodeCount -> Search] /\ a[0] = Seeded(file)
      /\ \A k \in 1..NodeCount : a[k] = Expansion(rule, limit, a[k - 1])
      /\ ShortestPath(rule, file, limit) = a[NodeCount].found
  BY <1>1 DEF IsSearch
<1>3. NodeCount \in Nat
  BY RatchetAssumption
<1>4. Begun(file, a[0])
  BY <1>2, SeededTells
<1> DEFINE Good(s, k) ==
             /\ Between(rule, file, limit, s)
             /\ s.found = None => s.queue = <<>> \/ Counted(s, k)
           T == {k \in 0..NodeCount : Good(a[k], k)}
<1>5. 0 \in T
  <2> DEFINE s == a[0]
  <2>0. Begun(file, s)
    BY <1>4
  <2> HIDE DEF s
  <2>1. /\ s \in Search /\ s.seen = FileNodes(file) /\ s.found = None
        /\ \A k \in DOMAIN s.queue : s.queue[k].depth = 0 /\ s.queue[k].node \in FileNodes(file)
        /\ \A n \in FileNodes(file) : Waiting(s, n)
        /\ Len(s.queue) = Cardinality(s.seen)
    BY <2>0 DEF Begun
  <2>2. Needed(rule, file, 0) = FileNodes(file)
    BY NeededNext
  <2>3. Sound(rule, file, limit, s)
    BY <2>1, <2>2 DEF Sound
  <2>4. Counted(s, 0)
    BY <2>1, SearchFields DEF Counted
  <2>5. CASE s.queue = <<>>
    <3>1. FileNodes(file) = {}
      BY <2>1, <2>5 DEF Waiting
    <3>2. FileNodes(file) \subseteq {} /\ OneStep(rule, {}) \subseteq {}
      BY <3>1 DEF OneStep
    <3>3. Needed(rule, file, limit) \subseteq {}
      BY <3>2, NeededIsIn
    <3> QED
      BY <1>3, <2>1, <2>3, <2>5, <3>3 DEF Between, AllIsMet, s
  <2>6. CASE s.queue # <<>>
    <3>1. Head(s.queue).depth = 0
      BY <2>1, <2>6, TakenTells
    <3>2. Layer(rule, file, s, {}, 0)
      BY <2>1, <2>2 DEF Layer
    <3>3. Between(rule, file, limit, s)
      BY <2>1, <2>3, <2>6, <3>1, <3>2 DEF Between
    <3> QED
      BY <1>3, <2>4, <3>3 DEF s
  <2> QED
    BY <2>5, <2>6
<1>6. ASSUME NEW k \in 0..NodeCount, k < NodeCount, k \in T
      PROVE  k + 1 \in T
  <2>1. k + 1 \in 1..NodeCount /\ k + 1 - 1 = k /\ k + 1 \in 0..NodeCount /\ k \in Nat
    BY <1>3, <1>6
  <2> DEFINE s == a[k]
             t == Expansion(rule, limit, s)
  <2>2. a[k + 1] = t /\ s \in Search /\ Good(s, k)
    BY <1>2, <1>6, <2>1
  <2> HIDE DEF s
  <2>3. Between(rule, file, limit, t)
    BY <2>2, ExpansionKeeps
  <2>4. CASE s.found # None \/ s.queue = <<>>
    <3>1. t = s
      BY <2>4 DEF Expansion
    <3> QED
      BY <2>1, <2>2, <2>3, <2>4, <3>1
  <2>5. CASE s.found = None /\ s.queue # <<>>
    <3>1. Counted(t, k + 1)
      BY <2>1, <2>2, <2>5, ExpansionCounts
    <3> QED
      BY <2>1, <2>2, <2>3, <3>1
  <2> QED
    BY <2>4, <2>5
<1>7. Good(a[NodeCount], NodeCount)
  <2>1. \A k \in 0..NodeCount : k \in T
    <3> HIDE DEF T
    <3> QED
      BY <1>3, <1>5, <1>6, BoundedInduction
  <2> QED
    BY <1>3, <2>1
<1> DEFINE s == a[NodeCount]
<1>8. s \in Search /\ Good(s, NodeCount)
  BY <1>2, <1>3, <1>7
<1>9. ShortestPath(rule, file, limit) = s.found
  BY <1>2
<1> HIDE DEF s
<1>10. Sound(rule, file, limit, s)
  BY <1>8 DEF Between
<1>11. ASSUME s.found = None
       PROVE  Others(rule, file, limit) = {}
  <2>1. s.queue = <<>>
    <3>1. ASSUME Counted(s, NodeCount)
          PROVE  s.queue = <<>>
      <4>1. NodeCount + Len(s.queue) <= NodeCount /\ Len(s.queue) \in Nat /\ s.queue \in Seq(Item)
        BY <1>8, <3>1, SearchFields DEF Counted
      <4>2. Len(s.queue) = 0
        BY <1>3, <4>1
      <4> QED
        BY <4>1, <4>2
    <3> QED
      BY <1>8, <1>11, <3>1
  <2>2. Needed(rule, file, limit) \subseteq s.seen
    BY <1>8, <1>11, <2>1 DEF Between, AllIsMet
  <2>3. ASSUME NEW n \in Others(rule, file, limit)
        PROVE  FALSE
    <3>1. n \in Needed(rule, file, limit) /\ IsTarget(rule, n) /\ n \notin FileNodes(file)
      BY OthersAreTargets
    <3> QED
      BY <1>10, <1>11, <2>2, <3>1 DEF Sound
  <2> QED
    BY <2>3
<1> QED
  BY <1>9, <1>10, <1>11 DEF Sound

-----------------------------------------------------------------------------
(* The findings: one of each fingerprint is kept, under a rule of its id.   *)

LEMMA EdgeFindingsAreKept ==
  ASSUME rules \in Seq(Rule), NEW k \in DOMAIN rules, NEW p, p \in Direct(rules[k])
  PROVE  \E j \in DOMAIN rules : /\ rules[j].id = rules[k].id
                                 /\ [rule |-> rules[j], print |-> p] \in Violations
<1> DEFINE S == {j \in DOMAIN rules : p \in Direct(rules[j])}
<1>1. DOMAIN rules \subseteq Nat /\ k \in S
  OBVIOUS
<1>2. PICK j \in S : \A i \in S : j <= i
  BY <1>1, SmallestOfNumbers
<1>3. ASSUME NEW i \in DOMAIN rules, i < j
      PROVE  p \notin Direct(rules[i])
  BY <1>1, <1>2, <1>3
<1>4. j \in DOMAIN rules /\ p \in Direct(rules[j])
  BY <1>2
<1>5. [rule |-> rules[j], print |-> p] \in Violations
  BY <1>3, <1>4 DEF Violations
<1>6. p[1] = rules[j].id /\ p[1] = rules[k].id
  BY <1>4 DEF Direct
<1> QED
  BY <1>4, <1>5, <1>6

LEMMA FileFindingsAreKept ==
  ASSUME rules \in Seq(Rule), NEW k \in DOMAIN rules, NEW p, p \in Reached(rules[k])
  PROVE  \E j \in DOMAIN rules : /\ rules[j].id = rules[k].id
                                 /\ [rule |-> rules[j], print |-> p] \in Violations
<1> DEFINE S == {j \in DOMAIN rules : p \in Reached(rules[j])}
<1>1. Len(rules) \in Nat /\ DOMAIN rules = 1..Len(rules) /\ k \in S
  OBVIOUS
<1>2. S \subseteq 0..Len(rules) /\ S # {}
  BY <1>1
<1>3. PICK j \in S : \A i \in S : i <= j
  <2> HIDE DEF S
  <2> QED
    BY <1>1, <1>2, LargestOfNumbers
<1>4. ASSUME NEW i \in DOMAIN rules, i > j
      PROVE  p \notin Reached(rules[i])
  BY <1>1, <1>3, <1>4
<1>5. j \in DOMAIN rules /\ p \in Reached(rules[j])
  BY <1>3
<1>6. [rule |-> rules[j], print |-> p] \in Violations
  BY <1>4, <1>5 DEF Violations
<1>7. \A i \in DOMAIN rules : p \in Reached(rules[i]) => p[1] = rules[i].id
  BY DEF Reached, Required, Forbidden
<1> QED
  BY <1>5, <1>6, <1>7

(* What a rule that blocks finds, and nobody has accepted, blocks.          *)
LEMMA FindingsBlock ==
  ASSUME rules \in Seq(Rule), NEW k \in Blocking, NEW p,
         p \in Direct(rules[k]) \cup Reached(rules[k]), p \notin Accepted
  PROVE  Judged.state = "BLOCKED"
<1>1. k \in DOMAIN rules
  BY DEF Blocking
<1>2. PICK j \in DOMAIN rules : /\ rules[j].id = rules[k].id
                                /\ [rule |-> rules[j], print |-> p] \in Violations
  BY <1>1, EdgeFindingsAreKept, FileFindingsAreKept
<1> DEFINE v == [rule |-> rules[j], print |-> p]
           new == {w \in {u \in {x \in Violations : x.print \notin exceptions} :
                            u.print \notin baseline} : w.rule.severity # "warn"}
<1>3. rules[j].severity = "error"
  BY <1>2 DEF Blocking
<1>4. v \in Violations /\ v.print = p /\ v.rule.severity # "warn"
  BY <1>2, <1>3
<1>5. v \in new
  <2> HIDE DEF v
  <2> QED
    BY <1>4 DEF Accepted
<1>6. Judged.state = IF new = {} THEN "PASS" ELSE "BLOCKED"
  BY DEF Judged
<1> QED
  BY <1>5, <1>6

-----------------------------------------------------------------------------
(* The report is that of the code as it is.                                 *)

RatchetInv == rules \in Contracts /\ EdgesKnown /\ (Verified => report = Judged)

LEMMA InvInit == RatchetInit => RatchetInv
BY RatchetAssumption DEF RatchetInit, RatchetInv, EdgesKnown, Verified

LEMMA InvNext == RatchetInv /\ [RatchetNext]_ratchetVars => RatchetInv'
<1> SUFFICES ASSUME RatchetInv, [RatchetNext]_ratchetVars
             PROVE  RatchetInv'
  OBVIOUS
<1> USE DEF RatchetInv, Verified, EdgesKnown
<1>1. ASSUME UNCHANGED <<rules, edges, baseline, exceptions>>
      PROVE  Judged' = Judged
  <2>1. edges' = edges /\ rules' = rules
    BY <1>1
  <2>2. Violations' = Violations
    BY <2>1 DEF Violations, Direct, Reached, Required, Forbidden, Sources, Hops, ShortestPath,
       Expansion, Stepped, Seeded, Met, IsTarget, Selects, Governs, BetweenFiles, Component
  <2> QED
    BY <1>1, <2>2 DEF Judged, Prints
<1>2. CASE Verify
  BY <1>1, <1>2 DEF Verify
<1>3. CASE Edit
  BY <1>3 DEF Edit
<1>4. CASE Ratchet
  BY <1>4 DEF Ratchet
<1>5. CASE Except
  BY <1>5 DEF Except
<1>6. CASE UNCHANGED ratchetVars
  BY <1>1, <1>6 DEF ratchetVars
<1> QED
  BY <1>2, <1>3, <1>4, <1>5, <1>6 DEF RatchetNext

-----------------------------------------------------------------------------
(* What the report means.                                                   *)

LEMMA RulesAreRules ==
  ASSUME rules \in Contracts
  PROVE  rules \in Seq(Rule) /\ \A k \in DOMAIN rules : rules[k] \in Rule
<1>1. ASSUME NEW S, NEW q \in Seq(S), NEW k \in DOMAIN q
      PROVE  q[k] \in S
  OBVIOUS
<1>2. rules \in Seq(Rule)
  BY RatchetAssumption
<1> QED
  BY <1>1, <1>2

(* A path is found if and only if there is something to find, and the       *)
(* nearest of that is found.                                                *)
LEMMA PathTells ==
  ASSUME EdgesKnown, NEW rule \in Rule, NEW file
  PROVE  LET path == ShortestPath(rule, file, Hops(rule))
         IN  /\ path = None <=> Others(rule, file, Hops(rule)) = {}
             /\ path # None => \E hops \in 1..Hops(rule) : /\ Others(rule, file, hops - 1) = {}
                                                           /\ path \in Others(rule, file, hops)
<1> DEFINE limit == Hops(rule)
           path == ShortestPath(rule, file, limit)
<1>1. limit \in Nat
  BY RatchetAssumption DEF Hops
<1> HIDE DEF limit
<1>2. /\ path = None => Others(rule, file, limit) = {}
      /\ path # None => \E hops \in 1..limit : /\ Others(rule, file, hops - 1) = {}
                                               /\ path \in Others(rule, file, hops)
  BY <1>1, ShortestPathTells
<1>3. ASSUME NEW hops \in 1..limit
      PROVE  Others(rule, file, hops) \subseteq Others(rule, file, limit)
  <2>1. hops \in Nat /\ hops <= limit
    BY <1>1
  <2>2. Needed(rule, file, hops) \subseteq Needed(rule, file, limit)
    BY <1>1, <2>1, NeededIsMore
  <2> QED
    BY <2>2 DEF Others
<1> HIDE DEF path
<1>4. path # None => Others(rule, file, limit) # {}
  BY <1>2, <1>3
<1>5. /\ path = None <=> Others(rule, file, limit) = {}
      /\ path # None => \E hops \in 1..limit : /\ Others(rule, file, hops - 1) = {}
                                               /\ path \in Others(rule, file, hops)
  BY <1>2, <1>4
<1> QED
  BY <1>5 DEF path, limit

(* PASS means that the rules hold.                                          *)
LEMMA PassIsEarned == RatchetInv => PassMeansRulesHold
<1> SUFFICES ASSUME RatchetInv, Verified, Accepted = {}, report.state = "PASS",
                    NEW k \in Blocking
             PROVE  LET rule == rules[k]
                    IN  /\ rule.action = "require" =>
                             \A file \in Sources(rule) :
                               Others(rule, file, IF rule.reach = "direct" THEN 1 ELSE NodeCount) # {}
                        /\ rule.action = "forbid" /\ rule.reach = "transitive" =>
                             \A file \in Sources(rule) : Others(rule, file, NodeCount) = {}
                        /\ rule.reach = "direct" =>
                             \A e \in edges : BetweenFiles(e) => ~(Selects(rule, e) /\ Governs(rule, e))
  BY DEF PassMeansRulesHold
<1> DEFINE rule == rules[k]
<1>1. rules \in Seq(Rule) /\ rule \in Rule /\ EdgesKnown /\ Judged.state # "BLOCKED"
  BY RulesAreRules DEF RatchetInv, Blocking
<1>2. \A p : p \notin Direct(rule) /\ p \notin Reached(rule)
  BY <1>1, FindingsBlock
<1> HIDE DEF rule
<1>3. ASSUME rule.action = "require", NEW file \in Sources(rule)
      PROVE  Others(rule, file, IF rule.reach = "direct" THEN 1 ELSE NodeCount) # {}
  <2>1. ShortestPath(rule, file, Hops(rule)) # None
    <3>1. <<rule.id, "required", file>> \notin Required(rule)
      BY <1>2 DEF Reached
    <3> QED
      BY <1>3, <3>1 DEF Required
  <2>2. Others(rule, file, Hops(rule)) # {}
    BY <1>1, <2>1, PathTells
  <2> QED
    BY <1>3, <2>2 DEF Hops
<1>4. ASSUME rule.action = "forbid", rule.reach = "transitive", NEW file \in Sources(rule)
      PROVE  Others(rule, file, NodeCount) = {}
  <2> DEFINE print == <<rule.id, "transitive_forbid", file,
                        FileAtNode[ShortestPath(rule, file, Hops(rule))]>>
  <2>1. ShortestPath(rule, file, Hops(rule)) = None
    <3>1. print \notin Forbidden(rule)
      BY <1>2 DEF Reached
    <3> QED
      BY <1>4, <3>1 DEF Forbidden
  <2>2. Others(rule, file, Hops(rule)) = {}
    BY <1>1, <2>1, PathTells
  <2> QED
    BY <1>4, <2>2 DEF Hops
<1>5. ASSUME rule.reach = "direct", NEW e \in edges, BetweenFiles(e),
             Selects(rule, e), Governs(rule, e)
      PROVE  FALSE
  <2> DEFINE print == <<rule.id, "edge", PossibleEdges[e].from, PossibleEdges[e].to,
                        PossibleEdges[e].kind>>
  <2>1. print \in Direct(rule)
    BY <1>5 DEF Direct
  <2> QED
    BY <1>2, <2>1
<1>6. /\ rule.action = "require" =>
            \A file \in Sources(rule) :
              Others(rule, file, IF rule.reach = "direct" THEN 1 ELSE NodeCount) # {}
      /\ rule.action = "forbid" /\ rule.reach = "transitive" =>
            \A file \in Sources(rule) : Others(rule, file, NodeCount) = {}
      /\ rule.reach = "direct" =>
            \A e \in edges : BetweenFiles(e) => ~(Selects(rule, e) /\ Governs(rule, e))
  BY <1>3, <1>4, <1>5
<1> QED
  BY <1>6 DEF rule

(* What is reported of a transitive rule is one of the nearest targets.     *)
LEMMA NearestIsFound == RatchetInv => NearestIsReported
<1> SUFFICES ASSUME RatchetInv, NEW v \in Violations, v.print[2] = "transitive_forbid"
             PROVE  \E hops \in 1..NodeCount :
                      /\ Others(v.rule, v.print[3], hops - 1) = {}
                      /\ \E n \in Others(v.rule, v.print[3], hops) : FileAtNode[n] = v.print[4]
  BY DEF NearestIsReported
<1>1. PICK k \in DOMAIN rules : /\ v.rule = rules[k]
                                /\ v.print \in Direct(rules[k]) \cup Reached(rules[k])
  BY DEF Violations
<1> DEFINE rule == v.rule
<1>2. rule \in Rule /\ EdgesKnown
  BY <1>1, RulesAreRules DEF RatchetInv
<1>3. v.print \in Forbidden(rule)
  <2>1. v.print \notin Direct(rule)
    BY DEF Direct
  <2>2. v.print \notin Required(rule)
    BY DEF Required
  <2> QED
    BY <1>1, <2>1, <2>2 DEF Reached
<1> HIDE DEF rule
<1>4. PICK file \in Sources(rule) :
        /\ rule.action = "forbid" /\ ShortestPath(rule, file, Hops(rule)) # None
        /\ v.print = <<rule.id, "transitive_forbid", file,
                       FileAtNode[ShortestPath(rule, file, Hops(rule))]>>
  BY <1>3 DEF Forbidden
<1>5. Hops(rule) = NodeCount
  BY <1>4 DEF Hops
<1> DEFINE path == ShortestPath(rule, file, Hops(rule))
<1>6. PICK hops \in 1..NodeCount : /\ Others(rule, file, hops - 1) = {}
                                   /\ path \in Others(rule, file, hops)
  BY <1>2, <1>4, <1>5, PathTells
<1>7. v.print[3] = file /\ v.print[4] = FileAtNode[path]
  BY <1>4
<1> QED
  BY <1>6, <1>7 DEF rule

(* What was accepted covers no file it was not accepted of.                 *)
LEMMA CleanFilesBlock == RatchetInv => CleanFilesAreGuarded
<1> SUFFICES ASSUME RatchetInv, Verified, NEW k \in Blocking,
                    rules[k].action = "forbid", rules[k].reach = "transitive",
                    NEW file \in Sources(rules[k]), Others(rules[k], file, NodeCount) # {},
                    \A print \in Accepted :
                      print[1] = rules[k].id /\ print[2] = "transitive_forbid" => print[3] # file
             PROVE  report.state = "BLOCKED"
  BY DEF CleanFilesAreGuarded
<1> DEFINE rule == rules[k]
           print == <<rule.id, "transitive_forbid", file,
                      FileAtNode[ShortestPath(rule, file, Hops(rule))]>>
<1>1. rules \in Seq(Rule) /\ rule \in Rule /\ EdgesKnown /\ report = Judged
  BY RulesAreRules DEF RatchetInv, Blocking
<1>2. Hops(rule) = NodeCount
  BY DEF Hops
<1>3. ShortestPath(rule, file, Hops(rule)) # None
  <2>1. Others(rule, file, Hops(rule)) # {}
    BY <1>2
  <2> HIDE DEF rule
  <2> QED
    BY <1>1, <2>1, PathTells
<1>4. print \in Reached(rule)
  <2>1. file \in Sources(rule) /\ rule.action = "forbid" /\ rule.reach = "transitive"
    OBVIOUS
  <2> HIDE DEF rule
  <2> QED
    BY <1>3, <2>1 DEF Reached, Forbidden
<1>5. print[1] = rules[k].id /\ print[2] = "transitive_forbid" /\ print[3] = file
  OBVIOUS
<1>6. print \notin Accepted
  <2> HIDE DEF print
  <2> QED
    BY <1>5
<1> HIDE DEF print
<1>7. Judged.state = "BLOCKED"
  BY <1>1, <1>4, <1>6, FindingsBlock
<1> QED
  BY <1>1, <1>7

(* verify_architecture may be relied on while the code and the accepted     *)
(* findings change, whatever the graph and the contract: PASS means that    *)
(* the rules hold, what is reported of a transitive rule is nearest, and    *)
(* what was accepted covers no other file.                                  *)
THEOREM RatchetIsKept == RatchetSpec => []RatchetHolds
<1>1. RatchetInv => RatchetHolds
  BY PassIsEarned, NearestIsFound, CleanFilesBlock DEF RatchetHolds
<1> QED
  BY <1>1, InvInit, InvNext, PTL DEF RatchetSpec

-----------------------------------------------------------------------------
(* The findings of a review.                                                *)

(* One item for each item of a finite set. *)
LEMMA CopiesCount ==
  ASSUME NEW S, IsFiniteSet(S), NEW T, NEW f \in [S -> T],
         \A x, y \in S : f[x] = f[y] => x = y, \A z \in T : \E x \in S : f[x] = z
  PROVE  IsFiniteSet(T) /\ Cardinality(T) = Cardinality(S)
<1>1. f \in Surjection(S, T)
  BY DEF Surjection
<1>2. f \in Injection(S, T)
  BY DEF Injection, IsInjective
<1> QED
  BY <1>1, <1>2, FS_Surjection

LEMMA TriplesAreFinite ==
  ASSUME NEW A, IsFiniteSet(A), NEW B, IsFiniteSet(B), NEW C, IsFiniteSet(C)
  PROVE  IsFiniteSet(A \X B \X C)
<1> DEFINE S == (A \X B) \X C
           T == A \X B \X C
           f == [x \in S |-> <<x[1][1], x[1][2], x[2]>>]
<1>1. IsFiniteSet(S)
  <2>1. IsFiniteSet(A \X B)
    BY FS_Product
  <2> QED
    BY <2>1, FS_Product
<1>2. f \in [S -> T]
  OBVIOUS
<1>3. ASSUME NEW z \in T
      PROVE  \E x \in S : f[x] = z
  <2>1. <<<<z[1], z[2]>>, z[3]>> \in S /\ f[<<<<z[1], z[2]>>, z[3]>>] = z
    OBVIOUS
  <2> QED
    BY <2>1
<1>4. f \in Surjection(S, T)
  <2> HIDE DEF f, S, T
  <2> QED
    BY <1>2, <1>3 DEF Surjection
<1> QED
  <2> HIDE DEF f, S
  <2> QED
    BY <1>1, <1>4, FS_Surjection

IsListOfFiles(sources) == sources \in Seq(SourceFile)

LEMMA PlacesAreFinite ==
  ASSUME NEW sources, IsListOfFiles(sources), NEW minimum
  PROVE  IsFiniteSet(Places(sources, minimum)) /\ Places(sources, minimum) \subseteq Nat \X Nat \X Nat
<1>1. ASSUME NEW S, NEW q \in Seq(S), NEW k \in DOMAIN q
      PROVE  q[k] \in S
  OBVIOUS
<1>2. ASSUME NEW S, NEW q \in Seq(S)
      PROVE  IsFiniteSet(DOMAIN q) /\ DOMAIN q \subseteq Nat
  <2>1. DOMAIN q = 1..Len(q) /\ Len(q) \in Nat
    OBVIOUS
  <2> QED
    BY <2>1, FS_Interval
<1> DEFINE All(f) == {f} \X (DOMAIN sources[f].lines) \X (DOMAIN RuleOrder)
           Here(f) == {p \in All(f) : Sees(RuleOrder[p[3]], sources[f], p[2], minimum)}
           D == Product(sources)
<1>3. D \subseteq DOMAIN sources /\ IsFiniteSet(D) /\ D \subseteq Nat
  <2>1. IsFiniteSet(DOMAIN sources) /\ DOMAIN sources \subseteq Nat
    BY <1>2 DEF IsListOfFiles
  <2>2. D \subseteq DOMAIN sources
    BY DEF Product
  <2> HIDE DEF D
  <2> QED
    BY <2>1, <2>2, FS_Subset
<1>4. ASSUME NEW f \in D
      PROVE  IsFiniteSet(Here(f)) /\ Here(f) \subseteq Nat \X Nat \X Nat
  <2>1. sources[f] \in SourceFile
    BY <1>1, <1>3 DEF IsListOfFiles
  <2>2. sources[f].lines \in Seq(SourceLine)
    BY <2>1 DEF SourceFile
  <2>3. IsFiniteSet(DOMAIN sources[f].lines) /\ DOMAIN sources[f].lines \subseteq Nat
    BY <1>2, <2>2
  <2>4. IsFiniteSet(DOMAIN RuleOrder) /\ DOMAIN RuleOrder \subseteq Nat
    <3>1. PICK n \in Nat : DOMAIN RuleOrder = 1..n
      <4>1. DOMAIN RuleOrder = 1..6
        BY DEF RuleOrder
      <4> QED
        BY <4>1
    <3>2. IsFiniteSet(1..n)
      BY FS_Interval
    <3> QED
      BY <3>1, <3>2
  <2>5. IsFiniteSet({f})
    BY FS_Singleton
  <2>6. IsFiniteSet(All(f))
    BY <2>3, <2>4, <2>5, TriplesAreFinite
  <2>7. All(f) \subseteq Nat \X Nat \X Nat
    BY <1>3, <2>3, <2>4
  <2>8. Here(f) \subseteq All(f)
    OBVIOUS
  <2> HIDE DEF Here, All
  <2> QED
    BY <2>6, <2>7, <2>8, FS_Subset
<1>5. Places(sources, minimum) = UNION {Here(f) : f \in D}
  BY DEF Places
<1> HIDE DEF Here, D
<1>6. IsFiniteSet({Here(f) : f \in D})
  <2> DEFINE g == [f \in D |-> Here(f)]
             T == {Here(f) : f \in D}
  <2>1. g \in Surjection(D, T)
    BY DEF Surjection
  <2> HIDE DEF g, T
  <2>2. IsFiniteSet(T)
    BY <1>3, <2>1, FS_Surjection
  <2> QED
    BY <2>2 DEF T
<1>7. IsFiniteSet(UNION {Here(f) : f \in D})
  <2>1. \A T \in {Here(f) : f \in D} : IsFiniteSet(T)
    BY <1>4
  <2> QED
    BY <1>6, <2>1, FS_UNION
<1> QED
  BY <1>4, <1>5, <1>7

(* There is a first one among places.                                       *)
LEMMA FirstPlace ==
  ASSUME NEW S, S \subseteq Nat \X Nat \X Nat, S # {}
  PROVE  \E p \in S : \A q \in S : ~Earlier(q, p)
<1> DEFINE Files == {p[1] : p \in S}
<1>1. Files \subseteq Nat /\ Files # {}
  OBVIOUS
<1>2. PICK f \in Files : \A g \in Files : f <= g
  <2> HIDE DEF Files
  <2> QED
    BY <1>1, SmallestOfNumbers
<1> DEFINE Lines == {p[2] : p \in {q \in S : q[1] = f}}
<1>3. Lines \subseteq Nat /\ Lines # {}
  OBVIOUS
<1>4. PICK k \in Lines : \A l \in Lines : k <= l
  <2> HIDE DEF Lines
  <2> QED
    BY <1>3, SmallestOfNumbers
<1> DEFINE Rules == {p[3] : p \in {q \in S : q[1] = f /\ q[2] = k}}
<1>5. Rules \subseteq Nat /\ Rules # {}
  OBVIOUS
<1>6. PICK n \in Rules : \A r \in Rules : n <= r
  <2> HIDE DEF Rules
  <2> QED
    BY <1>5, SmallestOfNumbers
<1>7. PICK p \in S : p[1] = f /\ p[2] = k /\ p[3] = n
  OBVIOUS
<1>8. ASSUME NEW q \in S
      PROVE  ~Earlier(q, p)
  <2>1. q[1] \in Nat /\ q[2] \in Nat /\ q[3] \in Nat /\ f \in Nat /\ k \in Nat /\ n \in Nat
    BY <1>1, <1>3, <1>5
  <2>2. f <= q[1]
    BY <1>2
  <2>3. q[1] = f => k <= q[2]
    BY <1>4
  <2>4. q[1] = f /\ q[2] = k => n <= q[3]
    BY <1>6
  <2> HIDE DEF Files, Lines, Rules
  <2> QED
    BY <1>7, <2>1, <2>2, <2>3, <2>4 DEF Earlier
<1> QED
  BY <1>8

(* What a review keeps: nothing only if there is nothing, and all that there *)
(* is unless it is cut short.                                               *)
LEMMA ReviewKeeps ==
  ASSUME NEW sources, IsListOfFiles(sources), NEW minimum, NEW max \in Nat
  PROVE  LET all == Places(sources, minimum)
             kept == Review(sources, max, minimum).findings
         IN  /\ kept \subseteq all /\ IsFiniteSet(kept)
             /\ max > 0 /\ kept = {} => all = {}
             /\ Cardinality(all) <= max => kept = all
             /\ ~Review(sources, max, minimum).truncated => kept = all
<1> DEFINE all == Places(sources, minimum)
           Ahead(p) == {q \in all : Earlier(q, p)}
           kept == {p \in all : Cardinality(Ahead(p)) < max}
<1>1. IsFiniteSet(all) /\ all \subseteq Nat \X Nat \X Nat
  BY PlacesAreFinite
<1>2. /\ Review(sources, max, minimum).findings = kept
      /\ Review(sources, max, minimum).truncated = (Cardinality(all) > max)
  BY DEF Review
<1> HIDE DEF all
<1>3. kept \subseteq all /\ IsFiniteSet(kept)
  <2>1. kept \subseteq all
    OBVIOUS
  <2> HIDE DEF kept
  <2> QED
    BY <1>1, <2>1, FS_Subset
<1>4. ASSUME max > 0, all # {}
      PROVE  kept # {}
  <2>1. PICK p \in all : \A q \in all : ~Earlier(q, p)
    BY <1>1, <1>4, FirstPlace
  <2>2. Ahead(p) = {}
    BY <2>1
  <2>3. Cardinality(Ahead(p)) = 0
    BY <2>2, FS_EmptySet
  <2> HIDE DEF Ahead
  <2> QED
    BY <1>4, <2>3
<1>5. ASSUME Cardinality(all) <= max
      PROVE  kept = all
  <2>1. ASSUME NEW p \in all
        PROVE  Cardinality(Ahead(p)) < max
    <3>1. Ahead(p) \in SUBSET all /\ p \notin Ahead(p)
      <4>1. ~Earlier(p, p)
        BY <1>1 DEF Earlier
      <4> QED
        BY <4>1
    <3> HIDE DEF Ahead
    <3>2. /\ IsFiniteSet(Ahead(p)) /\ Cardinality(Ahead(p)) <= Cardinality(all)
          /\ Cardinality(all) = Cardinality(Ahead(p)) => all = Ahead(p)
      BY <1>1, <3>1, FS_Subset
    <3>3. Cardinality(Ahead(p)) \in Nat /\ Cardinality(all) \in Nat
      BY <1>1, <3>2, FS_CardinalityType
    <3> QED
      BY <1>5, <3>1, <3>2, <3>3
  <2> HIDE DEF Ahead
  <2> QED
    BY <2>1
<1>6. Cardinality(all) \in Nat
  BY <1>1, FS_CardinalityType
<1>7. Cardinality(all) \in Nat /\ ~(Cardinality(all) > max) => Cardinality(all) <= max
  OBVIOUS
<1>8. ~Review(sources, max, minimum).truncated => kept = all
  BY <1>2, <1>5, <1>6, <1>7
<1> HIDE DEF kept
<1> QED
  BY <1>2, <1>3, <1>4, <1>5, <1>8 DEF all

-----------------------------------------------------------------------------
(* Debt.                                                                    *)

IsRepository(repo) ==
  /\ IsListOfFiles(repo.sources) /\ (repo.before = Nothing \/ IsListOfFiles(repo.before))
  /\ repo.cycles \in Seq(SUBSET STRING) /\ repo.cyclesBefore \in Seq(SUBSET STRING)
  /\ repo.dependencies \in Int /\ repo.diagnostics \in Nat

NowFound(repo) == Review(repo.sources, DebtCap, 0).findings

LEMMA NowFoundTells ==
  ASSUME NEW repo, IsRepository(repo)
  PROVE  IsFiniteSet(NowFound(repo)) /\ NowFound(repo) \subseteq Nat \X Nat \X Nat
BY ReviewKeeps, PlacesAreFinite, ChangesAssumption DEF ChangesAssumption, IsRepository, NowFound

(* Each finding of today is counted once.                                    *)
LEMMA CurrentCounts ==
  ASSUME NEW repo, IsRepository(repo)
  PROVE  /\ IsFiniteSet(Current(repo))
         /\ Cardinality(Current(repo)) = Cardinality(NowFound(repo)) + Len(repo.cycles)
<1> DEFINE F == NowFound(repo)
           D == 1..Len(repo.cycles)
           found(p) == [at |-> p, id |-> FindingId(repo.sources, p)]
           cycle(k) == [at |-> <<k>>, id |-> <<"cycle", repo.cycles[k]>>]
           A == {found(p) : p \in F}
           B == {cycle(k) : k \in D}
           f == [p \in F |-> found(p)]
           g == [k \in D |-> cycle(k)]
<1>1. IsFiniteSet(F) /\ F \subseteq Nat \X Nat \X Nat
  BY NowFoundTells
<1>2. Len(repo.cycles) \in Nat /\ DOMAIN repo.cycles = D
  BY DEF IsRepository
<1>3. IsFiniteSet(D) /\ Cardinality(D) = Len(repo.cycles)
  BY <1>2, FS_Interval
<1>4. Current(repo) = A \cup B
  BY <1>2 DEF Current, NowFound
<1> HIDE DEF F, D
<1>5. IsFiniteSet(A) /\ Cardinality(A) = Cardinality(F)
  <2>1. f \in [F -> A]
    OBVIOUS
  <2>2. \A p, q \in F : f[p] = f[q] => p = q
    <3>1. \A p, q : found(p) = found(q) => p = q
      <4>1. \A p : found(p).at = p
        OBVIOUS
      <4> HIDE DEF found
      <4> QED
        BY <4>1
    <3> HIDE DEF found
    <3> QED
      BY <3>1
  <2>3. \A z \in A : \E p \in F : f[p] = z
    <3> HIDE DEF found
    <3> QED
      OBVIOUS
  <2> HIDE DEF f, A
  <2> QED
    BY <1>1, <2>1, <2>2, <2>3, CopiesCount
<1>6. IsFiniteSet(B) /\ Cardinality(B) = Cardinality(D)
  <2>1. g \in [D -> B]
    OBVIOUS
  <2>2. \A j, k \in D : g[j] = g[k] => j = k
    <3>1. \A j, k : cycle(j) = cycle(k) => j = k
      <4>1. \A k : cycle(k).at[1] = k
        OBVIOUS
      <4> HIDE DEF cycle
      <4> QED
        BY <4>1
    <3> HIDE DEF cycle
    <3> QED
      BY <3>1
  <2>3. \A z \in B : \E k \in D : g[k] = z
    <3> HIDE DEF cycle
    <3> QED
      OBVIOUS
  <2> HIDE DEF g, B
  <2> QED
    BY <1>3, <2>1, <2>2, <2>3, CopiesCount
<1>7. A \cap B = {}
  <2>1. ASSUME NEW p \in F, NEW k \in D
        PROVE  found(p) # cycle(k)
    <3>1. found(p).at = p /\ cycle(k).at = <<k>>
      OBVIOUS
    <3>2. p \in Nat \X Nat \X Nat
      BY <1>1
    <3>3. Len(p) = 3 /\ Len(<<k>>) = 1
      BY <3>2
    <3> HIDE DEF found, cycle
    <3> QED
      BY <3>1, <3>3
  <2> HIDE DEF found, cycle
  <2> QED
    BY <2>1
<1> HIDE DEF A, B
<1>8. Cardinality(A \cup B) = Cardinality(A) + Cardinality(B) - Cardinality(A \cap B) /\ IsFiniteSet(A \cup B)
  BY <1>5, <1>6, FS_Union
<1>9. Cardinality(A \cap B) = 0 /\ Cardinality(A) \in Nat /\ Cardinality(B) \in Nat
  BY <1>5, <1>6, <1>7, FS_EmptySet, FS_CardinalityType
<1> QED
  BY <1>3, <1>4, <1>5, <1>6, <1>8, <1>9 DEF F

(* A set is counted in two parts. *)
LEMMA TwoParts ==
  ASSUME NEW S, IsFiniteSet(S), NEW ids
  PROVE  Cardinality({f \in S : f.id \notin ids}) + Cardinality({f \in S : f.id \in ids}) = Cardinality(S)
<1> DEFINE new == {f \in S : f.id \notin ids}
           old == {f \in S : f.id \in ids}
<1>1. new \in SUBSET S /\ old \in SUBSET S /\ new \cap old = {} /\ new \cup old = S
  OBVIOUS
<1> HIDE DEF new, old
<1>2. IsFiniteSet(new) /\ IsFiniteSet(old)
  BY <1>1, FS_Subset
<1>3. Cardinality(new \cup old) = Cardinality(new) + Cardinality(old) - Cardinality(new \cap old)
  BY <1>2, FS_Union
<1>4. Cardinality(new \cap old) = 0 /\ Cardinality(new) \in Nat /\ Cardinality(old) \in Nat
  BY <1>1, <1>2, FS_EmptySet, FS_CardinalityType
<1>5. Cardinality(new) + Cardinality(old) = Cardinality(S)
  <2>1. Cardinality(new \cup old) = Cardinality(S)
    BY <1>1
  <2> QED
    BY <1>3, <1>4, <2>1
<1> QED
  BY <1>5 DEF new, old

(* No line has the identity of a cycle.                                      *)
LEMMA LinesAreNoCycles ==
  ASSUME NEW sources, NEW p, NEW components
  PROVE  FindingId(sources, p) \notin CycleIds(components)
<1>1. ASSUME NEW c
      PROVE  FindingId(sources, p) # <<"cycle", c>>
  <2>1. Len(FindingId(sources, p)) = 3
    BY DEF FindingId
  <2>2. Len(<<"cycle", c>>) = 2
    OBVIOUS
  <2> QED
    BY <2>1, <2>2
<1> QED
  BY <1>1 DEF CycleIds

(* What debt() claims.                                                       *)
LEMMA DebtTells ==
  ASSUME NEW repo, IsRepository(repo), NEW base, Debt(repo, base).status = "COMPLETE"
  PROVE  LET debt == Debt(repo, base)
             then == Places(repo.before, 0)
         IN  /\ Cardinality(debt.new) + Cardinality(debt.existing)
                  = Cardinality(NowFound(repo)) + Len(repo.cycles)
             /\ Cardinality(then) <= DebtCap =>
                  \A p \in NowFound(repo) :
                    (\E f \in debt.new : f.at = p)
                      <=> FindingId(repo.sources, p) \notin FindingIds(repo.before, then)
             /\ ~Review(repo.sources, DebtCap, 0).truncated =>
                  debt.fixed \cap FindingIds(repo.sources, Places(repo.sources, 0)) = {}
<1> DEFINE current == Current(repo)
           before == BaselineIds(repo)
           new == {f \in current : f.id \notin before}
           existing == {f \in current : f.id \in before}
           fixed == {id \in before : \A f \in current : f.id # id}
           then == Places(repo.before, 0)
           Id(p) == FindingId(repo.sources, p)
<1>1. repo.before # Nothing /\ Debt(repo, base) =
        [status |-> "COMPLETE", new |-> new, existing |-> existing, fixed |-> fixed]
  BY DEF Debt
<1>2. /\ Debt(repo, base).new = new /\ Debt(repo, base).existing = existing
      /\ Debt(repo, base).fixed = fixed
  <2> HIDE DEF new, existing, fixed
  <2> QED
    BY <1>1
<1>3. Cardinality(new) + Cardinality(existing) = Cardinality(NowFound(repo)) + Len(repo.cycles)
  <2>1. IsFiniteSet(current) /\ Cardinality(current) = Cardinality(NowFound(repo)) + Len(repo.cycles)
    BY CurrentCounts
  <2> HIDE DEF current, before
  <2>2. Cardinality(new) + Cardinality(existing) = Cardinality(current)
    BY <2>1, TwoParts
  <2> QED
    BY <2>1, <2>2
<1>4. ASSUME NEW p \in NowFound(repo)
      PROVE  [at |-> p, id |-> Id(p)] \in current
  BY DEF Current, NowFound
<1>5. ASSUME NEW p \in NowFound(repo), NEW f \in current, f.at = p
      PROVE  f.id = Id(p)
  <2>1. CASE \E q \in NowFound(repo) : f = [at |-> q, id |-> Id(q)]
    <3>1. PICK q \in NowFound(repo) : f = [at |-> q, id |-> Id(q)]
      BY <2>1
    <3>2. f.at = q /\ f.id = Id(q)
      <4> HIDE DEF Id
      <4> QED
        BY <3>1
    <3> QED
      BY <1>5, <3>2
  <2>2. CASE \E k \in DOMAIN repo.cycles : f = [at |-> <<k>>, id |-> <<"cycle", repo.cycles[k]>>]
    <3>1. PICK k : f.at = <<k>>
      BY <2>2
    <3>2. p \in Nat \X Nat \X Nat
      BY NowFoundTells
    <3>3. Len(p) = 3 /\ Len(<<k>>) = 1
      BY <3>2
    <3> QED
      BY <1>5, <3>1, <3>3
  <2> QED
    BY <2>1, <2>2 DEF Current, NowFound
<1>6. ASSUME Cardinality(then) <= DebtCap, NEW p
      PROVE  Id(p) \in before <=> Id(p) \in FindingIds(repo.before, then)
  <2>1. IsListOfFiles(repo.before)
    BY <1>1 DEF IsRepository
  <2>2. Review(repo.before, DebtCap, 0).findings = then
    BY <1>6, <2>1, ReviewKeeps, ChangesAssumption DEF ChangesAssumption
  <2>3. Id(p) \notin CycleIds(repo.cyclesBefore)
    BY LinesAreNoCycles
  <2> HIDE DEF Id, then
  <2> QED
    BY <2>2, <2>3 DEF BaselineIds
<1>7. ASSUME Cardinality(then) <= DebtCap, NEW p \in NowFound(repo)
      PROVE  (\E f \in new : f.at = p) <=> Id(p) \notin FindingIds(repo.before, then)
  <2> DEFINE this == [at |-> p, id |-> Id(p)]
  <2>1. this \in current /\ this.at = p /\ this.id = Id(p)
    <3>1. this.at = p /\ this.id = Id(p)
      <4> HIDE DEF Id
      <4> QED
        OBVIOUS
    <3> QED
      BY <1>4, <3>1
  <2> HIDE DEF this, Id, current, before, then
  <2>2. Id(p) \in before <=> Id(p) \in FindingIds(repo.before, then)
    BY <1>6, <1>7
  <2> QED
    BY <1>5, <2>1, <2>2
<1>8. ASSUME ~Review(repo.sources, DebtCap, 0).truncated
      PROVE  fixed \cap FindingIds(repo.sources, Places(repo.sources, 0)) = {}
  <2>1. NowFound(repo) = Places(repo.sources, 0)
    BY <1>8, ReviewKeeps, ChangesAssumption DEF ChangesAssumption, IsRepository, NowFound
  <2>2. ASSUME NEW p \in Places(repo.sources, 0)
        PROVE  Id(p) \notin fixed
    <3>1. [at |-> p, id |-> Id(p)] \in current
      BY <1>4, <2>1
    <3>2. [at |-> p, id |-> Id(p)].id = Id(p)
      <4> HIDE DEF Id
      <4> QED
        OBVIOUS
    <3> HIDE DEF Id, current, before
    <3> QED
      BY <3>1, <3>2
  <2> HIDE DEF fixed
  <2> QED
    BY <2>2 DEF FindingIds
<1> HIDE DEF new, existing, fixed, then, Id
<1> QED
  BY <1>2, <1>3, <1>7, <1>8 DEF then, Id

-----------------------------------------------------------------------------
(* The checks of a change.                                                   *)

AfterBaseline == {"architecture", "audit", "duplicates", "contract", "tests", "assess"}
AfterArchitecture == {"audit", "duplicates", "contract", "tests", "assess"}
AfterAudit == {"duplicates", "contract", "tests", "assess"}
AfterDuplicates == {"contract", "tests", "assess"}
AfterContract == {"tests", "assess"}

PhaseIsKnown == change.tool # "run_audit" /\ change.phase \in {"plan", "verify"}
AuditWasMade == checks["audit"] = AuditSays /\ AuditSays.status # "ERROR"

(* Every check was made, and none failed.                                    *)
AllWereMade ==
  /\ PhaseIsKnown /\ BaselineSays # "ERROR" /\ checks["architecture"] = ArchitectureSays
  /\ AuditWasMade /\ checks["duplicates"] = DuplicatesSay /\ checks["contract"] = ContractSays
  /\ suggested = AffectedTests

(* Those before the next one were made.                                      *)
ChecksAreMade ==
  /\ due \in {"context", "baseline"} \cup AfterBaseline => PhaseIsKnown
  /\ due \in AfterBaseline => BaselineSays # "ERROR"
  /\ due \in AfterArchitecture => checks["architecture"] = ArchitectureSays
  /\ due \in AfterAudit => AuditWasMade
  /\ due \in AfterDuplicates => checks["duplicates"] = DuplicatesSay
  /\ due \in AfterContract => checks["contract"] = ContractSays
  /\ due = "assess" => suggested = AffectedTests

AnswerHasGrounds ==
  /\ due # "done" => answer = Nothing
  /\ due = "done" => \/ answer.status = "ERROR"
                     \/ /\ change.tool = "run_audit"
                        /\ answer = Audited(change.options, change.repo, change.evidence)
                     \/ AllWereMade /\ answer = Assessment

VerifyInv ==
  /\ change \in Changes /\ checks = [c \in CheckNames |-> checks[c]]
  /\ due = "only_audit" => change.tool = "run_audit"
  /\ due = "impact" => change.tool # "run_audit"
  /\ ChecksAreMade /\ AnswerHasGrounds

LEMMA VerifyStarts == VerifyInit => VerifyInv
<1> SUFFICES ASSUME VerifyInit
             PROVE  VerifyInv
  OBVIOUS
<1>1. checks = [c \in CheckNames |-> checks[c]]
  BY DEF VerifyInit
<1>2. due \in {"only_audit", "impact"} /\ answer = Nothing /\ change \in Changes
      /\ (due = "only_audit" <=> change.tool = "run_audit")
  BY DEF VerifyInit
<1> QED
  BY <1>1, <1>2 DEF VerifyInv, ChecksAreMade, AnswerHasGrounds, AfterBaseline, AfterArchitecture,
                    AfterAudit, AfterDuplicates, AfterContract

(* A call that fails has an error for its answer.                            *)
LEMMA FailTells ==
  ASSUME VerifyInv, NEW where, Fail(where)
  PROVE  VerifyInv'
<1>1. due' = "done" /\ answer'.status = "ERROR" /\ UNCHANGED <<change, checks>>
  BY DEF Fail
<1> QED
  BY <1>1 DEF VerifyInv, ChecksAreMade, AnswerHasGrounds, AfterBaseline, AfterArchitecture,
              AfterAudit, AfterDuplicates, AfterContract

(* What a check says depends on the change alone.                            *)
LEMMA SayingsStay ==
  ASSUME change' = change
  PROVE  /\ BaselineSays' = BaselineSays /\ ArchitectureSays' = ArchitectureSays
         /\ AuditSays' = AuditSays /\ DuplicatesSay' = DuplicatesSay
         /\ ContractSays' = ContractSays /\ AffectedTests' = AffectedTests
         /\ PhaseIsKnown' = PhaseIsKnown
BY DEF BaselineSays, ArchitectureSays, AuditSays, ChangeAudit, DuplicatesSay, ContractSays,
       AffectedTests, PhaseIsKnown

LEMMA RecordedTells ==
  ASSUME VerifyInv, NEW name \in CheckNames, NEW value, checks' = [checks EXCEPT ![name] = value]
  PROVE  /\ checks' = [c \in CheckNames |-> checks'[c]] /\ checks'[name] = value
         /\ \A c \in CheckNames \ {name} : checks'[c] = checks[c]
BY DEF VerifyInv

LEMMA VerifyGoesOn == VerifyInv /\ [VerifyNext]_verifyVars => VerifyInv'
<1> SUFFICES ASSUME VerifyInv, [VerifyNext]_verifyVars
             PROVE  VerifyInv'
  OBVIOUS
<1> USE DEF AfterBaseline, AfterArchitecture, AfterAudit, AfterDuplicates, AfterContract
<1> DEFINE Names == {"baseline", "architecture", "audit", "duplicates", "contract"}
<1>0. CheckNames = Names
  BY DEF CheckNames
<1>1. CASE Impact
  <2>1. CASE Fail("impact")
    BY <2>1, FailTells
  <2>2. CASE /\ change.phase \in {"plan", "verify"}
             /\ due' = "context" /\ UNCHANGED <<change, context, checks, suggested, answer>>
    <3>1. PhaseIsKnown' /\ due = "impact"
      BY <1>1, <2>2 DEF Impact, PhaseIsKnown, VerifyInv
    <3> QED
      BY <2>2, <3>1 DEF VerifyInv, ChecksAreMade, AnswerHasGrounds
  <2> QED
    BY <1>1, <2>1, <2>2 DEF Impact
<1>2. CASE Context
  <2>1. CASE Fail("context")
    BY <2>1, FailTells
  <2>2. CASE due = "context" /\ due' = "baseline" /\ UNCHANGED <<change, checks, suggested, answer>>
    BY <2>2, SayingsStay DEF VerifyInv, ChecksAreMade, AnswerHasGrounds
  <2> QED
    BY <1>2, <2>1, <2>2 DEF Context
<1>3. CASE GraphBaseline
  <2>1. CASE Fail("baseline")
    BY <2>1, FailTells
  <2>2. CASE /\ due = "baseline" /\ BaselineSays # "ERROR" /\ due' = "architecture"
             /\ checks' = [checks EXCEPT !["baseline"] = BaselineSays]
             /\ UNCHANGED <<change, context, suggested, answer>>
    <3>1. checks' = [c \in CheckNames |-> checks'[c]]
      BY <1>0, <2>2, RecordedTells
    <3> QED
      BY <2>2, <3>1, SayingsStay DEF VerifyInv, ChecksAreMade, AnswerHasGrounds
  <2> QED
    BY <1>3, <2>1, <2>2 DEF GraphBaseline, Checked
<1>4. CASE Architecture
  <2>1. CASE Fail("architecture")
    BY <2>1, FailTells
  <2>2. CASE /\ due = "architecture" /\ due' = "audit"
             /\ checks' = [checks EXCEPT !["architecture"] = ArchitectureSays]
             /\ UNCHANGED <<change, context, suggested, answer>>
    <3>1. checks' = [c \in CheckNames |-> checks'[c]] /\ checks'["architecture"] = ArchitectureSays
      BY <1>0, <2>2, RecordedTells
    <3> QED
      BY <2>2, <3>1, SayingsStay DEF VerifyInv, ChecksAreMade, AnswerHasGrounds
  <2> QED
    BY <1>4, <2>1, <2>2 DEF Architecture, Checked
<1>5. CASE Audit
  <2>1. CASE Fail("audit")
    BY <2>1, FailTells
  <2>2. CASE /\ due = "audit" /\ AuditSays.status # "ERROR" /\ due' = "duplicates"
             /\ checks' = [checks EXCEPT !["audit"] = AuditSays]
             /\ UNCHANGED <<change, context, suggested, answer>>
    <3>1. /\ checks' = [c \in CheckNames |-> checks'[c]] /\ checks'["audit"] = AuditSays
          /\ checks'["architecture"] = checks["architecture"]
      BY <1>0, <2>2, RecordedTells
    <3>2. AuditWasMade'
      BY <2>2, <3>1, SayingsStay DEF AuditWasMade
    <3> QED
      BY <2>2, <3>1, <3>2, SayingsStay DEF VerifyInv, ChecksAreMade, AnswerHasGrounds
  <2> QED
    BY <1>5, <2>1, <2>2 DEF Audit, AuditIs
<1>6. CASE Duplicates
  <2>1. CASE Fail("duplicates")
    BY <2>1, FailTells
  <2>2. CASE /\ due = "duplicates" /\ due' = "contract"
             /\ checks' = [checks EXCEPT !["duplicates"] = DuplicatesSay]
             /\ UNCHANGED <<change, context, suggested, answer>>
    <3>1. /\ checks' = [c \in CheckNames |-> checks'[c]] /\ checks'["duplicates"] = DuplicatesSay
          /\ checks'["architecture"] = checks["architecture"] /\ checks'["audit"] = checks["audit"]
      BY <1>0, <2>2, RecordedTells
    <3>2. AuditWasMade => AuditWasMade'
      BY <2>2, <3>1, SayingsStay DEF AuditWasMade
    <3> QED
      BY <2>2, <3>1, <3>2, SayingsStay DEF VerifyInv, ChecksAreMade, AnswerHasGrounds
  <2> QED
    BY <1>6, <2>1, <2>2 DEF Duplicates, Checked
<1>7. CASE ApiContract
  <2>1. CASE Fail("contract")
    BY <2>1, FailTells
  <2>2. CASE /\ due = "contract" /\ due' = "tests"
             /\ checks' = [checks EXCEPT !["contract"] = ContractSays]
             /\ UNCHANGED <<change, context, suggested, answer>>
    <3>1. /\ checks' = [c \in CheckNames |-> checks'[c]] /\ checks'["contract"] = ContractSays
          /\ checks'["architecture"] = checks["architecture"] /\ checks'["audit"] = checks["audit"]
          /\ checks'["duplicates"] = checks["duplicates"]
      BY <1>0, <2>2, RecordedTells
    <3>2. AuditWasMade => AuditWasMade'
      BY <2>2, <3>1, SayingsStay DEF AuditWasMade
    <3> QED
      BY <2>2, <3>1, <3>2, SayingsStay DEF VerifyInv, ChecksAreMade, AnswerHasGrounds
  <2> QED
    BY <1>7, <2>1, <2>2 DEF ApiContract, Checked
<1>8. CASE Tests
  <2>1. CASE Fail("tests")
    BY <2>1, FailTells
  <2>2. CASE /\ due = "tests" /\ due' = "assess" /\ suggested' = AffectedTests
             /\ UNCHANGED <<change, context, checks, answer>>
    <3>1. AuditWasMade => AuditWasMade'
      BY <2>2, SayingsStay DEF AuditWasMade
    <3> QED
      BY <2>2, <3>1, SayingsStay DEF VerifyInv, ChecksAreMade, AnswerHasGrounds
  <2> QED
    BY <1>8, <2>1, <2>2 DEF Tests
<1>9. CASE Assess
  <2>1. /\ due = "assess" /\ due' = "done" /\ answer' = Assessment
        /\ UNCHANGED <<change, context, checks, suggested>>
    BY <1>9 DEF Assess
  <2>2. AllWereMade
    BY <2>1 DEF VerifyInv, ChecksAreMade, AllWereMade
  <2>3. AllWereMade'
    <3>1. AuditWasMade'
      BY <2>1, <2>2, SayingsStay DEF AllWereMade, AuditWasMade
    <3> QED
      BY <2>1, <2>2, <3>1, SayingsStay DEF AllWereMade
  <2>4. Assessment' = Assessment
    BY <2>1 DEF Assessment, Blockers, Limitations
  <2> QED
    BY <2>1, <2>3, <2>4 DEF VerifyInv, ChecksAreMade, AnswerHasGrounds
<1>10. CASE RunAudit
  <2>1. CASE Fail("options")
    BY <2>1, FailTells
  <2>2. CASE /\ due = "only_audit" /\ due' = "done"
             /\ answer' = Audited(change.options, change.repo, change.evidence)
             /\ UNCHANGED <<change, context, checks, suggested>>
    BY <2>2 DEF VerifyInv, ChecksAreMade, AnswerHasGrounds
  <2> QED
    BY <1>10, <2>1, <2>2 DEF RunAudit
<1>11. CASE UNCHANGED verifyVars
  <2>1. UNCHANGED <<change, due, context, checks, suggested, answer>>
    BY <1>11 DEF verifyVars
  <2>2. AuditWasMade' = AuditWasMade
    BY <2>1, SayingsStay DEF AuditWasMade
  <2>3. AllWereMade' = AllWereMade
    BY <2>1, <2>2, SayingsStay DEF AllWereMade
  <2>4. Assessment' = Assessment
    BY <2>1 DEF Assessment, Blockers, Limitations
  <2> QED
    BY <2>1, <2>2, <2>3, <2>4, SayingsStay DEF VerifyInv, ChecksAreMade, AnswerHasGrounds
<1> QED
  BY <1>1, <1>2, <1>3, <1>4, <1>5, <1>6, <1>7, <1>8, <1>9, <1>10, <1>11 DEF VerifyNext

LEMMA RepositoriesAreRead ==
  ASSUME VerifyInv
  PROVE  IsRepository(change.repo)
<1>1. change \in Changes
  BY DEF VerifyInv
<1> QED
  BY <1>1, ChangesAssumption DEF ChangesAssumption, IsRepository, IsListOfFiles

(* What an audit says, if it does not fail. *)
LEMMA AuditedTells ==
  ASSUME NEW options, NEW repo, NEW evidence, Audited(options, repo, evidence).status # "ERROR"
  PROVE  LET audited == Audited(options, repo, evidence)
             minimum == IF Covers(options, "runtime") THEN options.severity ELSE 9
         IN  /\ Debt(repo, options.base).status # "ERROR" /\ audited.debt = Debt(repo, options.base)
             /\ audited.tests = TestReport(options, evidence)
             /\ audited.status = "REVIEW" <=>
                  \/ Review(repo.sources, options.max, minimum).findings # {}
                  \/ Covers(options, "dependencies") /\ repo.dependencies >= options.severity
                  \/ Covers(options, "diagnostics") /\ repo.diagnostics > 0 /\ options.max > 0
                  \/ TestReport(options, evidence) = "FAIL"
                  \/ Covers(options, "structure") /\ options.severity <= 1 /\ repo.cycles # <<>>
<1> DEFINE minimum == IF Covers(options, "runtime") THEN options.severity ELSE 9
           review == Review(repo.sources, options.max, minimum)
           tests == TestReport(options, evidence)
           debt == Debt(repo, options.base)
           reviewing == \/ review.findings # {}
                        \/ Covers(options, "dependencies") /\ repo.dependencies >= options.severity
                        \/ Covers(options, "diagnostics") /\ repo.diagnostics > 0 /\ options.max > 0
                        \/ tests = "FAIL"
                        \/ Covers(options, "structure") /\ options.severity <= 1 /\ repo.cycles # <<>>
           audited == [status |-> IF reviewing THEN "REVIEW" ELSE "PASS", findings |-> review.findings,
                       truncated |-> review.truncated, tests |-> tests, debt |-> debt]
<1>1. Audited(options, repo, evidence) =
        IF "ERROR" \in {tests, debt.status} THEN [status |-> "ERROR"] ELSE audited
  BY DEF Audited
<1> HIDE DEF minimum, review, tests, debt, reviewing
<1>2. "ERROR" \notin {tests, debt.status}
  <2>1. [status |-> "ERROR"].status = "ERROR"
    OBVIOUS
  <2> HIDE DEF audited
  <2> QED
    BY <1>1, <2>1
<1>3. Audited(options, repo, evidence) = audited
  <2> HIDE DEF audited
  <2> QED
    BY <1>1, <1>2
<1>4. /\ Audited(options, repo, evidence).debt = debt /\ Audited(options, repo, evidence).tests = tests
      /\ Audited(options, repo, evidence).status = IF reviewing THEN "REVIEW" ELSE "PASS"
  BY <1>3
<1> HIDE DEF audited
<1> QED
  BY <1>2, <1>4 DEF minimum, review, tests, debt, reviewing

(* The audit of a change: it reviews exactly what is in the repository.      *)
LEMMA ChangeAuditTells ==
  ASSUME VerifyInv, change.phase # "plan", AuditSays.status # "ERROR"
  PROVE  /\ AuditSays.status = "REVIEW" <=>
              \/ Troubled(change.repo.sources) \/ change.repo.cycles # <<>>
              \/ change.repo.dependencies >= 0 \/ change.repo.diagnostics > 0
         /\ AuditSays.debt.new # {} => Troubled(change.repo.sources) \/ change.repo.cycles # <<>>
<1> DEFINE repo == change.repo
           all == Places(repo.sources, 0)
           kept == Review(repo.sources, 50, 0).findings
<1>1. IsRepository(repo)
  BY RepositoriesAreRead
<1>2. AuditSays = Audited(ChangeAudit, repo, Nothing)
  BY DEF AuditSays
<1>3. /\ ChangeAudit.max = 50 /\ ChangeAudit.severity = 0 /\ ChangeAudit.category = Nothing
      /\ ChangeAudit.includeTests = TRUE
  BY DEF ChangeAudit
<1>4. \A c : Covers(ChangeAudit, c)
  BY <1>3 DEF Covers
<1>5. TestReport(ChangeAudit, Nothing) = "NOT_MEASURED"
  BY <1>3 DEF TestReport
<1>6. kept = {} <=> all = {}
  <2>1. kept \subseteq all /\ (50 > 0 /\ kept = {} => all = {})
    <3>1. IsListOfFiles(repo.sources)
      BY <1>1 DEF IsRepository
    <3> HIDE DEF repo
    <3> QED
      BY <3>1, ReviewKeeps
  <2> HIDE DEF kept, all
  <2> QED
    BY <2>1
<1>7. AuditSays.status = "REVIEW" <=>
        kept # {} \/ repo.dependencies >= 0 \/ repo.diagnostics > 0 \/ repo.cycles # <<>>
  <2> HIDE DEF repo
  <2>1. Audited(ChangeAudit, repo, Nothing).status # "ERROR"
    BY <1>2
  <2>2. 50 > 0 /\ 0 <= 1 /\ "NOT_MEASURED" # "FAIL"
    OBVIOUS
  <2> DEFINE minimum == IF Covers(ChangeAudit, "runtime") THEN ChangeAudit.severity ELSE 9
  <2>3. minimum = 0
    BY <1>3, <1>4
  <2> HIDE DEF minimum
  <2>4. Audited(ChangeAudit, repo, Nothing).status = "REVIEW" <=>
          \/ Review(repo.sources, ChangeAudit.max, minimum).findings # {}
          \/ Covers(ChangeAudit, "dependencies") /\ repo.dependencies >= ChangeAudit.severity
          \/ Covers(ChangeAudit, "diagnostics") /\ repo.diagnostics > 0 /\ ChangeAudit.max > 0
          \/ TestReport(ChangeAudit, Nothing) = "FAIL"
          \/ Covers(ChangeAudit, "structure") /\ ChangeAudit.severity <= 1 /\ repo.cycles # <<>>
    BY <2>1, AuditedTells DEF minimum
  <2>5. Review(repo.sources, ChangeAudit.max, minimum).findings = Review(repo.sources, 50, 0).findings
    BY <1>3, <2>3
  <2> QED
    BY <1>2, <1>3, <1>4, <1>5, <2>2, <2>4, <2>5
<1>8. ASSUME AuditSays.debt.new # {}
      PROVE  all # {} \/ repo.cycles # <<>>
  <2>1. AuditSays.debt = Debt(repo, ChangeAudit.base) /\ Debt(repo, ChangeAudit.base).status # "ERROR"
    <3> HIDE DEF repo
    <3> QED
      BY <1>2, AuditedTells
  <2>2. Debt(repo, ChangeAudit.base).new \subseteq Current(repo)
    <3>1. CASE ChangeAudit.base = Nothing
      BY <3>1 DEF Debt
    <3>2. CASE ChangeAudit.base # Nothing /\ repo.before = Nothing
      BY <2>1, <3>2 DEF Debt
    <3>3. CASE ChangeAudit.base # Nothing /\ repo.before # Nothing
      BY <3>3 DEF Debt
    <3> QED
      BY <3>1, <3>2, <3>3
  <2>3. Current(repo) # {}
    BY <1>8, <2>1, <2>2
  <2>4. CASE NowFound(repo) # {}
    <3>1. IsListOfFiles(repo.sources)
      BY <1>1 DEF IsRepository
    <3>2. NowFound(repo) \subseteq all
      BY <3>1, ReviewKeeps, ChangesAssumption DEF ChangesAssumption, NowFound
    <3> QED
      BY <2>4, <3>2
  <2>5. CASE NowFound(repo) = {}
    <3>1. DOMAIN repo.cycles # {}
      BY <2>3, <2>5 DEF Current, NowFound
    <3> QED
      BY <3>1
  <2> QED
    BY <2>4, <2>5
<1> QED
  BY <1>6, <1>7, <1>8 DEF Troubled

LEMMA VerdictsAreReasoned == VerifyInv => VerdictHasReasons
<1> SUFFICES ASSUME VerifyInv, Answered, change.tool = "verified_change"
             PROVE  /\ answer.verdict = "PLANNED" <=> change.phase = "plan"
                    /\ change.phase = "verify" => change.repo.before # Nothing
                    /\ answer.verdict = "PASS" /\ change.impact.files # {} =>
                         /\ ~Troubled(change.repo.sources) /\ change.repo.cycles = <<>>
                         /\ change.repo.dependencies < 0 /\ change.repo.diagnostics = 0
                         /\ change.architecture \in {"PASS", "NOT_APPLICABLE"}
                         /\ change.families = 0 \/ change.ratchet = FALSE
                         /\ change.contract \notin ApiMismatches /\ change.tests = {}
                         /\ \A k \in Range(change.impact.nodes) : ~change.nodes[k].test
                    /\ answer.verdict = "BLOCKED" =>
                         \/ Troubled(change.repo.sources) \/ change.repo.cycles # <<>>
                         \/ change.repo.dependencies >= 0 \/ change.repo.diagnostics > 0
                         \/ change.architecture = "BLOCKED" \/ change.contract \in ApiMismatches
  BY DEF VerdictHasReasons
<1> DEFINE applies == change.phase = "verify" /\ change.impact.files # {}
           blockers == IF applies THEN Blockers ELSE {}
           limitations == IF change.phase = "plan" THEN {"plan"} ELSE IF applies THEN Limitations ELSE {}
           verdict == IF blockers # {} THEN "BLOCKED" ELSE IF change.phase = "plan" THEN "PLANNED"
                      ELSE IF limitations = {} THEN "PASS" ELSE "REVIEW"
<1>1. AllWereMade /\ answer = Assessment
  BY DEF Answered, VerifyInv, AnswerHasGrounds
<1>2. answer.verdict = verdict
  BY <1>1 DEF Assessment
<1>3. change.phase \in {"plan", "verify"}
  BY <1>1 DEF AllWereMade, PhaseIsKnown
<1>4. change.phase = "verify" => change.repo.before # Nothing
  BY <1>1 DEF AllWereMade, BaselineSays
<1>5. IsRepository(change.repo)
  BY RepositoriesAreRead
<1>6. ASSUME applies
      PROVE  /\ checks["audit"] = AuditSays
             /\ AuditSays.status = "REVIEW" <=>
                  \/ Troubled(change.repo.sources) \/ change.repo.cycles # <<>>
                  \/ change.repo.dependencies >= 0 \/ change.repo.diagnostics > 0
             /\ AuditSays.debt.new # {} => Troubled(change.repo.sources) \/ change.repo.cycles # <<>>
             /\ checks["architecture"] = change.architecture
             /\ checks["duplicates"] = "REVIEW" <=> change.ratchet # FALSE /\ change.families # 0
             /\ checks["contract"] = "REVIEW" <=> change.contract \in ApiMismatches
  <2>1. change.phase = "verify" /\ change.impact.files # {}
    BY <1>6
  <2>2. AuditSays.status # "ERROR" /\ checks["audit"] = AuditSays
    BY <1>1 DEF AllWereMade, AuditWasMade
  <2>3. checks["architecture"] = change.architecture
    BY <1>1, <2>1 DEF AllWereMade, ArchitectureSays
  <2>4. checks["duplicates"] = "REVIEW" <=> change.ratchet # FALSE /\ change.families # 0
    BY <1>1, <2>1 DEF AllWereMade, DuplicatesSay
  <2>5. checks["contract"] = "REVIEW" <=> change.contract \in ApiMismatches
    <3>1. Nothing \notin ApiMismatches /\ "ERROR" \notin ApiMismatches
      <4>1. Nothing \notin ApiMismatches
        BY ChangesAssumption DEF ChangesAssumption
      <4>2. "ERROR" \notin ApiMismatches
        BY DEF ApiMismatches
      <4> QED
        BY <4>1, <4>2
    <3> QED
      BY <1>1, <3>1 DEF AllWereMade, ContractSays
  <2>6. change.phase # "plan"
    BY <2>1
  <2> QED
    BY <2>2, <2>3, <2>4, <2>5, <2>6, ChangeAuditTells
<1>7. ASSUME verdict = "PASS", change.impact.files # {}
      PROVE  /\ ~Troubled(change.repo.sources) /\ change.repo.cycles = <<>>
             /\ change.repo.dependencies < 0 /\ change.repo.diagnostics = 0
             /\ change.architecture \in {"PASS", "NOT_APPLICABLE"}
             /\ change.families = 0 \/ change.ratchet = FALSE
             /\ change.contract \notin ApiMismatches /\ change.tests = {}
             /\ \A k \in Range(change.impact.nodes) : ~change.nodes[k].test
  <2>1. applies /\ Blockers = {} /\ Limitations = {}
    BY <1>3, <1>7
  <2>2. /\ checks["audit"].status # "REVIEW" /\ checks["architecture"] # "BLOCKED"
        /\ checks["contract"] # "REVIEW"
    BY <2>1 DEF Blockers
  <2>3. /\ checks["architecture"] \in {"PASS", "NOT_APPLICABLE", "BLOCKED"}
        /\ checks["duplicates"] # "REVIEW" /\ change.tests = {} /\ suggested = {}
    BY <2>1 DEF Limitations
  <2>4. AffectedTests = {}
    BY <1>1, <2>3 DEF AllWereMade
  <2>5. \A k \in Range(change.impact.nodes) : ~change.nodes[k].test
    BY <2>4 DEF AffectedTests
  <2>6. ~(change.repo.dependencies >= 0) /\ ~(change.repo.diagnostics > 0)
        /\ ~Troubled(change.repo.sources) /\ change.repo.cycles = <<>>
    BY <1>6, <2>1, <2>2
  <2>7. change.repo.dependencies < 0 /\ change.repo.diagnostics = 0
    BY <1>5, <2>6 DEF IsRepository
  <2> HIDE DEF applies
  <2> QED
    BY <1>6, <2>1, <2>2, <2>3, <2>5, <2>6, <2>7
<1>8. ASSUME verdict = "BLOCKED"
      PROVE  \/ Troubled(change.repo.sources) \/ change.repo.cycles # <<>>
             \/ change.repo.dependencies >= 0 \/ change.repo.diagnostics > 0
             \/ change.architecture = "BLOCKED" \/ change.contract \in ApiMismatches
  <2>1. applies /\ Blockers # {}
    BY <1>8
  <2>2. \/ checks["audit"].status = "REVIEW" \/ checks["audit"].debt.new # {}
        \/ checks["architecture"] = "BLOCKED" \/ checks["contract"] = "REVIEW"
    BY <2>1 DEF Blockers
  <2> HIDE DEF applies
  <2> QED
    BY <1>6, <2>1, <2>2
<1>9. verdict = "PLANNED" <=> change.phase = "plan"
  <2>1. change.phase = "plan" => ~applies
    OBVIOUS
  <2> QED
    BY <2>1
<1> HIDE DEF verdict
<1> QED
  BY <1>2, <1>4, <1>7, <1>8, <1>9

LEMMA DebtsAreInherited == VerifyInv => DebtIsInherited
<1> SUFFICES ASSUME VerifyInv, Answered, change.tool = "run_audit"
             PROVE  DebtIsInherited
  BY DEF DebtIsInherited
<1> DEFINE repo == change.repo
           options == change.options
           evidence == change.evidence
<1>1. answer = Audited(options, repo, evidence) /\ answer.status # "ERROR"
  BY DEF Answered, VerifyInv, AnswerHasGrounds, AllWereMade, PhaseIsKnown
<1>2. IsRepository(repo)
  BY RepositoriesAreRead
<1> HIDE DEF repo, options, evidence
<1>3. answer.debt = Debt(repo, options.base) /\ answer.tests = TestReport(options, evidence)
  BY <1>1, AuditedTells
<1>4. ASSUME answer.debt.status = "COMPLETE"
      PROVE  LET debt == answer.debt
                 then == Places(repo.before, 0)
             IN  /\ Cardinality(debt.new) + Cardinality(debt.existing)
                      = Cardinality(NowFound(repo)) + Len(repo.cycles)
                 /\ Cardinality(then) <= DebtCap =>
                      \A p \in NowFound(repo) :
                        (\E f \in debt.new : f.at = p)
                          <=> FindingId(repo.sources, p) \notin FindingIds(repo.before, then)
                 /\ ~Review(repo.sources, DebtCap, 0).truncated =>
                      debt.fixed \cap FindingIds(repo.sources, Places(repo.sources, 0)) = {}
  BY <1>2, <1>3, <1>4, DebtTells
<1>5. answer.tests \in {"PASS", "FAIL"} => evidence.revision = "current"
  BY <1>3 DEF TestReport
<1> QED
  BY <1>4, <1>5 DEF DebtIsInherited, NowFound, repo, evidence

(* For every repository, request and bound: a verdict has the reasons it     *)
(* needs, whatever the checks found, and what an audit calls new debt is not *)
(* in the baseline (verified_change, run_audit).                             *)
THEOREM VerdictsAreEarned == VerifySpec => []VerdictIsEarned
<1>1. VerifySpec => []VerifyInv
  BY VerifyStarts, VerifyGoesOn, PTL DEF VerifySpec
<1>2. VerifyInv => VerdictIsEarned
  BY VerdictsAreReasoned, DebtsAreInherited DEF VerdictIsEarned
<1> QED
  BY <1>1, <1>2, PTL

-----------------------------------------------------------------------------
(* map_stacktrace: a frame is the place one line states and the symbol of   *)
(* one line, and what it is mapped to follows from it alone.                *)

StatedSymbols == {Unstated} \cup {trace.lines[k].symbol : k \in DOMAIN trace.lines}
StatedFrames == {FrameOf(trace.lines[k], s) : k \in DOMAIN trace.lines, s \in StatedSymbols}
MappedFrames == {MappedTo(f, shown) : f \in StatedFrames, shown \in SUBSET DOMAIN trace.nodes}

(* The lines that were read that state a symbol, the frames that have it,   *)
(* and whether it still waits for a place.                                  *)
Stating(s) == {k \in 1..linesRead : trace.lines[k].symbol = s}
Having(s) == {k \in DOMAIN frames : frames[k].symbol = s}
Awaiting(s) == IF pending = s THEN 1 ELSE 0

TraceTypes ==
  /\ trace \in Traces /\ reading \in {"lines", "frames", "done"}
  /\ linesRead \in 0..Len(trace.lines) /\ pending \in StatedSymbols
  /\ frames \in Seq(StatedFrames) /\ mapped \in Seq(MappedFrames)

(* A symbol that waits was stated, and is in none of the frames yet.        *)
SymbolsAreCounted ==
  \A s \in StatedSymbols \ {Unstated} :
    Cardinality(Having(s)) + Awaiting(s) <= Cardinality(Stating(s))

FramesInOrder ==
  /\ Len(mapped) <= Len(frames)
  /\ reading = "lines" => mapped = <<>>
  /\ reading = "done" => Len(mapped) = Len(frames)
  /\ \A k \in DOMAIN mapped :
       \E shown \in ShownOf(Hits(frames[k])) : mapped[k] = MappedTo(frames[k], shown)

TraceInv == TraceTypes /\ SymbolsAreCounted /\ FramesInOrder

LEMMA TracesAreRead ==
  ASSUME trace \in Traces
  PROVE  IsTrace(trace)
BY TracesAssumption DEF TracesAssumption

LEMMA TraceStarts == TraceInit => TraceInv
<1> SUFFICES ASSUME TraceInit
             PROVE  TraceInv
  OBVIOUS
<1>1. Len(trace.lines) \in Nat
  BY TracesAreRead DEF TraceInit, IsTrace
<1>2. TraceTypes
  <2>1. <<>> \in Seq(StatedFrames) /\ <<>> \in Seq(MappedFrames)
    OBVIOUS
  <2>2. pending \in StatedSymbols /\ linesRead \in 0..Len(trace.lines)
    BY <1>1 DEF TraceInit, StatedSymbols
  <2> QED
    BY <2>1, <2>2 DEF TraceInit, TraceTypes
<1>3. SymbolsAreCounted
  <2>1. \A s : Having(s) = {} /\ Stating(s) = {}
    BY DEF Having, Stating, TraceInit
  <2>2. \A s : s # Unstated => Awaiting(s) = 0
    BY DEF Awaiting, TraceInit
  <2> QED
    BY <2>1, <2>2, FS_EmptySet DEF SymbolsAreCounted
<1>4. FramesInOrder
  BY DEF FramesInOrder, TraceInit
<1> QED
  BY <1>2, <1>3, <1>4 DEF TraceInv

(* Another line that is read is one more that states its symbol.            *)
LEMMA StatingGrows ==
  ASSUME TraceTypes, linesRead < Len(trace.lines), linesRead' = linesRead + 1, UNCHANGED trace,
         NEW s
  PROVE  /\ Cardinality(Stating(s)) \in Nat
         /\ Cardinality(Stating(s)') =
              Cardinality(Stating(s)) + IF trace.lines[linesRead + 1].symbol = s THEN 1 ELSE 0
<1>1. linesRead \in Nat
  BY TracesAreRead DEF TraceTypes, IsTrace
<1>2. IsFiniteSet(Stating(s)) /\ Cardinality(Stating(s)) \in Nat
  <2>1. IsFiniteSet(1..linesRead) /\ Stating(s) \subseteq 1..linesRead
    BY <1>1, FS_Interval DEF Stating
  <2> QED
    BY <2>1, FS_Subset, FS_CardinalityType
<1>3. linesRead + 1 \notin Stating(s)
  BY <1>1 DEF Stating
<1>4. 1..(linesRead + 1) = (1..linesRead) \cup {linesRead + 1}
  BY <1>1
<1>5. Stating(s)' = IF trace.lines[linesRead + 1].symbol = s THEN Stating(s) \cup {linesRead + 1}
                    ELSE Stating(s)
  BY <1>4 DEF Stating
<1>6. Cardinality(Stating(s) \cup {linesRead + 1}) = Cardinality(Stating(s)) + 1
  BY <1>2, <1>3, FS_AddElement
<1> QED
  BY <1>2, <1>5, <1>6

LEMMA HavingIsCounted ==
  ASSUME frames \in Seq(StatedFrames), NEW s
  PROVE  IsFiniteSet(Having(s)) /\ Cardinality(Having(s)) \in Nat
<1>1. Len(frames) \in Nat /\ DOMAIN frames = 1..Len(frames)
  OBVIOUS
<1>2. IsFiniteSet(1..Len(frames)) /\ Having(s) \subseteq 1..Len(frames)
  BY <1>1, FS_Interval DEF Having
<1> QED
  BY <1>2, FS_Subset, FS_CardinalityType

(* Another frame is one more that has its symbol.                           *)
LEMMA HavingGrows ==
  ASSUME frames \in Seq(StatedFrames), NEW frame \in StatedFrames, frames' = Append(frames, frame), NEW s
  PROVE  Cardinality(Having(s)') = Cardinality(Having(s)) + IF frame.symbol = s THEN 1 ELSE 0
<1>1. Len(frames) \in Nat /\ DOMAIN frames = 1..Len(frames)
  OBVIOUS
<1>2. IsFiniteSet(Having(s)) /\ Cardinality(Having(s)) \in Nat
  BY HavingIsCounted
<1>3. /\ DOMAIN frames' = (1..Len(frames)) \cup {Len(frames) + 1}
      /\ \A k \in 1..Len(frames) : frames'[k] = frames[k]
      /\ frames'[Len(frames) + 1] = frame
  BY <1>1
<1>4. Len(frames) + 1 \notin Having(s)
  BY <1>1 DEF Having
<1>5. Having(s)' = IF frame.symbol = s THEN Having(s) \cup {Len(frames) + 1} ELSE Having(s)
  BY <1>1, <1>3 DEF Having
<1>6. Cardinality(Having(s) \cup {Len(frames) + 1}) = Cardinality(Having(s)) + 1
  BY <1>2, <1>4, FS_AddElement
<1> QED
  BY <1>2, <1>5, <1>6

(* What a frame is mapped to depends on the graph alone.                     *)
LEMMA MappingIsStable ==
  ASSUME UNCHANGED trace, NEW f, NEW shown
  PROVE  MappedTo(f, shown)' = MappedTo(f, shown) /\ Hits(f)' = Hits(f)
<1>1. Environment(f)' = Environment(f)
  BY DEF Environment
<1>2. Hits(f)' = Hits(f)
  BY <1>1 DEF Hits, FileMatches, BestFits, GraphFiles, Fit
<1>3. \A file : /\ NamedIn(file, f)' = NamedIn(file, f)
                /\ AboveIn(file, f)' = AboveIn(file, f)
  BY DEF NamedIn, AboveIn, Declared
<1>4. \A nodes, line : Preferred(nodes, line)' = Preferred(nodes, line)
  BY DEF Preferred, Nearest, Gap
<1>5. \A file : SymbolIn(file, f)' = SymbolIn(file, f)
  BY <1>3, <1>4 DEF SymbolIn
<1> QED
  BY <1>1, <1>2, <1>5 DEF MappedTo

LEMMA LineIsRead ==
  ASSUME TraceTypes, SymbolsAreCounted, ReadLine
  PROVE  TraceTypes' /\ SymbolsAreCounted'
<1> DEFINE line == trace.lines[linesRead + 1]
<1>1. /\ linesRead < Len(trace.lines) /\ linesRead' = linesRead + 1
      /\ UNCHANGED <<trace, reading, mapped>>
  BY DEF ReadLine
<1>2. linesRead + 1 \in DOMAIN trace.lines /\ linesRead' \in 0..Len(trace.lines)
  BY <1>1, TracesAreRead DEF TraceTypes, IsTrace
<1>3. StatedSymbols' = StatedSymbols /\ StatedFrames' = StatedFrames /\ MappedFrames' = MappedFrames
  <2>1. StatedSymbols' = StatedSymbols
    BY <1>1 DEF StatedSymbols
  <2>2. StatedFrames' = StatedFrames
    BY <1>1, <2>1 DEF StatedFrames
  <2>3. \A f, shown : MappedTo(f, shown)' = MappedTo(f, shown)
    BY <1>1, MappingIsStable
  <2> QED
    BY <1>1, <2>1, <2>2, <2>3 DEF MappedFrames
<1>4. line.symbol \in StatedSymbols /\ \A s \in StatedSymbols : FrameOf(line, s) \in StatedFrames
  <2>1. line.symbol \in StatedSymbols
    BY <1>2 DEF StatedSymbols
  <2>2. \A s \in StatedSymbols : FrameOf(line, s) \in StatedFrames
    BY <1>2 DEF StatedFrames
  <2> QED
    BY <2>1, <2>2
<1>5. /\ \A s : Cardinality(Stating(s)) \in Nat
      /\ \A s : Cardinality(Stating(s)') = Cardinality(Stating(s)) + IF line.symbol = s THEN 1 ELSE 0
  BY <1>1, StatingGrows
<1>6. frames \in Seq(StatedFrames) /\ pending \in StatedSymbols /\ mapped' \in Seq(MappedFrames')
  BY <1>1, <1>3 DEF TraceTypes
<1>7. \A s \in StatedSymbols \ {Unstated} : Cardinality(Having(s)) + Awaiting(s) <= Cardinality(Stating(s))
  BY DEF SymbolsAreCounted
<1>8. \A s : Cardinality(Having(s)) \in Nat
  BY <1>6, HavingIsCounted
<1>9. ASSUME NEW symbol \in StatedSymbols, Take(line, symbol),
             symbol # Unstated => symbol \in {line.symbol, pending}
      PROVE  TraceTypes' /\ SymbolsAreCounted'
  <2>1. frames' = Append(frames, FrameOf(line, symbol)) /\ pending' = Unstated
    BY <1>9 DEF Take
  <2>2. frames' \in Seq(StatedFrames') /\ pending' \in StatedSymbols'
    <3>1. frames' \in Seq(StatedFrames)
      BY <1>4, <1>6, <2>1
    <3> QED
      BY <1>3, <2>1, <3>1 DEF StatedSymbols
  <2>3. TraceTypes'
    BY <1>1, <1>2, <1>6, <2>2 DEF TraceTypes
  <2>4. FrameOf(line, symbol).symbol = symbol
    BY DEF FrameOf
  <2>5. \A s : Cardinality(Having(s)') = Cardinality(Having(s)) + IF symbol = s THEN 1 ELSE 0
    BY <1>4, <1>6, <2>1, <2>4, HavingGrows
  <2>6. ASSUME NEW s \in StatedSymbols \ {Unstated}
        PROVE  Cardinality(Having(s)') + Awaiting(s)' <= Cardinality(Stating(s)')
    <3>1. Awaiting(s)' = 0
      BY <2>1 DEF Awaiting
    <3>2. symbol = s => line.symbol = s \/ Awaiting(s) = 1
      BY <1>9, <2>6 DEF Awaiting
    <3>3. Awaiting(s) \in {0, 1}
      BY DEF Awaiting
    <3> HIDE DEF line
    <3> QED
      BY <1>5, <1>7, <1>8, <2>5, <2>6, <3>1, <3>2, <3>3
  <2> QED
    BY <1>3, <2>3, <2>6 DEF SymbolsAreCounted
<1>10. ASSUME frames' = frames, pending' \in {pending, line.symbol}
       PROVE  TraceTypes' /\ SymbolsAreCounted'
  <2>1. TraceTypes'
    BY <1>1, <1>2, <1>3, <1>4, <1>6, <1>10 DEF TraceTypes
  <2>2. \A s : Having(s)' = Having(s)
    BY <1>10 DEF Having
  <2>3. ASSUME NEW s \in StatedSymbols \ {Unstated}
        PROVE  Cardinality(Having(s)') + Awaiting(s)' <= Cardinality(Stating(s)')
    <3>1. Awaiting(s)' \in {0, 1} /\ Awaiting(s) \in {0, 1}
      BY DEF Awaiting
    <3>2. Awaiting(s)' = 1 => line.symbol = s \/ Awaiting(s) = 1
      BY <1>10 DEF Awaiting
    <3> HIDE DEF line
    <3> QED
      BY <1>5, <1>7, <1>8, <2>2, <2>3, <3>1, <3>2
  <2> QED
    BY <1>3, <2>1, <2>3 DEF SymbolsAreCounted
<1>11. \/ Take(line, line.symbol) \/ Take(line, Unstated) \/ Take(line, SymbolAt(line))
       \/ frames' = frames /\ pending' \in {pending, line.symbol}
  BY DEF ReadLine, At
<1>12. SymbolAt(line) \in {line.symbol, pending} /\ Unstated \in StatedSymbols
  BY DEF SymbolAt, StatedSymbols
<1> HIDE DEF line
<1> QED
  BY <1>4, <1>6, <1>9, <1>10, <1>11, <1>12

LEMMA HitsAreFiles == \A f : Hits(f) \subseteq GraphFiles /\ GraphFiles \subseteq DOMAIN trace.nodes
BY DEF Hits, FileMatches, BestFits, GraphFiles

LEMMA FrameIsMapped ==
  ASSUME TraceInv, MapFrame
  PROVE  TraceInv'
<1> DEFINE frame == frames[Len(mapped) + 1]
<1>1. /\ reading = "frames" /\ Len(mapped) < Len(frames)
      /\ UNCHANGED <<trace, reading, linesRead, pending, frames>>
  BY DEF MapFrame
<1>2. PICK shown \in ShownOf(Hits(frame)) : mapped' = Append(mapped, MappedTo(frame, shown))
  BY DEF MapFrame
<1>3. TraceTypes /\ SymbolsAreCounted /\ FramesInOrder
  BY DEF TraceInv
<1>4. frames \in Seq(StatedFrames) /\ mapped \in Seq(MappedFrames)
  BY <1>3 DEF TraceTypes
<1>5. Len(mapped) + 1 \in DOMAIN frames /\ frame \in StatedFrames
  BY <1>1, <1>4
<1>6. \A f, s : MappedTo(f, s)' = MappedTo(f, s) /\ Hits(f)' = Hits(f)
  BY <1>1, MappingIsStable
<1>7. StatedSymbols' = StatedSymbols /\ StatedFrames' = StatedFrames
  <2>1. StatedSymbols' = StatedSymbols
    BY <1>1 DEF StatedSymbols
  <2> QED
    BY <1>1, <2>1 DEF StatedFrames
<1>8. MappedFrames' = MappedFrames
  BY <1>1, <1>6, <1>7 DEF MappedFrames
<1>9. MappedTo(frame, shown) \in MappedFrames
  <2>1. shown \subseteq Hits(frame)
    BY <1>2 DEF ShownOf
  <2>2. shown \in SUBSET DOMAIN trace.nodes
    BY <2>1, HitsAreFiles
  <2> HIDE DEF frame
  <2> QED
    BY <1>5, <2>2 DEF MappedFrames
<1> HIDE DEF frame
<1>10. /\ mapped' \in Seq(MappedFrames) /\ Len(mapped') = Len(mapped) + 1
       /\ \A k \in DOMAIN mapped : mapped'[k] = mapped[k]
       /\ mapped'[Len(mapped) + 1] = MappedTo(frame, shown)
       /\ DOMAIN mapped' = (DOMAIN mapped) \cup {Len(mapped) + 1}
  BY <1>2, <1>4, <1>9
<1>11. TraceTypes'
  <2>1. trace' \in Traces /\ reading' \in {"lines", "frames", "done"} /\ linesRead' \in 0..Len(trace'.lines)
    BY <1>1, <1>3 DEF TraceTypes
  <2>2. pending' \in StatedSymbols' /\ frames' \in Seq(StatedFrames') /\ mapped' \in Seq(MappedFrames')
    BY <1>1, <1>3, <1>7, <1>8, <1>10 DEF TraceTypes
  <2> QED
    BY <2>1, <2>2 DEF TraceTypes
<1>12. SymbolsAreCounted'
  <2>1. \A s : Having(s)' = Having(s) /\ Awaiting(s)' = Awaiting(s) /\ Stating(s)' = Stating(s)
    BY <1>1 DEF Having, Awaiting, Stating
  <2> QED
    BY <1>3, <1>7, <2>1 DEF SymbolsAreCounted
<1>13. FramesInOrder'
  <2>1. Len(mapped') <= Len(frames')
    BY <1>1, <1>4, <1>10
  <2>2. reading' \notin {"lines", "done"}
    BY <1>1
  <2>3. ASSUME NEW k \in DOMAIN mapped'
        PROVE  \E c \in ShownOf(Hits(frames[k])) : mapped'[k] = MappedTo(frames[k], c)
    <3>1. CASE k \in DOMAIN mapped
      BY <1>3, <1>10, <3>1 DEF FramesInOrder
    <3>2. CASE k = Len(mapped) + 1
      BY <1>2, <1>10, <3>2 DEF frame
    <3> QED
      BY <1>10, <3>1, <3>2
  <2>4. \A k \in DOMAIN mapped' :
          (\E c \in ShownOf(Hits(frames[k])) : mapped[k] = MappedTo(frames[k], c))'
    BY <1>1, <1>6, <2>3 DEF ShownOf, IsOne
  <2> QED
    BY <2>1, <2>2, <2>4 DEF FramesInOrder
<1> QED
  BY <1>11, <1>12, <1>13 DEF TraceInv

LEMMA TraceGoesOn == TraceInv /\ [TraceNext]_traceVars => TraceInv'
<1> SUFFICES ASSUME TraceInv, [TraceNext]_traceVars
             PROVE  TraceInv'
  OBVIOUS
<1>1. TraceTypes /\ SymbolsAreCounted /\ FramesInOrder
  BY DEF TraceInv
<1>2. CASE ReadLine
  <2>1. TraceTypes' /\ SymbolsAreCounted'
    BY <1>1, <1>2, LineIsRead
  <2>2. reading' = "lines" /\ mapped' = <<>>
    BY <1>1, <1>2 DEF ReadLine, FramesInOrder
  <2>3. Len(frames') \in Nat
    BY <2>1 DEF TraceTypes
  <2>4. FramesInOrder'
    BY <2>2, <2>3 DEF FramesInOrder
  <2> QED
    BY <2>1, <2>4 DEF TraceInv
<1>3. CASE MapFrame
  BY <1>3, FrameIsMapped
<1>4. ASSUME UNCHANGED <<trace, linesRead, pending, frames, mapped>>,
             reading' \in {"lines", "frames", "done"},
             reading' = "lines" => reading = "lines",
             reading' = "done" => Len(mapped) = Len(frames)
      PROVE  TraceInv'
  <2>1. StatedSymbols' = StatedSymbols
    BY <1>4 DEF StatedSymbols
  <2>2. StatedFrames' = StatedFrames
    BY <1>4, <2>1 DEF StatedFrames
  <2>3. \A f, s : MappedTo(f, s)' = MappedTo(f, s) /\ Hits(f)' = Hits(f)
    BY <1>4, MappingIsStable
  <2>4. MappedFrames' = MappedFrames
    BY <1>4, <2>2, <2>3 DEF MappedFrames
  <2>5. TraceTypes'
    BY <1>1, <1>4, <2>1, <2>2, <2>4 DEF TraceTypes
  <2>6. \A s : Having(s)' = Having(s) /\ Awaiting(s)' = Awaiting(s) /\ Stating(s)' = Stating(s)
    BY <1>4 DEF Having, Awaiting, Stating
  <2>7. SymbolsAreCounted'
    BY <1>1, <2>1, <2>6 DEF SymbolsAreCounted
  <2>8. \A k \in DOMAIN mapped :
          (\E shown \in ShownOf(Hits(frames[k])) : mapped[k] = MappedTo(frames[k], shown))'
    BY <1>1, <1>4, <2>3 DEF FramesInOrder, ShownOf, IsOne
  <2>9. FramesInOrder'
    BY <1>1, <1>4, <2>8 DEF FramesInOrder
  <2> QED
    BY <2>5, <2>7, <2>9 DEF TraceInv
<1>5. CASE EndLines
  BY <1>4, <1>5 DEF EndLines
<1>6. CASE EndFrames
  BY <1>4, <1>6 DEF EndFrames
<1>7. CASE UNCHANGED traceVars
  BY <1>1, <1>4, <1>7 DEF traceVars, TraceTypes, FramesInOrder
<1> QED
  BY <1>2, <1>3, <1>5, <1>6, <1>7 DEF TraceNext

LEMMA EnvironmentIsKnown ==
  ASSUME NEW frame
  PROVE  /\ Environment(frame) \in {"dependency", "runtime", "unlocated", Unstated}
         /\ Environment(frame) = Unstated => frame.path # Unstated /\ frame.path # <<>>
BY TracesAssumption DEF Environment, TracesAssumption

(* Paths that overlap end in the same segment.                              *)
LEMMA OverlapTells ==
  ASSUME NEW label \in Seq(STRING), NEW path \in Seq(STRING)
  PROVE  /\ Overlap(label, path) \in Nat
         /\ Overlap(label, path) > 0 => Last(label) = Last(path)
<1>1. Len(label) \in Nat /\ Len(path) \in Nat
  OBVIOUS
<1>2. Parts(label, path) \subseteq Nat /\ Len(label) \in Parts(label, path)
  BY <1>1 DEF Parts
<1>3. \E k \in Parts(label, path) : \A j \in Parts(label, path) : k <= j
  BY <1>2, SmallestOfNumbers
<1>4. /\ Overlap(label, path) \in Parts(label, path)
      /\ \A j \in Parts(label, path) : Overlap(label, path) <= j
  BY <1>3 DEF Overlap
<1>5. Overlap(label, path) \in Nat
  BY <1>2, <1>4
<1>6. ASSUME Overlap(label, path) > 0
      PROVE  Last(label) = Last(path)
  <2>1. 0 \notin Parts(label, path)
    BY <1>4, <1>5, <1>6
  <2>2. Len(label) - 0 = Len(label) /\ Len(path) - 0 = Len(path) /\ 0 \in 0..Len(label)
    BY <1>1
  <2>3. label[Len(label)] = path[Len(path)]
    BY <2>1, <2>2 DEF Parts
  <2> QED
    BY <2>3 DEF Last
<1> QED
  BY <1>5, <1>6

(* The path and the line of a frame are those of a line of the trace.       *)
LEMMA FramesAreStated ==
  ASSUME trace \in Traces, NEW frame \in StatedFrames
  PROVE  /\ frame.path = Unstated \/ frame.path \in Seq(STRING)
         /\ frame.line = Unstated \/ frame.line \in Nat
<1>1. PICK k \in DOMAIN trace.lines, s \in StatedSymbols : frame = FrameOf(trace.lines[k], s)
  BY DEF StatedFrames
<1> DEFINE line == trace.lines[k]
<1>2. line.path = Unstated \/ line.path \in Seq(STRING)
  BY TracesAreRead DEF IsTrace
<1>3. line.numbers \in Seq(Nat)
  BY TracesAreRead DEF IsTrace
<1>4. frame.path = line.path /\ frame.line = IF line.path = Unstated THEN Unstated ELSE LineOf(line)
  BY <1>1 DEF FrameOf
<1> HIDE DEF line
<1>5. LineOf(line) = Unstated \/ LineOf(line) \in Nat
  BY <1>3 DEF LineOf
<1> QED
  BY <1>2, <1>4, <1>5

LEMMA FitTells ==
  ASSUME trace \in Traces, NEW frame, frame.path \in Seq(STRING), NEW f \in GraphFiles
  PROVE  /\ trace.nodes[f].label \in Seq(STRING) /\ Fit(f, frame) \in Nat
         /\ Fit(f, frame) > 0 => Last(trace.nodes[f].label) = Last(frame.path)
<1>1. trace.nodes[f].label \in Seq(STRING)
  BY TracesAreRead DEF IsTrace, GraphFiles
<1> QED
  BY <1>1, OverlapTells DEF Fit

(* Of declarations one is preferred that is as near as any.                 *)
LEMMA PreferredTells ==
  ASSUME trace \in Traces, NEW S, S # {}, S \subseteq DOMAIN trace.nodes,
         \A k \in S : trace.nodes[k].line # Unstated,
         NEW line, line = Unstated \/ line \in Nat
  PROVE  /\ Preferred(S, line) \in S
         /\ line # Unstated => \A i \in S : Gap(Preferred(S, line), line) <= Gap(i, line)
<1>1. IsTrace(trace)
  BY TracesAreRead
<1>2. S \subseteq Nat /\ \A k \in S : trace.nodes[k].line \in Nat
  BY <1>1 DEF IsTrace
<1>3. Nearest(S, line) # {} /\ Nearest(S, line) \subseteq S
  <2>1. CASE line = Unstated
    BY <2>1 DEF Nearest
  <2>2. CASE line # Unstated
    <3> DEFINE gaps == {Gap(k, line) : k \in S}
    <3>1. line \in Nat
      BY <2>2
    <3>2. \A k \in S : Gap(k, line) \in Nat
      BY <1>2, <3>1 DEF Gap
    <3>3. PICK g \in gaps : \A h \in gaps : g <= h
      <4>1. gaps \subseteq Nat /\ gaps # {}
        BY <3>2
      <4> HIDE DEF gaps
      <4> QED
        BY <4>1, SmallestOfNumbers
    <3>4. PICK k \in S : g = Gap(k, line)
      OBVIOUS
    <3>5. \A i \in S : Gap(k, line) <= Gap(i, line)
      BY <3>3, <3>4
    <3>6. k \in Nearest(S, line)
      BY <2>2, <3>5 DEF Nearest
    <3> QED
      BY <2>2, <3>6 DEF Nearest
  <2> QED
    BY <2>1, <2>2
<1>4. \E k \in Nearest(S, line) : \A i \in Nearest(S, line) : k <= i
  BY <1>2, <1>3, SmallestOfNumbers
<1>5. Preferred(S, line) \in Nearest(S, line)
  BY <1>4 DEF Preferred
<1> QED
  BY <1>3, <1>5 DEF Nearest

(* What one file that was hit is mapped to.                                 *)
LEMMA HitIsBest ==
  ASSUME trace \in Traces, NEW frame, frame.path \in Seq(STRING), NEW f, Hits(frame) = {f}
  PROVE  /\ f \in GraphFiles /\ Last(trace.nodes[f].label) = Last(frame.path)
         /\ \A g \in GraphFiles : g # f =>
              \/ Fit(g, frame) < Fit(f, frame)
              \/ /\ Holds(trace.nodes[f].label, PackagePath(frame))
                 /\ ~Holds(trace.nodes[g].label, PackagePath(frame))
<1>1. Hits(frame) = FileMatches(frame)
  BY DEF Hits
<1>2. f \in BestFits(frame) /\ f \in FileMatches(frame)
  BY <1>1 DEF FileMatches
<1>3. f \in GraphFiles /\ Fit(f, frame) > 0 /\ \A g \in GraphFiles : Fit(g, frame) <= Fit(f, frame)
  BY <1>2 DEF BestFits
<1>4. ASSUME NEW g \in GraphFiles, g # f, ~(Fit(g, frame) < Fit(f, frame))
      PROVE  /\ Holds(trace.nodes[f].label, PackagePath(frame))
             /\ ~Holds(trace.nodes[g].label, PackagePath(frame))
  <2>1. Fit(g, frame) \in Nat /\ Fit(f, frame) \in Nat
    BY <1>3, FitTells
  <2>2. Fit(g, frame) = Fit(f, frame)
    BY <1>3, <1>4, <2>1
  <2>3. g \in BestFits(frame)
    BY <1>3, <2>2 DEF BestFits
  <2>4. g \notin FileMatches(frame)
    BY <1>1, <1>4
  <2> QED
    BY <1>2, <2>3, <2>4 DEF FileMatches
<1>5. Last(trace.nodes[f].label) = Last(frame.path)
  BY <1>3, FitTells
<1> QED
  BY <1>3, <1>4, <1>5

LEMMA FilesAreBest ==
  ASSUME trace \in Traces, NEW frame \in StatedFrames, NEW shown \in ShownOf(Hits(frame))
  PROVE  FileIsBest(MappedTo(frame, shown))
<1> DEFINE m == MappedTo(frame, shown)
           hits == Hits(frame)
<1>1. /\ m.frame = frame /\ m.candidates = shown
      /\ m.file = IF IsOne(hits) THEN trace.nodes[CHOOSE f \in hits : TRUE].label ELSE Unstated
      /\ m.class = CASE Environment(frame) # Unstated -> Environment(frame)
                     [] Environment(frame) = Unstated /\ IsOne(hits) -> "repository"
                     [] Environment(frame) = Unstated /\ hits = {} -> "external"
                     [] OTHER -> "ambiguous"
  BY DEF MappedTo
<1>2. /\ Environment(frame) \in {"dependency", "runtime", "unlocated", Unstated}
      /\ Environment(frame) = Unstated => frame.path \in Seq(STRING)
  BY EnvironmentIsKnown, FramesAreStated
<1>3. hits # {} => Environment(frame) = Unstated
  BY DEF Hits
<1>4. IsOne(hits) => hits # {}
  BY DEF IsOne
<1>5. IsOne(hits) => m.class = "repository"
  BY <1>1, <1>3, <1>4
<1>6. ~IsOne(hits) => m.class # "repository"
  <2>1. CASE Environment(frame) # Unstated
    BY <1>1, <1>2, <2>1
  <2>2. CASE Environment(frame) = Unstated /\ ~IsOne(hits)
    BY <1>1, <2>2
  <2> QED
    BY <2>1, <2>2
<1>7. ASSUME IsOne(hits)
      PROVE  \E f \in GraphFiles : hits = {f} /\ m.file = trace.nodes[f].label
  <2>1. PICK f \in hits : hits = {f}
    BY <1>7 DEF IsOne
  <2>2. f \in GraphFiles
    BY HitsAreFiles
  <2>3. (CHOOSE g \in hits : TRUE) = f
    BY <2>1
  <2> HIDE DEF m
  <2> QED
    BY <1>1, <1>7, <2>1, <2>2, <2>3
<1>8. ASSUME IsOne(hits)
      PROVE  /\ m.file # Unstated /\ Environment(frame) = Unstated /\ Last(m.file) = Last(frame.path)
             /\ \A g \in GraphFiles : trace.nodes[g].label # m.file =>
                  \/ Fit(g, frame) < Overlap(m.file, frame.path)
                  \/ (Holds(m.file, PackagePath(frame)) /\ ~Holds(trace.nodes[g].label, PackagePath(frame)))
  <2>1. PICK f \in GraphFiles : hits = {f} /\ m.file = trace.nodes[f].label
    BY <1>7, <1>8
  <2>2. Environment(frame) = Unstated /\ frame.path \in Seq(STRING)
    BY <1>2, <1>3, <1>4, <1>8
  <2>3. m.file # Unstated
    <3>1. trace.nodes[f].label \in Seq(STRING)
      BY <2>2, FitTells
    <3> QED
      BY <2>1, <3>1, TracesAssumption DEF TracesAssumption
  <2>4. Overlap(m.file, frame.path) = Fit(f, frame)
    BY <2>1 DEF Fit
  <2> HIDE DEF m
  <2>5. Last(m.file) = Last(frame.path)
    BY <2>1, <2>2, HitIsBest
  <2>6. ASSUME NEW g \in GraphFiles, trace.nodes[g].label # m.file
        PROVE  \/ Fit(g, frame) < Fit(f, frame)
               \/ (Holds(m.file, PackagePath(frame)) /\ ~Holds(trace.nodes[g].label, PackagePath(frame)))
    BY <2>1, <2>2, <2>6, HitIsBest
  <2> QED
    BY <2>2, <2>3, <2>4, <2>5, <2>6
<1>9. ~IsOne(hits) => m.file = Unstated
  BY <1>1
<1>10. ASSUME NEW c \in shown
       PROVE  c \in GraphFiles /\ \A g \in GraphFiles : Fit(g, frame) <= Fit(c, frame)
  <2>1. c \in Hits(frame)
    BY <1>10 DEF ShownOf
  <2>2. c \in FileMatches(frame)
    BY <2>1 DEF Hits
  <2> QED
    BY <2>2 DEF FileMatches, BestFits
<1> HIDE DEF m, hits
<1>11. m.file # Unstated <=> m.class = "repository"
  BY <1>5, <1>6, <1>8, <1>9
<1>12. m.class = "repository" => IsOne(hits)
  BY <1>6
<1>13. FileIsBest(m)
  BY <1>1, <1>8, <1>10, <1>11, <1>12 DEF FileIsBest
<1> QED
  BY <1>13 DEF m

(* What a frame and its file say of the symbol.                             *)
LEMMA SymbolTells ==
  ASSUME trace \in Traces, NEW frame \in StatedFrames, NEW file, SymbolIn(file, frame).node # Unstated
  PROVE  LET symbol == SymbolIn(file, frame)
         IN  /\ symbol.node.file = file /\ symbol.by \in {"name", "nearest_declaration"}
             /\ symbol.by = "name" =>
                  /\ symbol.node.label = Last(frame.symbol.parts)
                  /\ frame.line # Unstated => \A k \in NamedIn(file, frame) :
                       Gap(k, frame.line) >= IF symbol.node.line > frame.line THEN symbol.node.line - frame.line
                                             ELSE frame.line - symbol.node.line
             /\ symbol.by = "nearest_declaration" =>
                  /\ NamedIn(file, frame) = {} /\ symbol.node.line <= frame.line
                  /\ ~\E k \in Declared(file) :
                       symbol.node.line < trace.nodes[k].line /\ trace.nodes[k].line <= frame.line
<1>1. IsTrace(trace)
  BY TracesAreRead
<1>2. frame.line = Unstated \/ frame.line \in Nat
  BY FramesAreStated
<1>3. /\ \A k \in Declared(file) : k \in DOMAIN trace.nodes /\ trace.nodes[k].line \in Nat
      /\ \A k \in Declared(file) : trace.nodes[k].line # Unstated /\ trace.nodes[k].file = file
      /\ NamedIn(file, frame) \subseteq Declared(file) /\ AboveIn(file, frame) \subseteq Declared(file)
  BY <1>1 DEF IsTrace, Declared, NamedIn, AboveIn
<1>4. CASE NamedIn(file, frame) # {}
  <2> DEFINE named == NamedIn(file, frame)
             k == Preferred(named, frame.line)
  <2>1. k \in named /\ (frame.line # Unstated => \A i \in named : Gap(k, frame.line) <= Gap(i, frame.line))
    BY <1>2, <1>3, <1>4, PreferredTells
  <2>2. SymbolIn(file, frame) = [node |-> trace.nodes[k], by |-> "name"]
    BY <1>4 DEF SymbolIn
  <2>3. trace.nodes[k].label = Last(frame.symbol.parts) /\ trace.nodes[k].file = file
    BY <1>3, <2>1 DEF NamedIn
  <2>4. ASSUME frame.line # Unstated, NEW i \in named
        PROVE  Gap(i, frame.line) >= Gap(k, frame.line)
    <3>1. frame.line \in Nat /\ trace.nodes[k].line \in Nat /\ trace.nodes[i].line \in Nat
      BY <1>2, <1>3, <2>1, <2>4
    <3>2. Gap(k, frame.line) \in Nat /\ Gap(i, frame.line) \in Nat
      BY <3>1 DEF Gap
    <3> QED
      BY <2>1, <2>4, <3>2
  <2>5. Gap(k, frame.line) = IF trace.nodes[k].line > frame.line THEN trace.nodes[k].line - frame.line
                             ELSE frame.line - trace.nodes[k].line
    BY DEF Gap
  <2> HIDE DEF k
  <2> QED
    BY <2>2, <2>3, <2>4, <2>5
<1>5. CASE NamedIn(file, frame) = {} /\ AboveIn(file, frame) # {}
  <2> DEFINE above == AboveIn(file, frame)
             k == Preferred(above, frame.line)
  <2>1. k \in above /\ (frame.line # Unstated => \A i \in above : Gap(k, frame.line) <= Gap(i, frame.line))
    BY <1>2, <1>3, <1>5, PreferredTells
  <2>2. SymbolIn(file, frame) = [node |-> trace.nodes[k], by |-> "nearest_declaration"]
    BY <1>5 DEF SymbolIn
  <2>3. /\ frame.line \in Nat /\ trace.nodes[k].line \in Nat /\ trace.nodes[k].line <= frame.line
        /\ trace.nodes[k].file = file /\ frame.line # Unstated
    BY <1>2, <1>3, <2>1 DEF AboveIn
  <2>4. ASSUME NEW i \in Declared(file), trace.nodes[k].line < trace.nodes[i].line,
               trace.nodes[i].line <= frame.line
        PROVE  FALSE
    <3>1. i \in above /\ trace.nodes[i].line \in Nat
      BY <1>3, <2>3, <2>4 DEF AboveIn
    <3>2. Gap(k, frame.line) <= Gap(i, frame.line)
      BY <2>1, <2>3, <3>1
    <3>3. /\ Gap(k, frame.line) = frame.line - trace.nodes[k].line
          /\ Gap(i, frame.line) = frame.line - trace.nodes[i].line
      BY <2>3, <2>4, <3>1 DEF Gap
    <3> QED
      BY <2>3, <2>4, <3>1, <3>2, <3>3
  <2> HIDE DEF k
  <2> QED
    BY <1>5, <2>2, <2>3, <2>4
<1>6. CASE NamedIn(file, frame) = {} /\ AboveIn(file, frame) = {}
  BY <1>6 DEF SymbolIn
<1> QED
  BY <1>4, <1>5, <1>6

LEMMA NodesAreNearest ==
  ASSUME trace \in Traces, NEW frame \in StatedFrames, NEW shown
  PROVE  NodeIsNearest(MappedTo(frame, shown))
<1> DEFINE m == MappedTo(frame, shown)
           file == trace.nodes[CHOOSE f \in Hits(frame) : TRUE].label
<1>1. CASE IsOne(Hits(frame))
  <2>1. /\ m.frame = frame /\ m.file = file
        /\ m.node = SymbolIn(file, frame).node /\ m.by = SymbolIn(file, frame).by
    BY <1>1 DEF MappedTo
  <2> HIDE DEF m, file
  <2>2. NodeIsNearest(m)
    BY <2>1, SymbolTells DEF NodeIsNearest
  <2> QED
    BY <2>2 DEF m
<1>2. CASE ~IsOne(Hits(frame))
  <2>1. m.node = Unstated
    BY <1>2 DEF MappedTo
  <2> QED
    BY <2>1 DEF NodeIsNearest
<1> QED
  BY <1>1, <1>2

LEMMA StatedOften == TraceInv /\ reading = "done" => SymbolsAreStated
<1> SUFFICES ASSUME TraceInv, reading = "done",
                    NEW j \in DOMAIN trace.lines, trace.lines[j].form = "numbered"
             PROVE  LET s == trace.lines[j].symbol
                    IN  Cardinality({k \in DOMAIN mapped : mapped[k].frame.symbol = s})
                          <= Cardinality({k \in DOMAIN trace.lines : trace.lines[k].symbol = s})
  BY DEF SymbolsAreStated
<1> DEFINE s == trace.lines[j].symbol
           stating == {k \in DOMAIN trace.lines : trace.lines[k].symbol = s}
           mapping == {k \in DOMAIN mapped : mapped[k].frame.symbol = s}
<1>1. TraceTypes /\ SymbolsAreCounted /\ FramesInOrder
  BY DEF TraceInv
<1>2. IsTrace(trace)
  BY <1>1, TracesAreRead DEF TraceTypes
<1>3. s \in StatedSymbols \ {Unstated}
  BY <1>2 DEF IsTrace, StatedSymbols
<1>4. mapping = Having(s)
  <2>1. DOMAIN mapped = DOMAIN frames
    BY <1>1 DEF FramesInOrder, TraceTypes
  <2>2. ASSUME NEW k \in DOMAIN mapped
        PROVE  mapped[k].frame = frames[k]
    BY <1>1 DEF FramesInOrder, MappedTo
  <2> HIDE DEF s
  <2> QED
    BY <2>1, <2>2 DEF Having
<1>5. /\ Cardinality(Stating(s)) <= Cardinality(stating)
      /\ IsFiniteSet(stating) /\ Stating(s) \subseteq stating
  <2>1. /\ Len(trace.lines) \in Nat /\ DOMAIN trace.lines = 1..Len(trace.lines)
        /\ linesRead \in 0..Len(trace.lines)
    BY <1>1, <1>2 DEF IsTrace, TraceTypes
  <2>2. Stating(s) \subseteq stating
    BY <2>1 DEF Stating
  <2>3. IsFiniteSet(1..Len(trace.lines)) /\ stating \subseteq 1..Len(trace.lines)
    BY <2>1, FS_Interval
  <2> HIDE DEF stating
  <2> QED
    BY <2>2, <2>3, FS_Subset
<1>6. Cardinality(Having(s)) + Awaiting(s) <= Cardinality(Stating(s))
  BY <1>1, <1>3 DEF SymbolsAreCounted
<1>7. Cardinality(Having(s)) \in Nat /\ Awaiting(s) \in {0, 1}
      /\ Cardinality(Stating(s)) \in Nat /\ Cardinality(stating) \in Nat
  <2>1. Cardinality(Having(s)) \in Nat
    BY <1>1, HavingIsCounted DEF TraceTypes
  <2>2. IsFiniteSet(stating) /\ Stating(s) \subseteq stating
    BY <1>5
  <2>3. Cardinality(Stating(s)) \in Nat /\ Cardinality(stating) \in Nat
    BY <2>2, FS_Subset, FS_CardinalityType
  <2>4. Awaiting(s) \in {0, 1}
    BY DEF Awaiting
  <2> QED
    BY <2>1, <2>3, <2>4
<1> HIDE DEF s, stating, mapping
<1>8. Cardinality(mapping) <= Cardinality(stating)
  BY <1>4, <1>5, <1>6, <1>7
<1> QED
  BY <1>8 DEF s, stating, mapping

(* For every trace and every graph: a frame that is mapped names a file that *)
(* no other fits as well, a declaration of that file that is nearest to what *)
(* the frame states, and a symbol that is the trace's own (map_stacktrace).  *)
THEOREM TracesAreMapped == TraceSpec => []FramesAreMapped
<1>1. TraceSpec => []TraceInv
  BY TraceStarts, TraceGoesOn, PTL DEF TraceSpec
<1>2. TraceInv => FramesAreMapped
  <2> SUFFICES ASSUME TraceInv, reading = "done"
               PROVE  (\A m \in Range(mapped) : FileIsBest(m) /\ NodeIsNearest(m)) /\ SymbolsAreStated
    BY DEF FramesAreMapped
  <2>1. TraceTypes /\ FramesInOrder
    BY DEF TraceInv
  <2>2. ASSUME NEW k \in DOMAIN mapped
        PROVE  FileIsBest(mapped[k]) /\ NodeIsNearest(mapped[k])
    <3>1. PICK shown \in ShownOf(Hits(frames[k])) : mapped[k] = MappedTo(frames[k], shown)
      BY <2>1 DEF FramesInOrder
    <3>2. trace \in Traces /\ frames[k] \in StatedFrames
      BY <2>1 DEF TraceTypes, FramesInOrder
    <3> QED
      BY <3>1, <3>2, FilesAreBest, NodesAreNearest
  <2> QED
    BY <2>2, StatedOften DEF Range
<1> QED
  BY <1>1, <1>2, PTL
=============================================================================
