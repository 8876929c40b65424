-------------------------- MODULE GraphWalkProofs --------------------------
(* What a bounded walk claims, for every graph, every limit, both modes and *)
(* every order in which edges are listed. After it, where the event calls   *)
(* of a source file come from: no side of a contract that is found in it is *)
(* without evidence. And, of the sides of all repositories, that what is    *)
(* said of producers and consumers is true of them.                         *)
EXTENDS GraphWalk, TransportExtraction, TransportContracts, DataInduction, FiniteSetTheorems, TLAPS

Entries(n) == {e \in EdgeIds : \E side \in {"out", "in"} : <<e, side>> \in Adjacent(n)}

(* An edge of a node has been followed, or the filter drops it. *)
Followed(n, e) == Keep(e) => e \in edges /\ Neighbor(n, e) \in Seen

(* Expanding goes over the edges of a node that may conduct. *)
ExpandsConductor ==
  phase = "expanding" =>
    /\ at \in Seen /\ Conducts(at) /\ distance[at] < request.depth
    /\ left \subseteq Adjacent(at)

(* While no limit has cut the walk, every node seen is queued, being        *)
(* expanded, not conducting or followed along every edge; of the node being *)
(* expanded, every edge but those left.                                     *)
Accounted ==
  stop = "COMPLETE" =>
    /\ frontier = {}
    /\ \A n \in Seen :
         \/ n \in Range(queue) \/ (phase = "expanding" /\ n = at) \/ ~Conducts(n)
         \/ \A e \in Entries(n) : Followed(n, e)
    /\ phase = "expanding" =>
         \A e \in EdgeIds, side \in {"out", "in"} :
           <<e, side>> \in Adjacent(at) \ left => Followed(at, e)
    /\ phase \in {"walked", "answered"} => queue = <<>>

IInv ==
  /\ TypeOK /\ IsFiniteSet(Seen) /\ ExpandsConductor /\ Accounted
  /\ EdgesJoinSeenNodes /\ SeenIsReachable /\ LimitsAreKept

(* Both ends of an edge in the adjacency of a node are it and its neighbor. *)
LEMMA EntryEnds ==
  ASSUME TypeOK, NEW n \in Nodes, NEW e \in Entries(n)
  PROVE  /\ Neighbor(n, e) \in Nodes
         /\ {net[e].from, net[e].to} = {n, Neighbor(n, e)}
<1>1. net[e].from \in Nodes /\ net[e].to \in Nodes
  BY WalkAssumption DEF TypeOK, Entries
<1> QED
  BY <1>1 DEF Entries, Adjacent, Neighbor

(* The edges the walk keeps of a node are its entries that pass the filter. *)
LEMMA KeptEntries ==
  ASSUME NEW n
  PROVE  KeptAdjacent(n) = {e \in Entries(n) : Keep(e)}
BY DEF KeptAdjacent, Entries

(* The limits of a request are numbers. *)
LEMMA LimitTypes ==
  ASSUME TypeOK
  PROVE  /\ request.nodes \in Nat /\ request.depth \in Nat /\ MaxWork \in Nat
         /\ request.dfs \in BOOLEAN
<1>1. request.nodes \in Nat /\ request.depth \in Nat /\ request.dfs \in BOOLEAN
  BY WalkAssumption DEF TypeOK
<1>2. request.nodes * WorkPerNode \in Nat /\ WorkFloor \in Nat
  BY <1>1, WalkAssumption
<1> QED
  BY <1>1, <1>2 DEF MaxWork

(* A sequence without its last element. *)
LEMMA WithoutLast ==
  ASSUME NEW S, NEW q \in Seq(S), q # <<>>
  PROVE  LET r == SubSeq(q, 1, Len(q) - 1)
         IN  /\ Len(q) > 0 /\ r \in Seq(S) /\ q[Len(q)] \in Range(q)
             /\ Range(q) = Range(r) \cup {q[Len(q)]}
<1> DEFINE r == SubSeq(q, 1, Len(q) - 1)
<1>1. Len(q) \in Nat /\ Len(q) > 0 /\ DOMAIN q = 1..Len(q)
  OBVIOUS
<1>2. \A k \in 1..(Len(q) - 1) : q[k] \in S
  BY <1>1
<1>3. r \in Seq(S) /\ Len(r) = Len(q) - 1 /\ \A k \in 1..(Len(q) - 1) : r[k] = q[k]
  BY <1>1, <1>2
<1> HIDE DEF r
<1>4. DOMAIN q = DOMAIN r \cup {Len(q)} /\ DOMAIN r = 1..(Len(q) - 1)
  BY <1>1, <1>3
<1>5. Range(q) = Range(r) \cup {q[Len(q)]}
  BY <1>3, <1>4 DEF Range
<1> QED
  BY <1>1, <1>3, <1>5 DEF r

(* A sequence without its first element. *)
LEMMA WithoutFirst ==
  ASSUME NEW S, NEW q \in Seq(S), q # <<>>
  PROVE  /\ Tail(q) \in Seq(S) /\ Head(q) \in Range(q)
         /\ Range(q) = Range(Tail(q)) \cup {Head(q)}
<1>1. Len(q) \in Nat /\ Len(q) > 0 /\ DOMAIN q = 1..Len(q) /\ Head(q) = q[1]
  OBVIOUS
<1>2. /\ Tail(q) \in Seq(S) /\ Len(Tail(q)) = Len(q) - 1
      /\ \A k \in 1..(Len(q) - 1) : Tail(q)[k] = q[k + 1]
  OBVIOUS
<1>3. DOMAIN Tail(q) = 1..(Len(q) - 1)
  BY <1>2
<1>4. \A k \in DOMAIN q : k = 1 \/ (k - 1 \in DOMAIN Tail(q) /\ Tail(q)[k - 1] = q[k])
  BY <1>1, <1>2, <1>3
<1>5. \A k \in DOMAIN Tail(q) : k + 1 \in DOMAIN q /\ q[k + 1] = Tail(q)[k]
  BY <1>1, <1>2, <1>3
<1> QED
  BY <1>1, <1>2, <1>4, <1>5 DEF Range

(* What is taken from the queue, and what is left of it. *)
LEMMA QueueParts ==
  ASSUME TypeOK, queue # <<>>
  PROVE  /\ Popped \in Seen /\ Rest \in Seq(Seen)
         /\ Range(queue) = Range(Rest) \cup {Popped}
<1>1. queue \in Seq(Nodes) /\ \A k \in DOMAIN queue : queue[k] \in Seen
  BY DEF TypeOK
<1>2. queue \in Seq(Seen) /\ Range(queue) \subseteq Seen
  BY <1>1 DEF Range
<1>3. CASE TakesLast
  BY <1>2, <1>3, WithoutLast DEF Popped, Rest
<1>4. CASE ~TakesLast
  BY <1>2, <1>4, WithoutFirst DEF Popped, Rest
<1> QED
  BY <1>3, <1>4

(* Marking a new node keeps every other node's distance and queues it. *)
LEMMA Discovery ==
  ASSUME TypeOK, IsFiniteSet(Seen), NEW n \in Nodes \ Seen, NEW d \in Nat, Discover(n, d)
  PROVE  /\ Seen' = Seen \cup {n} /\ distance' \in [Seen' -> Nat]
         /\ distance'[n] = d /\ \A m \in Seen : distance'[m] = distance[m]
         /\ queue' \in Seq(Nodes) /\ Range(queue') = Range(queue) \cup {n}
         /\ IsFiniteSet(Seen') /\ Cardinality(Seen') = Cardinality(Seen) + 1
<1>1. distance \in [Seen -> Nat] /\ queue \in Seq(Nodes) /\ Len(queue) \in Nat
  BY DEF TypeOK
<1>2. distance' = [k \in Seen \cup {n} |-> IF k = n THEN d ELSE distance[k]]
  BY DEF Discover
<1>3. Seen' = Seen \cup {n}
  BY <1>2 DEF Seen
<1>4. /\ queue' \in Seq(Nodes) /\ Len(queue') = Len(queue) + 1
      /\ queue'[Len(queue) + 1] = n /\ \A k \in DOMAIN queue : queue'[k] = queue[k]
      /\ DOMAIN queue' = DOMAIN queue \cup {Len(queue) + 1}
  BY <1>1 DEF Discover
<1>5. Range(queue') = Range(queue) \cup {n}
  BY <1>4 DEF Range
<1>6. IsFiniteSet(Seen') /\ Cardinality(Seen') = Cardinality(Seen) + 1
  BY <1>3, FS_AddElement
<1> QED
  BY <1>1, <1>2, <1>3, <1>4, <1>5, <1>6

(* The graph and the request never change, nor what they determine. *)
LEMMA SameGraph ==
  ASSUME UNCHANGED graph
  PROVE  /\ \A n \in Nodes : Entries(n)' = Entries(n) /\ KeptAdjacent(n)' = KeptAdjacent(n)
         /\ \A n \in Nodes : Adjacent(n)' = Adjacent(n)
         /\ \A n \in Nodes, e \in EdgeIds : Neighbor(n, e)' = Neighbor(n, e)
         /\ \A e \in EdgeIds : Keep(e)' = Keep(e)
         /\ MaxWork' = MaxWork
BY DEF graph, Entries, Adjacent, KeptAdjacent, Neighbor, Keep, MaxWork

(* As a walk grows, what has been followed stays followed and a node that   *)
(* conducts goes on conducting.                                             *)
LEMMA Growing ==
  ASSUME TypeOK, UNCHANGED graph, Seen \subseteq Seen', edges \subseteq edges',
         \A m \in Seen : distance'[m] = distance[m]
  PROVE  /\ \A n \in Seen, e \in EdgeIds : Followed(n, e) => Followed(n, e)'
         /\ \A n \in Seen : Conducts(n)' <=> Conducts(n)
         /\ \A n \in Seen : (\A e \in Entries(n) : Followed(n, e))
                             => \A e \in Entries(n)' : Followed(n, e)'
<1>1. Seen \subseteq Nodes
  BY DEF TypeOK
<1>2. \A n \in Seen, e \in EdgeIds : Followed(n, e) => Followed(n, e)'
  BY <1>1, SameGraph DEF Followed
<1>3. \A n \in Seen : Conducts(n)' <=> Conducts(n)
  BY DEF Conducts
<1>4. \A n \in Seen : Entries(n)' = Entries(n) /\ Entries(n) \subseteq EdgeIds
  BY <1>1, SameGraph DEF Entries
<1> QED
  BY <1>2, <1>3, <1>4

(* The witness of a node's distance stays one. *)
LEMMA WitnessKept ==
  ASSUME TypeOK, UNCHANGED graph, Seen \subseteq Seen', edges \subseteq edges',
         \A m \in Seen : distance'[m] = distance[m],
         SeenIsReachable, NEW n \in Seen, distance[n] > 0
  PROVE  \E m \in Seen', e \in edges' :
           /\ Conducts(m)' /\ distance'[n] = distance'[m] + 1
           /\ e \in KeptAdjacent(m)' /\ Neighbor(m, e)' = n
<1>1. PICK m \in Seen, e \in edges :
           /\ Conducts(m) /\ distance[n] = distance[m] + 1
           /\ e \in KeptAdjacent(m) /\ Neighbor(m, e) = n
  BY DEF SeenIsReachable
<1>2. m \in Nodes /\ e \in EdgeIds
  BY DEF TypeOK
<1>3. /\ Conducts(m)' /\ distance'[n] = distance'[m] + 1
      /\ e \in KeptAdjacent(m)' /\ Neighbor(m, e)' = n
  BY <1>1, <1>2, Growing, SameGraph
<1> QED
  BY <1>1, <1>3

(* The seeds start the walk, and a cut is marked. *)
LEMMA SeedKeeps ==
  ASSUME IInv, Seed
  PROVE  IInv'
<1> USE DEF IInv
<1>1. /\ phase = "seeding" /\ UNCHANGED <<graph, at, left, edges, frontier, work, answer>>
      /\ phase' \in {"seeding", "popping"}
  BY DEF Seed
<1>2. pending \in Seq(Nodes) /\ Seen \subseteq Nodes /\ distance \in [Seen -> Nat]
  BY DEF TypeOK
<1>3. CASE UNCHANGED <<distance, queue>>
  <2>1. pending' \in Seq(Nodes) /\ stop' \in {stop, "MAX_NODES"}
    <3>1. CASE pending = <<>> \/ Cardinality(Seen) >= request.nodes
      <4>1. pending' = <<>> /\ stop' \in {stop, "MAX_NODES"}
        BY <3>1 DEF Seed
      <4> QED
        BY <4>1
    <3>2. CASE ~(pending = <<>> \/ Cardinality(Seen) >= request.nodes)
      <4>1. pending' = Tail(pending) /\ stop' = stop /\ pending # <<>>
        BY <3>2 DEF Seed
      <4> QED
        BY <1>2, <4>1
    <3> QED
      BY <3>1, <3>2
  <2>2. UNCHANGED Seen /\ UNCHANGED graph /\ UNCHANGED edges
    BY <1>1, <1>3 DEF Seen
  <2>3. TypeOK'
    BY <1>1, <1>3, <2>1, <2>2 DEF TypeOK, graph
  <2>4. Accounted'
    BY <1>1, <1>2, <1>3, <2>1, <2>2, Growing DEF Accounted
  <2>5. EdgesJoinSeenNodes' /\ LimitsAreKept'
    BY <1>1, <1>3, <2>2, SameGraph DEF EdgesJoinSeenNodes, LimitsAreKept, graph
  <2>6. SeenIsReachable'
    BY <1>1, <1>2, <1>3, <2>2, WitnessKept DEF SeenIsReachable
  <2> QED
    BY <1>1, <2>2, <2>3, <2>4, <2>5, <2>6 DEF ExpandsConductor
<1>4. CASE ~UNCHANGED <<distance, queue>>
  <2> DEFINE n == Head(pending)
  <2>1. /\ pending # <<>> /\ n \notin Seen /\ Discover(n, 0) /\ UNCHANGED <<stop, phase>>
        /\ pending' = Tail(pending) /\ ~(Cardinality(Seen) >= request.nodes)
    BY <1>4 DEF Seed
  <2>2. n \in Nodes /\ pending' \in Seq(Nodes)
    BY <1>2, <2>1
  <2> HIDE DEF n
  <2>3. /\ Seen' = Seen \cup {n} /\ distance' \in [Seen' -> Nat]
        /\ distance'[n] = 0 /\ \A m \in Seen : distance'[m] = distance[m]
        /\ queue' \in Seq(Nodes) /\ Range(queue') = Range(queue) \cup {n}
        /\ IsFiniteSet(Seen') /\ Cardinality(Seen') = Cardinality(Seen) + 1
    BY <2>1, <2>2, Discovery
  <2>4. UNCHANGED graph /\ UNCHANGED edges /\ Seen \subseteq Seen'
    BY <1>1, <2>3
  <2>5. TypeOK'
    <3>1. \A k \in DOMAIN queue' : queue'[k] \in Seen'
      <4>1. Range(queue) \subseteq Seen
        BY DEF TypeOK, Range
      <4>2. \A k \in DOMAIN queue' : queue'[k] \in Range(queue')
        BY DEF Range
      <4> QED
        BY <2>3, <4>1, <4>2
    <3> QED
      BY <1>1, <1>2, <2>1, <2>2, <2>3, <3>1 DEF TypeOK, graph
  <2>6. Accounted'
    <3>1. ASSUME stop = "COMPLETE", NEW m \in Seen'
          PROVE  \/ m \in Range(queue') \/ ~Conducts(m)'
                 \/ \A e \in Entries(m)' : Followed(m, e)'
      BY <1>1, <2>3, <2>4, <3>1, Growing DEF Accounted
    <3>2. stop = "COMPLETE" => frontier' = {}
      BY <1>1 DEF Accounted
    <3> QED
      BY <1>1, <2>1, <3>1, <3>2 DEF Accounted
  <2>7. EdgesJoinSeenNodes'
    BY <1>1, <2>3, SameGraph DEF EdgesJoinSeenNodes, graph
  <2>8. LimitsAreKept'
    <3>1. Cardinality(Seen) \in Nat
      BY FS_CardinalityType
    <3> QED
      BY <1>1, <2>1, <2>3, <2>4, <3>1, LimitTypes, SameGraph DEF LimitsAreKept, graph
  <2>9. SeenIsReachable'
    <3> SUFFICES ASSUME NEW m \in Seen', distance'[m] > 0
                 PROVE  \E k \in Seen', e \in edges' :
                          /\ Conducts(k)' /\ distance'[m] = distance'[k] + 1
                          /\ e \in KeptAdjacent(k)' /\ Neighbor(k, e)' = m
      BY DEF SeenIsReachable
    <3>1. m \in Seen /\ distance[m] > 0
      BY <2>3
    <3> QED
      BY <2>3, <2>4, <3>1, WitnessKept
  <2> QED
    BY <1>1, <2>1, <2>3, <2>5, <2>6, <2>7, <2>8, <2>9 DEF ExpandsConductor
<1> QED
  BY <1>3, <1>4

(* A step that marks no node and returns no edge keeps what relates them.   *)
LEMMA QuietKeeps ==
  ASSUME IInv, UNCHANGED <<graph, distance, edges>>, work' \in Nat, work' <= MaxWork
  PROVE  /\ IsFiniteSet(Seen') /\ EdgesJoinSeenNodes' /\ LimitsAreKept' /\ SeenIsReachable'
         /\ Seen' = Seen
<1> USE DEF IInv
<1>1. UNCHANGED Seen /\ UNCHANGED graph /\ UNCHANGED edges
  BY DEF Seen
<1>2. EdgesJoinSeenNodes'
  BY <1>1 DEF EdgesJoinSeenNodes, graph
<1>3. LimitsAreKept'
  BY <1>1, SameGraph DEF LimitsAreKept, graph
<1>4. SeenIsReachable'
  BY <1>1, WitnessKept DEF SeenIsReachable
<1> QED
  BY <1>1, <1>2, <1>3, <1>4

(* A node is taken from the queue: its edges are opened, or nothing of it   *)
(* is left out without a reason to stop.                                    *)
LEMMA PopKeeps ==
  ASSUME IInv, Pop
  PROVE  IInv'
<1> USE DEF IInv
<1>1. /\ phase = "popping" /\ queue # <<>> /\ queue' = Rest
      /\ UNCHANGED <<graph, pending, distance, edges, frontier, work, answer>>
  BY DEF Pop
<1>2. /\ Popped \in Seen /\ Rest \in Seq(Seen) /\ Range(queue) = Range(Rest) \cup {Popped}
      /\ Popped \in Nodes /\ Seen \subseteq Nodes
  BY <1>1, QueueParts DEF TypeOK
<1>3. /\ IsFiniteSet(Seen') /\ EdgesJoinSeenNodes' /\ LimitsAreKept' /\ SeenIsReachable'
      /\ Seen' = Seen
  BY <1>1, QuietKeeps DEF LimitsAreKept, TypeOK
<1>4. queue' \in Seq(Nodes) /\ \A k \in DOMAIN queue' : queue'[k] \in Seen'
  BY <1>1, <1>2, <1>3
<1>5. /\ \A n \in Seen, e \in EdgeIds : Followed(n, e) => Followed(n, e)'
      /\ \A n \in Seen : Conducts(n)' <=> Conducts(n)
      /\ \A n \in Seen : (\A e \in Entries(n) : Followed(n, e))
                          => \A e \in Entries(n)' : Followed(n, e)'
  <2>1. UNCHANGED graph /\ UNCHANGED edges
    BY <1>1
  <2> QED
    BY <1>1, <1>3, <2>1, Growing
<1>6. CASE distance[Popped] >= request.depth \/ ~Conducts(Popped)
  <2>1. /\ stop' = IF distance[Popped] >= request.depth /\ KeptAdjacent(Popped) # {}
                   THEN Prefer("MAX_DEPTH") ELSE stop
        /\ UNCHANGED <<at, left, phase>>
    BY <1>6 DEF Pop
  <2>2. stop' = "COMPLETE" =>
          stop = "COMPLETE" /\ (~Conducts(Popped) \/ KeptAdjacent(Popped) = {})
    BY <1>6, <2>1 DEF Prefer
  <2>3. stop' \in {stop, "MAX_DEPTH"}
    BY <2>1 DEF Prefer
  <2>4. TypeOK'
    BY <1>1, <1>3, <1>4, <2>1, <2>3 DEF TypeOK, graph
  <2>5. Accounted'
    <3>1. ASSUME stop' = "COMPLETE", NEW n \in Seen'
          PROVE  \/ n \in Range(queue') \/ ~Conducts(n)'
                 \/ \A e \in Entries(n)' : Followed(n, e)'
      <4>1. CASE n = Popped
        <5>1. CASE ~Conducts(Popped)
          BY <1>2, <1>5, <4>1, <5>1
        <5>2. CASE KeptAdjacent(Popped) = {}
          <6>1. \A e \in Entries(Popped) : Followed(Popped, e)
            BY <5>2, KeptEntries DEF Followed
          <6> QED
            BY <1>2, <1>5, <4>1, <6>1
        <5> QED
          BY <2>2, <3>1, <5>1, <5>2
      <4>2. CASE n # Popped
        BY <1>1, <1>2, <1>3, <1>5, <2>2, <3>1, <4>2 DEF Accounted
      <4> QED
        BY <4>1, <4>2
    <3> QED
      BY <1>1, <2>1, <2>2, <3>1 DEF Accounted
  <2>6. ExpandsConductor'
    BY <1>1, <2>1 DEF ExpandsConductor
  <2> QED
    BY <1>3, <2>4, <2>5, <2>6
<1>7. CASE ~(distance[Popped] >= request.depth \/ ~Conducts(Popped))
  <2>1. at' = Popped /\ left' = Adjacent(Popped) /\ phase' = "expanding" /\ stop' = stop
    BY <1>7 DEF Pop
  <2>2. Adjacent(at)' = Adjacent(Popped) /\ Adjacent(Popped) \subseteq EdgeIds \X {"out", "in"}
    BY <1>1, <2>1 DEF Adjacent, graph
  <2>3. TypeOK'
    BY <1>1, <1>2, <1>3, <1>4, <2>1, <2>2 DEF TypeOK, graph
  <2>4. ExpandsConductor'
    <3>1. distance[Popped] \in Nat /\ request.depth \in Nat
      BY <1>2, LimitTypes DEF TypeOK
    <3> QED
      <4>1. Conducts(at)'
        BY <1>1, <1>2, <1>7, <2>1 DEF Conducts
      <4>2. distance'[at'] < request'.depth
        BY <1>1, <1>7, <2>1, <3>1 DEF graph
      <4> QED
        BY <1>2, <1>3, <2>1, <2>2, <4>1, <4>2 DEF ExpandsConductor
  <2>5. Accounted'
    <3>1. ASSUME stop = "COMPLETE", NEW n \in Seen', n # Popped
          PROVE  \/ n \in Range(queue') \/ ~Conducts(n)'
                 \/ \A e \in Entries(n)' : Followed(n, e)'
      BY <1>1, <1>2, <1>3, <1>5, <3>1 DEF Accounted
    <3> QED
      BY <1>1, <2>1, <2>2, <3>1 DEF Accounted
  <2> QED
    BY <1>3, <2>3, <2>4, <2>5
<1> QED
  BY <1>6, <1>7

(* The walk stops complete only with an empty queue. *)
LEMMA StopKeeps ==
  ASSUME IInv, Stop
  PROVE  IInv'
<1> USE DEF IInv
<1>1. /\ phase = "popping" /\ phase' = "walked" /\ (queue = <<>> \/ work >= MaxWork)
      /\ UNCHANGED <<graph, pending, distance, queue, at, left, edges, frontier, work, answer>>
      /\ stop' \in {stop, "MAX_WORK", "MAX_NODES"}
      /\ stop' = "COMPLETE" => stop = "COMPLETE" /\ queue = <<>>
  BY DEF Stop, Prefer
<1>2. /\ IsFiniteSet(Seen') /\ EdgesJoinSeenNodes' /\ LimitsAreKept' /\ SeenIsReachable'
      /\ Seen' = Seen
  BY <1>1, QuietKeeps DEF LimitsAreKept, TypeOK
<1>3. TypeOK'
  BY <1>1, <1>2 DEF TypeOK, graph
<1>4. UNCHANGED graph /\ UNCHANGED edges
  BY <1>1
<1>5. Accounted'
  <2>1. ASSUME stop = "COMPLETE", NEW n \in Seen'
        PROVE  \/ n \in Range(queue') \/ ~Conducts(n)'
               \/ \A e \in Entries(n)' : Followed(n, e)'
    BY <1>1, <1>2, <1>4, <2>1, Growing DEF Accounted
  <2> QED
    BY <1>1, <2>1 DEF Accounted
<1> QED
  BY <1>1, <1>2, <1>3, <1>5 DEF ExpandsConductor

(* A node is expanded to the end, or the cut is marked. *)
LEMMA ExpandedKeeps ==
  ASSUME IInv, Expanded
  PROVE  IInv'
<1> USE DEF IInv
<1>1. /\ phase = "expanding" /\ phase' = "popping" /\ at' = Nothing /\ left' = {}
      /\ UNCHANGED <<graph, pending, distance, queue, edges, frontier, work, answer>>
      /\ stop' \in {stop, "MAX_WORK"}
      /\ stop' = "COMPLETE" => stop = "COMPLETE" /\ left = {}
  BY DEF Expanded, Prefer
<1>2. /\ IsFiniteSet(Seen') /\ EdgesJoinSeenNodes' /\ LimitsAreKept' /\ SeenIsReachable'
      /\ Seen' = Seen
  BY <1>1, QuietKeeps DEF LimitsAreKept, TypeOK
<1>3. TypeOK'
  BY <1>1, <1>2 DEF TypeOK, graph
<1>4. UNCHANGED graph /\ UNCHANGED edges
  BY <1>1
<1>5. Accounted'
  <2>1. ASSUME stop = "COMPLETE", left = {}, NEW n \in Seen'
        PROVE  \/ n \in Range(queue') \/ ~Conducts(n)'
               \/ \A e \in Entries(n)' : Followed(n, e)'
    <3>1. CASE n = at
      <4>1. \A e \in Entries(n) : Followed(n, e)
        BY <1>1, <2>1, <3>1 DEF Accounted, Entries
      <4> QED
        BY <1>1, <1>2, <1>4, <4>1, Growing
    <3>2. CASE n # at
      BY <1>1, <1>2, <1>4, <2>1, <3>2, Growing DEF Accounted
    <3> QED
      BY <3>1, <3>2
  <2> QED
    BY <1>1, <2>1 DEF Accounted
<1> QED
  BY <1>1, <1>2, <1>3, <1>5 DEF ExpandsConductor

(* Answering, and a step of nobody, change nothing of the walk. *)
LEMMA AnswerKeeps ==
  ASSUME IInv, Query \/ Dependents \/ UNCHANGED vars
  PROVE  IInv'
<1> USE DEF IInv
<1>1. /\ UNCHANGED <<graph, pending, distance, queue, at, left, edges, frontier, work, stop>>
      /\ phase' = phase \/ (phase = "walked" /\ phase' = "answered")
  BY DEF Query, Dependents, vars
<1>2. /\ IsFiniteSet(Seen') /\ EdgesJoinSeenNodes' /\ LimitsAreKept' /\ SeenIsReachable'
      /\ Seen' = Seen
  BY <1>1, QuietKeeps DEF LimitsAreKept, TypeOK
<1>3. TypeOK'
  BY <1>1, <1>2 DEF TypeOK, graph
<1>4. UNCHANGED graph /\ UNCHANGED edges
  BY <1>1
<1>5. Adjacent(at)' = Adjacent(at)
  BY <1>1 DEF Adjacent, graph
<1>6. ExpandsConductor'
  BY <1>1, <1>2, <1>4, <1>5, Growing DEF ExpandsConductor, TypeOK, graph
<1>7. Accounted'
  <2>1. ASSUME stop = "COMPLETE", NEW n \in Seen'
        PROVE  \/ n \in Range(queue') \/ (phase' = "expanding" /\ n = at') \/ ~Conducts(n)'
               \/ \A e \in Entries(n)' : Followed(n, e)'
    BY <1>1, <1>2, <1>4, <2>1, Growing DEF Accounted
  <2>2. ASSUME stop = "COMPLETE", phase' = "expanding",
               NEW e \in EdgeIds, NEW side \in {"out", "in"},
               <<e, side>> \in Adjacent(at)' \ left'
        PROVE  Followed(at, e)'
    <3>1. at \in Seen /\ at \in Nodes /\ phase = "expanding"
      BY <1>1, <2>2 DEF ExpandsConductor, TypeOK
    <3> QED
      BY <1>1, <1>2, <1>4, <1>5, <2>2, <3>1, Growing DEF Accounted
  <2> QED
    BY <1>1, <2>1, <2>2 DEF Accounted
<1> QED
  BY <1>2, <1>3, <1>6, <1>7

(* One edge is looked at: it is dropped by the filter, joins two nodes      *)
(* seen, reaches a new node, or is left to the frontier and marked.         *)
LEMMA LookKeeps ==
  ASSUME IInv, Look
  PROVE  IInv'
<1> USE DEF IInv
<1>1. /\ phase = "expanding" /\ work < MaxWork
      /\ UNCHANGED <<graph, pending, at, phase, answer>>
  BY DEF Look
<1>2. PICK item \in left :
        LET e == item[1]
            next == Neighbor(at, e)
        IN  /\ left' = left \ {item}
            /\ work' = work + 1
            /\ \/ /\ ~Keep(e)
                  /\ UNCHANGED <<distance, queue, edges, frontier, stop>>
               \/ /\ Keep(e) /\ next \in Seen
                  /\ edges' = edges \cup {e}
                  /\ UNCHANGED <<distance, queue, frontier, stop>>
               \/ /\ Keep(e) /\ next \notin Seen /\ Cardinality(Seen) >= request.nodes
                  /\ frontier' = frontier \cup {[from |-> at, edge |-> e, to |-> next]}
                  /\ stop' = Prefer("MAX_NODES")
                  /\ UNCHANGED <<distance, queue, edges>>
               \/ /\ Keep(e) /\ next \notin Seen /\ Cardinality(Seen) < request.nodes
                  /\ Discover(next, distance[at] + 1)
                  /\ edges' = edges \cup {e}
                  /\ UNCHANGED <<frontier, stop>>
  BY DEF Look
<1> DEFINE e == item[1]
           next == Neighbor(at, e)
<1>3. /\ at \in Seen /\ at \in Nodes /\ Conducts(at) /\ distance[at] < request.depth
      /\ distance[at] \in Nat /\ Seen \subseteq Nodes /\ distance \in [Seen -> Nat]
      /\ item \in Adjacent(at)
  BY <1>1, <1>2 DEF ExpandsConductor, TypeOK
<1>4. item = <<e, item[2]>> /\ e \in EdgeIds /\ item[2] \in {"out", "in"} /\ e \in Entries(at)
  BY <1>3 DEF Adjacent, Entries
<1>5. next \in Nodes /\ {net[e].from, net[e].to} = {at, next}
  BY <1>3, <1>4, EntryEnds
<1> HIDE DEF next
<1>6. Keep(e) /\ next \notin Seen /\ Discover(next, distance[at] + 1) =>
        /\ Seen' = Seen \cup {next} /\ distance' \in [Seen' -> Nat]
        /\ distance'[next] = distance[at] + 1 /\ \A m \in Seen : distance'[m] = distance[m]
        /\ queue' \in Seq(Nodes) /\ Range(queue') = Range(queue) \cup {next}
        /\ IsFiniteSet(Seen') /\ Cardinality(Seen') = Cardinality(Seen) + 1
  BY <1>3, <1>5, Discovery
<1>7. UNCHANGED distance => UNCHANGED Seen
  BY DEF Seen
<1>8. /\ Seen \subseteq Seen' /\ distance' \in [Seen' -> Nat]
      /\ \A m \in Seen : distance'[m] = distance[m]
      /\ edges \subseteq edges' /\ edges' \subseteq edges \cup {e}
      /\ queue' \in Seq(Nodes) /\ Range(queue') = Range(queue) \cup (Seen' \ Seen)
      /\ e \in edges' => e \in edges \/ next \in Seen'
  BY <1>2, <1>3, <1>6, <1>7 DEF next, TypeOK
<1>9. \/ Seen' = Seen
      \/ /\ Seen' = Seen \cup {next} /\ next \notin Seen /\ distance'[next] = distance[at] + 1
         /\ Cardinality(Seen) < request.nodes /\ Cardinality(Seen') = Cardinality(Seen) + 1
         /\ IsFiniteSet(Seen') /\ Keep(e) /\ e \in edges'
  BY <1>2, <1>6, <1>7 DEF next
<1>10. /\ stop' = "COMPLETE" => /\ stop = "COMPLETE" /\ frontier' = frontier
                                /\ Keep(e) => e \in edges' /\ next \in Seen'
       /\ stop' \in {stop, "MAX_NODES"}
       /\ frontier' \in SUBSET (frontier \cup {[from |-> at, edge |-> e, to |-> next]})
  BY <1>2, <1>6, <1>7 DEF next, Prefer
<1>11. UNCHANGED graph /\ Neighbor(at, e)' = next /\ Adjacent(at)' = Adjacent(at)
  <2>1. UNCHANGED graph /\ UNCHANGED at
    BY <1>1
  <2> QED
    BY <2>1 DEF graph, Neighbor, Adjacent, next
<1>12. TypeOK'
  <2>1. \A k \in DOMAIN queue' : queue'[k] \in Seen'
    <3>1. Range(queue) \subseteq Seen
      BY DEF TypeOK, Range
    <3>2. \A k \in DOMAIN queue' : queue'[k] \in Range(queue')
      BY DEF Range
    <3> QED
      BY <1>8, <3>1, <3>2
  <2>2. left' \subseteq EdgeIds \X {"out", "in"} /\ work' \in Nat
    BY <1>2 DEF TypeOK
  <2>3. [from |-> at, edge |-> e, to |-> next] \in [from : Nodes, edge : EdgeIds, to : Nodes]
    BY <1>3, <1>4, <1>5
  <2>4. edges' \subseteq EdgeIds /\ Seen' \subseteq Nodes
    BY <1>3, <1>4, <1>5, <1>8, <1>9 DEF TypeOK
  <2> QED
    BY <1>1, <1>8, <1>10, <2>1, <2>2, <2>3, <2>4 DEF TypeOK, graph
<1>13. /\ \A n \in Seen, d \in EdgeIds : Followed(n, d) => Followed(n, d)'
       /\ \A n \in Seen : Conducts(n)' <=> Conducts(n)
       /\ \A n \in Seen : (\A d \in Entries(n) : Followed(n, d))
                           => \A d \in Entries(n)' : Followed(n, d)'
  BY <1>8, <1>11, Growing
<1>14. ExpandsConductor'
  <2>1. Conducts(at)'
    BY <1>1, <1>3, <1>8 DEF Conducts
  <2>2. distance'[at'] < request'.depth /\ at' \in Seen'
    BY <1>1, <1>3, <1>8 DEF graph
  <2>3. left' \subseteq Adjacent(at)'
    BY <1>1, <1>2, <1>11 DEF ExpandsConductor
  <2> QED
    BY <2>1, <2>2, <2>3 DEF ExpandsConductor
<1>15. Accounted'
  <2>1. ASSUME stop = "COMPLETE", NEW n \in Seen'
        PROVE  \/ n \in Range(queue') \/ n = at \/ ~Conducts(n)'
               \/ \A d \in Entries(n)' : Followed(n, d)'
    <3>1. CASE n \in Seen
      BY <1>8, <1>13, <2>1, <3>1 DEF Accounted
    <3>2. CASE n \notin Seen
      BY <1>8, <2>1, <3>2
    <3> QED
      BY <3>1, <3>2
  <2>2. ASSUME stop' = "COMPLETE", NEW d \in EdgeIds, NEW side \in {"out", "in"},
               <<d, side>> \in Adjacent(at) \ left'
        PROVE  Followed(at, d)'
    <3>1. CASE <<d, side>> = item
      <4>1. d = e
        BY <3>1
      <4>2. Keep(e)' <=> Keep(e)
        BY <1>4, <1>11, SameGraph
      <4> QED
        BY <1>1, <1>10, <1>11, <2>2, <4>1, <4>2 DEF Followed
    <3>2. CASE <<d, side>> # item
      <4>1. <<d, side>> \in Adjacent(at) \ left
        BY <1>2, <2>2, <3>2
      <4>2. Followed(at, d)
        BY <1>1, <1>10, <2>2, <4>1 DEF Accounted
      <4> QED
        BY <1>1, <1>3, <1>13, <4>2 DEF Followed
    <3> QED
      BY <3>1, <3>2
  <2>3. stop' = "COMPLETE" => stop = "COMPLETE" /\ frontier' = {}
    BY <1>10 DEF Accounted
  <2> QED
    BY <1>1, <1>11, <2>1, <2>2, <2>3 DEF Accounted
<1>16. EdgesJoinSeenNodes'
  <2> SUFFICES ASSUME NEW d \in edges'
               PROVE  net[d].from \in Seen' /\ net[d].to \in Seen'
    BY <1>1 DEF EdgesJoinSeenNodes, graph
  <2>1. CASE d \in edges
    BY <1>8, <2>1 DEF EdgesJoinSeenNodes
  <2>2. CASE d = e /\ next \in Seen'
    BY <1>3, <1>5, <1>8, <2>2
  <2> QED
    BY <1>8, <2>1, <2>2
<1>17. LimitsAreKept'
  <2>1. Cardinality(Seen) \in Nat
    BY FS_CardinalityType
  <2>2. work' <= MaxWork /\ MaxWork' = MaxWork
    BY <1>1, <1>2, <1>11, LimitTypes, SameGraph DEF TypeOK
  <2>3. Cardinality(Seen') <= request.nodes
    BY <1>9, <2>1, LimitTypes DEF LimitsAreKept
  <2>4. \A n \in Seen' : distance'[n] <= request.depth
    BY <1>3, <1>8, <1>9, LimitTypes DEF LimitsAreKept
  <2> QED
    BY <1>1, <2>2, <2>3, <2>4 DEF LimitsAreKept, graph
<1>18. SeenIsReachable'
  <2> SUFFICES ASSUME NEW n \in Seen', distance'[n] > 0
               PROVE  \E m \in Seen', d \in edges' :
                        /\ Conducts(m)' /\ distance'[n] = distance'[m] + 1
                        /\ d \in KeptAdjacent(m)' /\ Neighbor(m, d)' = n
    BY DEF SeenIsReachable
  <2>1. CASE n \in Seen
    <3>1. distance[n] > 0
      BY <1>8, <2>1
    <3> QED
      BY <1>8, <1>11, <2>1, <3>1, WitnessKept
  <2>2. CASE n \notin Seen
    <3>1. n = next /\ distance'[n] = distance'[at] + 1 /\ Keep(e) /\ e \in edges'
      BY <1>3, <1>8, <1>9, <2>2
    <3>2. e \in KeptAdjacent(at) /\ at \in Nodes
      BY <1>3, <1>4, <3>1, KeptEntries
    <3>3. /\ Conducts(at)' /\ at \in Seen'
          /\ \A m \in Nodes : KeptAdjacent(m)' = KeptAdjacent(m)
          /\ \A m \in Nodes, d \in EdgeIds : Neighbor(m, d)' = Neighbor(m, d)
      BY <1>1, <1>3, <1>8, <1>11, SameGraph DEF Conducts
    <3>4. \E m \in Nodes : m = at /\ m \in Seen' /\ Conducts(m)' /\ e \in KeptAdjacent(m)'
                           /\ Neighbor(m, e)' = n /\ distance'[n] = distance'[m] + 1
      BY <1>3, <1>4, <1>13, <3>1, <3>2, <3>3 DEF next
    <3> QED
      BY <3>1, <3>4
  <2> QED
    BY <2>1, <2>2
<1>19. IsFiniteSet(Seen')
  BY <1>9
<1> QED
  BY <1>12, <1>14, <1>15, <1>16, <1>17, <1>18, <1>19

(* Every step keeps the invariant. *)
LEMMA StepKeeps ==
  ASSUME IInv, [Next]_vars
  PROVE  IInv'
BY SeedKeeps, PopKeeps, StopKeeps, LookKeeps, ExpandedKeeps, AnswerKeeps DEF Next

(* Nothing is seen when a walk starts. *)
LEMMA InitHolds ==
  ASSUME Init
  PROVE  IInv
<1>1. Seen = {} /\ distance = [n \in {} |-> 0]
  BY DEF Init, Seen
<1>2. IsFiniteSet(Seen) /\ Cardinality(Seen) = 0
  BY <1>1, FS_EmptySet
<1>3. TypeOK
  BY <1>1, WalkAssumption DEF Init, TypeOK
<1>4. LimitsAreKept
  BY <1>1, <1>2, <1>3, LimitTypes DEF Init, LimitsAreKept
<1>5. EdgesJoinSeenNodes /\ SeenIsReachable /\ ExpandsConductor /\ Accounted
  BY <1>1 DEF Init, EdgesJoinSeenNodes, SeenIsReachable, ExpandsConductor, Accounted
<1> QED
  BY <1>2, <1>3, <1>4, <1>5 DEF IInv

LEMMA InvariantHolds == Spec => []IInv
BY InitHolds, StepKeeps, PTL DEF Spec

(* A walk that calls itself complete has followed every kept edge of every  *)
(* node it may be conducted through (WalkResult::evidence_complete).        *)
THEOREM CompleteWalksAreClosed == Spec => []CompleteIsClosed
<1>1. IInv => CompleteIsClosed
  <2> SUFFICES ASSUME IInv, phase \in {"walked", "answered"}, Complete,
                      NEW n \in Seen, Conducts(n), NEW e \in KeptAdjacent(n)
               PROVE  e \in edges /\ Neighbor(n, e) \in Seen
    BY DEF CompleteIsClosed
  <2>1. n \notin Range(queue)
    BY DEF IInv, Accounted, Complete, Range
  <2>2. \A d \in Entries(n) : Followed(n, d)
    BY <2>1 DEF IInv, Accounted, Complete
  <2> QED
    BY <2>2, KeptEntries DEF Followed
<1> QED
  BY <1>1, InvariantHolds, PTL

(* What a walk returns is a part of the graph, all of it reached from the   *)
(* seeds, for every limit that cuts it.                                     *)
THEOREM WalksAreWitnesses == Spec => []WalkIsWitness
<1>1. IInv => WalkIsWitness
  BY DEF IInv, WalkIsWitness
<1> QED
  BY <1>1, InvariantHolds, PTL

(* No limit on nodes, depth or work is ever exceeded. *)
THEOREM WalksAreBounded == Spec => []LimitsAreKept
<1>1. IInv => LimitsAreKept
  BY DEF IInv
<1> QED
  BY <1>1, InvariantHolds, PTL

-----------------------------------------------------------------------------
(* What a walk says of itself is true: breadth first, the distances are     *)
(* shortest, and an answer that does not call itself truncated is the whole *)
(* one.                                                                     *)

(* Nothing will be discovered any more. *)
Full == Cardinality(Seen) >= request.nodes \/ work >= MaxWork

(* An edge leads to a node that is no further than one step, or to one that *)
(* will never be seen.                                                      *)
Near(n, e) ==
  IF Neighbor(n, e) \in Seen THEN distance[Neighbor(n, e)] <= distance[n] + 1 ELSE Full

(* The queue holds nodes in the order of their distances. *)
Sorted ==
  \A i, j \in DOMAIN queue : i <= j => distance[queue[i]] <= distance[queue[j]]

(* The seeds wait, all of them at no distance. *)
SeedsWait == phase = "seeding" => \A n \in Seen : n \in Range(queue) /\ distance[n] = 0

(* While a node is expanded nothing is more than one step further than it,  *)
(* nothing that waits is nearer, and what it leads to has been seen or      *)
(* never will be.                                                           *)
ExpandsNearest ==
  phase = "expanding" =>
    /\ \A n \in Seen : distance[n] <= distance[at] + 1
    /\ \A n \in Range(queue) : distance[at] <= distance[n]
    /\ \A e \in EdgeIds, side \in {"out", "in"} :
         <<e, side>> \in Adjacent(at) \ left /\ Keep(e) => Neighbor(at, e) \in Seen \/ Full

(* Between expansions the same is so of the node that is next. *)
NextIsNearest ==
  phase # "expanding" /\ queue # <<>> =>
    \A n \in Seen : distance[n] <= distance[Head(queue)] + 1

(* The edges of a node that was expanded are all near. *)
ExpandedAreNear ==
  \A n \in Seen : Conducts(n) /\ distance[n] < request.depth =>
    \/ n \in Range(queue)
    \/ phase = "expanding" /\ n = at
    \/ \A e \in KeptAdjacent(n) : Near(n, e)

BreadthInv ==
  ~request.dfs =>
    Sorted /\ SeedsWait /\ ExpandsNearest /\ NextIsNearest /\ ExpandedAreNear

(* One seed is seen before the dependents of a node are walked. *)
SeedIsSeen ==
  request.op = "dependents" =>
    \/ phase = "seeding" /\ pending # <<>> /\ Seen = {}
    \/ \E n \in Seen : distance[n] = 0

(* What is said of an answer when it is given. *)
AnswerIsTold ==
  phase = "answered" /\ ~answer.truncated =>
    /\ Complete
    /\ \A n \in Seen \ hidden :
         n \in answer.nodes \/ (request.op = "dependents" /\ distance[n] = 0)

ClaimsInv == IInv /\ BreadthInv /\ SeedIsSeen /\ AnswerIsTold

(* A walk that is full stays full. *)
LEMMA FullStays ==
  ASSUME IInv, UNCHANGED graph, Seen \subseteq Seen', IsFiniteSet(Seen'),
         work' \in Nat, work <= work', Full
  PROVE  Full'
<1>1. Cardinality(Seen) \in Nat /\ Cardinality(Seen') \in Nat /\ Cardinality(Seen) <= Cardinality(Seen')
  BY FS_CardinalityType, FS_Subset DEF IInv
<1>2. MaxWork' = MaxWork /\ request' = request
  BY SameGraph DEF graph
<1>3. MaxWork \in Nat /\ request.nodes \in Nat /\ work \in Nat
  BY LimitTypes DEF IInv, TypeOK
<1> QED
  BY <1>1, <1>2, <1>3 DEF Full

(* An edge that is near stays so, when nothing is discovered once full. *)
LEMMA NearStays ==
  ASSUME IInv, UNCHANGED graph, Seen \subseteq Seen', IsFiniteSet(Seen'),
         work' \in Nat, work <= work', Full => Seen' = Seen,
         \A m \in Seen : distance'[m] = distance[m]
  PROVE  \A n \in Seen : (\A e \in KeptAdjacent(n) : Near(n, e))
                            => \A e \in KeptAdjacent(n)' : Near(n, e)'
<1> SUFFICES ASSUME NEW n \in Seen, \A e \in KeptAdjacent(n) : Near(n, e),
                    NEW e \in KeptAdjacent(n)'
             PROVE  Near(n, e)'
  OBVIOUS
<1>1. n \in Nodes
  BY DEF IInv, TypeOK
<1>2. e \in KeptAdjacent(n) /\ e \in EdgeIds
  BY <1>1, SameGraph DEF KeptAdjacent
<1>3. Neighbor(n, e)' = Neighbor(n, e)
  BY <1>1, <1>2, SameGraph
<1>4. Near(n, e)
  BY <1>2
<1>5. CASE Neighbor(n, e) \in Seen
  BY <1>3, <1>4, <1>5 DEF Near
<1>6. CASE Neighbor(n, e) \notin Seen
  <2>1. Full
    BY <1>4, <1>6 DEF Near
  <2>2. Full' /\ Seen' = Seen
    BY <2>1, FullStays
  <2> QED
    BY <1>3, <1>6, <2>2 DEF Near
<1> QED
  BY <1>5, <1>6

(* Nodes that wait in order wait in order behind the first. *)
LEMMA SortedTail ==
  ASSUME IInv, Sorted, queue # <<>>, ~request.dfs
  PROVE  /\ Rest = Tail(queue) /\ Popped = Head(queue)
         /\ \A i, j \in DOMAIN Rest : i <= j => distance[Rest[i]] <= distance[Rest[j]]
         /\ \A m \in Range(Rest) : distance[Popped] <= distance[m]
         /\ Rest # <<>> => Head(Rest) \in Range(Rest)
<1>1. queue \in Seq(Nodes) /\ Rest = Tail(queue) /\ Popped = Head(queue)
  BY DEF IInv, TypeOK, Rest, Popped, TakesLast
<1>2. /\ Tail(queue) \in Seq(Nodes) /\ Len(Tail(queue)) = Len(queue) - 1 /\ Len(queue) \in Nat
      /\ Len(queue) > 0 /\ DOMAIN queue = 1..Len(queue) /\ Head(queue) = queue[1]
      /\ \A k \in 1..(Len(queue) - 1) : Tail(queue)[k] = queue[k + 1]
  BY <1>1
<1>3. DOMAIN Rest = 1..(Len(queue) - 1) /\ \A k \in DOMAIN Rest : Rest[k] = queue[k + 1]
  BY <1>1, <1>2
<1>4. \A k \in DOMAIN Rest : k + 1 \in DOMAIN queue /\ 1 <= k + 1 /\ k \in Nat
  BY <1>2, <1>3
<1>5. \A i, j \in DOMAIN Rest : i <= j => distance[Rest[i]] <= distance[Rest[j]]
  BY <1>3, <1>4 DEF Sorted
<1>6. \A k \in DOMAIN Rest : distance[queue[1]] <= distance[Rest[k]]
  BY <1>2, <1>3, <1>4 DEF Sorted
<1>7. Rest # <<>> => Head(Rest) \in Range(Rest)
  <2> SUFFICES ASSUME Rest # <<>> PROVE Head(Rest) \in Range(Rest)
    OBVIOUS
  <2>1. Rest \in Seq(Nodes)
    BY <1>1, <1>2
  <2>2. Len(Rest) \in Nat /\ Len(Rest) > 0 /\ Head(Rest) = Rest[1] /\ DOMAIN Rest = 1..Len(Rest)
    BY <2>1
  <2> QED
    BY <2>2 DEF Range
<1> QED
  BY <1>1, <1>2, <1>5, <1>6, <1>7 DEF Range

(* A node as far as any waits in order behind the others. *)
LEMMA SortedAppend ==
  ASSUME IInv, Sorted, NEW n \in Nodes \ Seen, NEW d \in Nat, Discover(n, d),
         \A m \in Range(queue) : distance[m] <= d
  PROVE  Sorted'
<1>1. queue \in Seq(Nodes) /\ Len(queue) \in Nat /\ Range(queue) \subseteq Seen /\ distance \in [Seen -> Nat]
  BY DEF IInv, TypeOK, Range
<1>2. distance'[n] = d /\ \A m \in Seen : distance'[m] = distance[m]
  BY Discovery DEF IInv
<1>3. /\ queue'[Len(queue) + 1] = n /\ DOMAIN queue' = 1..(Len(queue) + 1)
      /\ DOMAIN queue = 1..Len(queue) /\ \A k \in DOMAIN queue : queue'[k] = queue[k]
  BY <1>1 DEF Discover
<1>4. \A k \in DOMAIN queue : /\ queue[k] \in Range(queue) /\ queue[k] \in Seen
                               /\ distance'[queue'[k]] = distance[queue[k]] /\ distance[queue[k]] \in Nat
  BY <1>1, <1>2, <1>3 DEF Range
<1> SUFFICES ASSUME NEW i \in DOMAIN queue', NEW j \in DOMAIN queue', i <= j
             PROVE  distance'[queue'[i]] <= distance'[queue'[j]]
  BY DEF Sorted
<1>5. CASE j \in DOMAIN queue
  <2>1. i \in DOMAIN queue
    BY <1>1, <1>3, <1>5
  <2> QED
    BY <1>4, <1>5, <2>1 DEF Sorted
<1>6. CASE j \notin DOMAIN queue
  <2>1. j = Len(queue) + 1 /\ distance'[queue'[j]] = d
    BY <1>1, <1>2, <1>3, <1>6
  <2>2. CASE i \in DOMAIN queue
    BY <1>4, <2>1, <2>2
  <2>3. CASE i \notin DOMAIN queue
    <3>1. i = j
      BY <1>1, <1>3, <2>1, <2>3
    <3> QED
      BY <2>1, <3>1
  <2> QED
    BY <2>2, <2>3
<1> QED
  BY <1>5, <1>6

(* Seeds are added at no distance, and all of them wait. *)
LEMMA SeedBreadth ==
  ASSUME IInv, BreadthInv, Seed
  PROVE  BreadthInv'
<1>1. /\ phase = "seeding" /\ UNCHANGED <<graph, at, left, edges, frontier, work, answer>>
      /\ phase' \in {"seeding", "popping"} /\ request' = request
  BY DEF Seed, graph
<1> SUFFICES ASSUME ~request.dfs
             PROVE  Sorted' /\ SeedsWait' /\ ExpandsNearest' /\ NextIsNearest' /\ ExpandedAreNear'
  BY <1>1 DEF BreadthInv
<1>2. Sorted /\ \A n \in Seen : n \in Range(queue) /\ distance[n] = 0
  BY <1>1 DEF BreadthInv, SeedsWait
<1>3. IInv'
  BY SeedKeeps
<1>4. Sorted' /\ \A n \in Seen' : n \in Range(queue)' /\ distance'[n] = 0
  <2>1. CASE UNCHANGED <<distance, queue>>
    BY <1>2, <2>1 DEF Sorted, Seen, Range
  <2>2. CASE ~UNCHANGED <<distance, queue>>
    <3> DEFINE n == Head(pending)
    <3>1. n \in Nodes \ Seen /\ Discover(n, 0)
      <4>1. pending # <<>> /\ n \notin Seen /\ Discover(n, 0)
        BY <2>2 DEF Seed
      <4>2. pending \in Seq(Nodes)
        BY DEF IInv, TypeOK
      <4> QED
        BY <4>1, <4>2
    <3> HIDE DEF n
    <3>2. Range(queue) \subseteq Seen
      BY DEF IInv, TypeOK, Range
    <3>3. \A m \in Range(queue) : distance[m] <= 0
      BY <1>2, <3>2
    <3>4. Sorted'
      BY <1>2, <3>1, <3>3, SortedAppend
    <3>5. /\ Seen' = Seen \cup {n} /\ distance'[n] = 0 /\ \A m \in Seen : distance'[m] = distance[m]
          /\ Range(queue') = Range(queue) \cup {n}
      BY <3>1, Discovery DEF IInv
    <3>6. Range(queue)' = Range(queue')
      BY DEF Range
    <3> QED
      BY <1>2, <3>4, <3>5, <3>6
  <2> QED
    BY <2>1, <2>2
<1>5. NextIsNearest'
  <2> SUFFICES ASSUME queue' # <<>>, NEW n \in Seen' PROVE distance'[n] <= distance'[Head(queue')] + 1
    BY DEF NextIsNearest
  <2>1. queue' \in Seq(Nodes) /\ \A k \in DOMAIN queue' : queue'[k] \in Seen'
    BY <1>3 DEF IInv, TypeOK
  <2>2. Head(queue') \in Seen'
    BY <2>1
  <2> QED
    BY <1>4, <2>2
<1> QED
  BY <1>1, <1>4, <1>5 DEF SeedsWait, ExpandsNearest, ExpandedAreNear

(* A step that marks no node leaves near what was near. *)
LEMMA QuietNear ==
  ASSUME IInv, UNCHANGED <<graph, distance, edges, work>>
  PROVE  /\ Seen' = Seen /\ distance' = distance /\ request' = request
         /\ \A n \in Seen : Conducts(n)' <=> Conducts(n)
         /\ \A n \in Seen : (\A e \in KeptAdjacent(n) : Near(n, e))
                              => \A e \in KeptAdjacent(n)' : Near(n, e)'
         /\ Full' <=> Full
<1>1. UNCHANGED Seen /\ UNCHANGED graph /\ UNCHANGED request /\ UNCHANGED work
  BY DEF Seen, graph
<1>2. IsFiniteSet(Seen') /\ work' \in Nat /\ work <= work'
  BY <1>1 DEF IInv, TypeOK
<1>3. \A n \in Seen : (\A e \in KeptAdjacent(n) : Near(n, e))
                         => \A e \in KeptAdjacent(n)' : Near(n, e)'
  BY <1>1, <1>2, NearStays
<1>4. Full' <=> Full
  BY <1>1, SameGraph DEF Full
<1> QED
  BY <1>1, <1>3, <1>4 DEF Conducts

(* The node that waited longest is taken: nothing that waits is nearer. *)
LEMMA PopBreadth ==
  ASSUME IInv, BreadthInv, Pop
  PROVE  BreadthInv'
<1>1. /\ phase = "popping" /\ queue # <<>> /\ queue' = Rest
      /\ UNCHANGED <<graph, pending, distance, edges, frontier, work, answer>>
  BY DEF Pop
<1>2. /\ Seen' = Seen /\ distance' = distance /\ request' = request
      /\ \A n \in Seen : Conducts(n)' <=> Conducts(n)
      /\ \A n \in Seen : (\A e \in KeptAdjacent(n) : Near(n, e))
                           => \A e \in KeptAdjacent(n)' : Near(n, e)'
  BY <1>1, QuietNear
<1> SUFFICES ASSUME ~request.dfs
             PROVE  Sorted' /\ SeedsWait' /\ ExpandsNearest' /\ NextIsNearest' /\ ExpandedAreNear'
  BY <1>2 DEF BreadthInv
<1>3. Sorted /\ NextIsNearest /\ ExpandedAreNear
  BY DEF BreadthInv
<1>4. /\ Popped = Head(queue)
      /\ \A i, j \in DOMAIN Rest : i <= j => distance[Rest[i]] <= distance[Rest[j]]
      /\ \A m \in Range(Rest) : distance[Popped] <= distance[m]
      /\ Rest # <<>> => Head(Rest) \in Range(Rest)
  BY <1>1, <1>3, SortedTail
<1>5. /\ Popped \in Seen /\ Popped \in Nodes /\ Range(Rest) \subseteq Seen
      /\ Range(queue) = Range(Rest) \cup {Popped} /\ distance \in [Seen -> Nat]
  <2>1. /\ Popped \in Seen /\ Rest \in Seq(Seen) /\ Range(queue) = Range(Rest) \cup {Popped}
        /\ Seen \subseteq Nodes /\ distance \in [Seen -> Nat]
    BY <1>1, QueueParts DEF IInv, TypeOK
  <2>2. Range(queue) \subseteq Seen
    BY DEF IInv, TypeOK, Range
  <2> QED
    BY <2>1, <2>2
<1>6. \A n \in Seen : distance[n] <= distance[Popped] + 1
  BY <1>1, <1>3, <1>4 DEF NextIsNearest
<1>7. Sorted'
  BY <1>1, <1>2, <1>4 DEF Sorted
<1>8. Range(queue)' = Range(Rest)
  BY <1>1 DEF Range
<1>9. CASE distance[Popped] >= request.depth \/ ~Conducts(Popped)
  <2>1. UNCHANGED <<at, left, phase>>
    BY <1>9 DEF Pop
  <2>2. NextIsNearest'
    <3> SUFFICES ASSUME Rest # <<>>, NEW n \in Seen PROVE distance[n] <= distance[Head(Rest)] + 1
      BY <1>1, <1>2 DEF NextIsNearest
    <3>1. distance[Popped] <= distance[Head(Rest)] /\ Head(Rest) \in Seen
      BY <1>4, <1>5
    <3>2. distance[n] <= distance[Popped] + 1
      BY <1>6
    <3> QED
      BY <1>5, <3>1, <3>2
  <2>3. ExpandedAreNear'
    <3> SUFFICES ASSUME NEW n \in Seen, Conducts(n), distance[n] < request.depth, n \notin Range(Rest)
                 PROVE  \A e \in KeptAdjacent(n)' : Near(n, e)'
      BY <1>2, <1>8 DEF ExpandedAreNear
    <3>1. n # Popped
      BY <1>5, <1>9, LimitTypes DEF IInv
    <3>2. \A e \in KeptAdjacent(n) : Near(n, e)
      BY <1>1, <1>3, <1>5, <3>1 DEF ExpandedAreNear
    <3> QED
      BY <1>2, <3>2
  <2> QED
    BY <1>1, <1>7, <2>1, <2>2, <2>3 DEF SeedsWait, ExpandsNearest
<1>10. CASE ~(distance[Popped] >= request.depth \/ ~Conducts(Popped))
  <2>1. at' = Popped /\ left' = Adjacent(Popped) /\ phase' = "expanding"
    BY <1>10 DEF Pop
  <2>2. Adjacent(at)' = left'
    BY <1>1, <2>1 DEF Adjacent, graph
  <2>3. ExpandsNearest'
    BY <1>2, <1>4, <1>6, <1>8, <2>1, <2>2 DEF ExpandsNearest
  <2>4. ExpandedAreNear'
    <3> SUFFICES ASSUME NEW n \in Seen, Conducts(n), distance[n] < request.depth, n \notin Range(Rest),
                        n # Popped
                 PROVE  \A e \in KeptAdjacent(n)' : Near(n, e)'
      BY <1>2, <1>8, <2>1 DEF ExpandedAreNear
    <3>1. \A e \in KeptAdjacent(n) : Near(n, e)
      BY <1>1, <1>3, <1>5 DEF ExpandedAreNear
    <3> QED
      BY <1>2, <3>1
  <2> QED
    BY <1>7, <2>1, <2>3, <2>4 DEF SeedsWait, NextIsNearest
<1> QED
  BY <1>9, <1>10

(* What is left when a walk stops is near as it was. *)
LEMMA StopBreadth ==
  ASSUME IInv, BreadthInv, Stop \/ Query \/ Dependents \/ UNCHANGED vars
  PROVE  BreadthInv'
<1>1. /\ UNCHANGED <<graph, pending, distance, queue, at, left, edges, frontier, work>>
      /\ \/ phase \in {"popping", "walked"} /\ phase' \in {"walked", "answered"}
         \/ phase' = phase
  BY DEF Stop, Query, Dependents, vars
<1>2. /\ Seen' = Seen /\ distance' = distance /\ request' = request
      /\ \A n \in Seen : Conducts(n)' <=> Conducts(n)
      /\ \A n \in Seen : (\A e \in KeptAdjacent(n) : Near(n, e))
                           => \A e \in KeptAdjacent(n)' : Near(n, e)'
      /\ Full' <=> Full
  BY <1>1, QuietNear
<1> SUFFICES ASSUME ~request.dfs
             PROVE  Sorted' /\ SeedsWait' /\ ExpandsNearest' /\ NextIsNearest' /\ ExpandedAreNear'
  BY <1>2 DEF BreadthInv
<1>3. Sorted /\ SeedsWait /\ ExpandsNearest /\ NextIsNearest /\ ExpandedAreNear
  BY DEF BreadthInv
<1>4. Range(queue)' = Range(queue)
  BY <1>1 DEF Range
<1>5. Sorted' /\ SeedsWait' /\ NextIsNearest'
  BY <1>1, <1>2, <1>3, <1>4 DEF Sorted, SeedsWait, NextIsNearest
<1>6. ExpandsNearest'
  <2> SUFFICES ASSUME phase' = "expanding" PROVE ExpandsNearest'
    BY DEF ExpandsNearest
  <2>1. phase = "expanding" /\ at \in Nodes
    BY <1>1 DEF IInv, TypeOK, ExpandsConductor
  <2>2. /\ Adjacent(at)' = Adjacent(at) /\ left' = left /\ at' = at
        /\ \A e \in EdgeIds : Keep(e)' = Keep(e) /\ Neighbor(at, e)' = Neighbor(at, e)
    BY <1>1 DEF Adjacent, Keep, Neighbor, graph
  <2> QED
    BY <1>2, <1>3, <1>4, <2>1, <2>2 DEF ExpandsNearest
<1>7. ExpandedAreNear'
  <2> SUFFICES ASSUME NEW n \in Seen, Conducts(n), distance[n] < request.depth, n \notin Range(queue),
                      ~(phase' = "expanding" /\ n = at)
               PROVE  \A e \in KeptAdjacent(n)' : Near(n, e)'
    BY <1>1, <1>2, <1>4 DEF ExpandedAreNear
  <2>1. \A e \in KeptAdjacent(n) : Near(n, e)
    BY <1>1, <1>3 DEF ExpandedAreNear
  <2> QED
    BY <1>2, <2>1
<1> QED
  BY <1>5, <1>6, <1>7

(* A node is expanded to the end, or the work is used up. *)
LEMMA ExpandedBreadth ==
  ASSUME IInv, BreadthInv, Expanded
  PROVE  BreadthInv'
<1>1. /\ phase = "expanding" /\ (left = {} \/ work >= MaxWork) /\ phase' = "popping"
      /\ UNCHANGED <<graph, pending, distance, queue, edges, frontier, work, answer>>
  BY DEF Expanded
<1>2. /\ Seen' = Seen /\ distance' = distance /\ request' = request
      /\ \A n \in Seen : Conducts(n)' <=> Conducts(n)
      /\ \A n \in Seen : (\A e \in KeptAdjacent(n) : Near(n, e))
                           => \A e \in KeptAdjacent(n)' : Near(n, e)'
  BY <1>1, QuietNear
<1> SUFFICES ASSUME ~request.dfs
             PROVE  Sorted' /\ SeedsWait' /\ ExpandsNearest' /\ NextIsNearest' /\ ExpandedAreNear'
  BY <1>2 DEF BreadthInv
<1>3. Sorted /\ ExpandsNearest /\ ExpandedAreNear
  BY DEF BreadthInv
<1>4. Range(queue)' = Range(queue)
  BY <1>1 DEF Range
<1>5. /\ at \in Seen /\ at \in Nodes /\ distance \in [Seen -> Nat]
      /\ queue \in Seq(Nodes) /\ Range(queue) \subseteq Seen
  BY <1>1 DEF IInv, ExpandsConductor, TypeOK, Range
<1>6. NextIsNearest'
  <2> SUFFICES ASSUME queue # <<>>, NEW n \in Seen PROVE distance[n] <= distance[Head(queue)] + 1
    BY <1>1, <1>2 DEF NextIsNearest
  <2>1. Head(queue) \in Range(queue)
    BY <1>5, WithoutFirst
  <2>2. distance[at] <= distance[Head(queue)] /\ distance[n] <= distance[at] + 1
    BY <1>1, <1>3, <2>1 DEF ExpandsNearest
  <2> QED
    BY <1>5, <2>1, <2>2
<1>7. \A e \in KeptAdjacent(at) : Near(at, e)
  <2> SUFFICES ASSUME NEW e \in KeptAdjacent(at) PROVE Near(at, e)
    OBVIOUS
  <2>1. CASE Neighbor(at, e) \in Seen
    BY <1>1, <1>3, <2>1 DEF Near, ExpandsNearest
  <2>2. CASE Neighbor(at, e) \notin Seen
    <3>1. CASE left = {}
      <4>1. PICK side \in {"out", "in"} : <<e, side>> \in Adjacent(at)
        BY DEF KeptAdjacent
      <4>2. e \in EdgeIds /\ Keep(e)
        BY DEF KeptAdjacent
      <4> QED
        BY <1>1, <1>3, <2>2, <3>1, <4>1, <4>2 DEF Near, ExpandsNearest
    <3>2. CASE work >= MaxWork
      BY <2>2, <3>2 DEF Near, Full
    <3> QED
      BY <1>1, <3>1, <3>2
  <2> QED
    BY <2>1, <2>2
<1>8. ExpandedAreNear'
  <2> SUFFICES ASSUME NEW n \in Seen, Conducts(n), distance[n] < request.depth, n \notin Range(queue)
               PROVE  \A e \in KeptAdjacent(n)' : Near(n, e)'
    BY <1>1, <1>2, <1>4 DEF ExpandedAreNear
  <2>1. \A e \in KeptAdjacent(n) : Near(n, e)
    BY <1>1, <1>3, <1>7 DEF ExpandedAreNear
  <2> QED
    BY <1>2, <2>1
<1> QED
  BY <1>1, <1>3, <1>2, <1>6, <1>8 DEF Sorted, SeedsWait, ExpandsNearest

(* A new node is one step further than the one that is expanded, and is     *)
(* only seen while the walk is not full: no node expanded before leads to   *)
(* it.                                                                      *)
LEMMA LookBreadth ==
  ASSUME IInv, BreadthInv, Look
  PROVE  BreadthInv'
<1>1. /\ phase = "expanding" /\ work < MaxWork /\ request' = request
      /\ UNCHANGED <<graph, pending, at, phase, answer>>
  BY DEF Look, graph
<1> SUFFICES ASSUME ~request.dfs
             PROVE  Sorted' /\ SeedsWait' /\ ExpandsNearest' /\ NextIsNearest' /\ ExpandedAreNear'
  BY <1>1 DEF BreadthInv
<1>2. Sorted /\ ExpandsNearest /\ ExpandedAreNear
  BY DEF BreadthInv
<1>3. PICK item \in left :
        LET e == item[1]
            next == Neighbor(at, e)
        IN  /\ left' = left \ {item}
            /\ work' = work + 1
            /\ \/ ~Keep(e) /\ UNCHANGED <<distance, queue>>
               \/ Keep(e) /\ next \in Seen /\ UNCHANGED <<distance, queue>>
               \/ Keep(e) /\ Cardinality(Seen) >= request.nodes /\ UNCHANGED <<distance, queue>>
               \/ /\ Keep(e) /\ next \notin Seen /\ Cardinality(Seen) < request.nodes
                  /\ Discover(next, distance[at] + 1)
  BY DEF Look
<1> DEFINE e == item[1]
           next == Neighbor(at, e)
<1>4. /\ at \in Seen /\ at \in Nodes /\ distance[at] \in Nat /\ distance \in [Seen -> Nat]
      /\ item \in Adjacent(at) /\ Seen \subseteq Nodes /\ Range(queue) \subseteq Seen
  BY <1>1, <1>3 DEF IInv, ExpandsConductor, TypeOK, Range
<1>5. item = <<e, item[2]>> /\ e \in EdgeIds /\ item[2] \in {"out", "in"} /\ e \in Entries(at)
  BY <1>4 DEF Adjacent, Entries
<1>6. next \in Nodes
  BY <1>4, <1>5, EntryEnds DEF IInv
<1> HIDE DEF next
<1>7. /\ Cardinality(Seen) \in Nat /\ MaxWork \in Nat /\ request.nodes \in Nat /\ work \in Nat
      /\ work' \in Nat /\ work <= work'
  BY <1>3, LimitTypes, FS_CardinalityType DEF IInv, TypeOK
<1>8. \/ UNCHANGED <<distance, queue>> /\ (Keep(e) => next \in Seen \/ Full)
      \/ /\ Keep(e) /\ next \notin Seen /\ ~Full /\ Discover(next, distance[at] + 1)
  BY <1>1, <1>3, <1>7 DEF next, Full
<1>9. /\ Seen \subseteq Seen' /\ \A m \in Seen : distance'[m] = distance[m]
      /\ Range(queue)' = Range(queue) \cup (Seen' \ Seen)
      /\ \A m \in Seen' \ Seen : distance'[m] = distance[at] + 1
      /\ IsFiniteSet(Seen') /\ (Full => Seen' = Seen) /\ (Keep(e) => next \in Seen' \/ Full)
      /\ Sorted'
  <2>1. CASE UNCHANGED <<distance, queue>> /\ (Keep(e) => next \in Seen \/ Full)
    BY <1>2, <2>1 DEF Seen, Range, Sorted, IInv
  <2>2. CASE Keep(e) /\ next \notin Seen /\ ~Full /\ Discover(next, distance[at] + 1)
    <3>1. /\ Seen' = Seen \cup {next} /\ distance'[next] = distance[at] + 1
          /\ \A m \in Seen : distance'[m] = distance[m]
          /\ Range(queue') = Range(queue) \cup {next} /\ IsFiniteSet(Seen')
      BY <1>4, <1>6, <2>2, Discovery DEF IInv
    <3>2. \A m \in Range(queue) : distance[m] <= distance[at] + 1
      BY <1>1, <1>2, <1>4 DEF ExpandsNearest
    <3>3. Sorted'
      BY <1>2, <1>4, <1>6, <2>2, <3>2, SortedAppend
    <3>4. Range(queue)' = Range(queue')
      BY DEF Range
    <3> QED
      BY <2>2, <3>1, <3>3, <3>4
  <2> QED
    BY <1>8, <2>1, <2>2
<1>10. Full => Full'
  <2>1. UNCHANGED graph
    BY <1>1
  <2> QED
    BY <1>7, <1>9, <2>1, FullStays
<1>11. ExpandsNearest'
  <2>1. \A n \in Seen' : distance'[n] <= distance'[at] + 1
    BY <1>1, <1>2, <1>4, <1>9 DEF ExpandsNearest
  <2>2. \A n \in Range(queue)' : distance'[at] <= distance'[n]
    BY <1>1, <1>2, <1>4, <1>9 DEF ExpandsNearest
  <2>3. ASSUME NEW d \in EdgeIds, NEW side \in {"out", "in"},
               <<d, side>> \in Adjacent(at) \ left', Keep(d)
        PROVE  Neighbor(at, d) \in Seen' \/ Full'
    <3>1. CASE <<d, side>> = item
      <4>1. d = e
        BY <3>1
      <4> QED
        BY <1>9, <1>10, <2>3, <4>1 DEF next
    <3>2. CASE <<d, side>> # item
      <4>1. <<d, side>> \in Adjacent(at) \ left
        BY <1>3, <2>3, <3>2
      <4> QED
        BY <1>1, <1>2, <1>9, <1>10, <2>3, <4>1 DEF ExpandsNearest
    <3> QED
      BY <3>1, <3>2
  <2>4. /\ Adjacent(at)' = Adjacent(at) /\ at' = at
        /\ \A d \in EdgeIds : Keep(d)' = Keep(d) /\ Neighbor(at, d)' = Neighbor(at, d)
    BY <1>1 DEF Adjacent, Keep, Neighbor, graph
  <2> QED
    BY <1>1, <2>1, <2>2, <2>3, <2>4 DEF ExpandsNearest
<1>12. ExpandedAreNear'
  <2> SUFFICES ASSUME NEW n \in Seen', Conducts(n)', distance'[n] < request.depth,
                      n \notin Range(queue)', n # at
               PROVE  \A d \in KeptAdjacent(n)' : Near(n, d)'
    BY <1>1 DEF ExpandedAreNear
  <2>1. n \in Seen /\ n \notin Range(queue) /\ distance[n] < request.depth /\ Conducts(n)
    BY <1>9 DEF Conducts
  <2>2. \A d \in KeptAdjacent(n) : Near(n, d)
    BY <1>2, <2>1 DEF ExpandedAreNear
  <2>3. UNCHANGED graph
    BY <1>1
  <2> QED
    BY <1>7, <1>9, <2>1, <2>2, <2>3, NearStays
<1> QED
  BY <1>1, <1>9, <1>11, <1>12 DEF SeedsWait, NextIsNearest

LEMMA BreadthKept ==
  ASSUME IInv, BreadthInv, [Next]_vars
  PROVE  BreadthInv'
BY SeedBreadth, PopBreadth, StopBreadth, LookBreadth, ExpandedBreadth DEF Next

(* The one seed of a walk for dependents is the first node that is seen.    *)
LEMMA SeedStaysSeen ==
  ASSUME IInv, IInv', SeedIsSeen, [Next]_vars
  PROVE  SeedIsSeen'
<1> SUFFICES ASSUME request'.op = "dependents" PROVE SeedIsSeen'
  BY DEF SeedIsSeen
<1>1. request' = request
  BY DEF Next, Seed, Pop, Stop, Look, Expanded, Query, Dependents, vars, graph
<1>2. /\ Seen \subseteq Nodes /\ distance \in [Seen -> Nat] /\ request \in Requests
      /\ pending \in Seq(Nodes)
  BY DEF IInv, TypeOK
<1>3. CASE \E n \in Seen : distance[n] = 0
  <2>1. PICK n \in Seen : distance[n] = 0
    BY <1>3
  <2>2. n \in Seen' /\ distance'[n] = 0
    <3>1. CASE UNCHANGED distance
      BY <2>1, <3>1 DEF Seen
    <3>2. CASE \E m, d : Discover(m, d) /\ m \notin Seen
      <4>1. PICK m, d : Discover(m, d) /\ m \notin Seen
        BY <3>2
      <4> QED
        BY <2>1, <4>1 DEF Discover, Seen
    <3> QED
      BY <3>1, <3>2 DEF Next, Seed, Pop, Stop, Look, Expanded, Query, Dependents, vars
  <2> QED
    BY <2>2 DEF SeedIsSeen
<1>4. CASE phase = "seeding" /\ pending # <<>> /\ Seen = {}
  <2>1. Cardinality(Seen) = 0 /\ request.nodes \in Nat /\ request.nodes > 0
    BY <1>1, <1>2, <1>4, FS_EmptySet, WalkAssumption
  <2>2. CASE Seed
    <3>1. Discover(Head(pending), 0)
      BY <1>4, <2>1, <2>2 DEF Seed
    <3> QED
      BY <3>1 DEF Discover, Seen, SeedIsSeen
  <2>3. CASE UNCHANGED vars
    BY <1>4, <2>3 DEF SeedIsSeen, Seen, vars
  <2> QED
    BY <1>4, <2>2, <2>3 DEF Next, Pop, Stop, Look, Expanded, Query, Dependents
<1> QED
  BY <1>1, <1>3, <1>4 DEF SeedIsSeen

(* The dependents shown are all but the seed, if that many are allowed.     *)
LEMMA DependentsTold ==
  ASSUME IInv, SeedIsSeen, Dependents
  PROVE  AnswerIsTold'
<1>1. /\ phase = "walked" /\ request.op = "dependents" /\ phase' = "answered"
      /\ UNCHANGED <<graph, pending, distance, queue, at, left, edges, frontier, work, stop>>
  BY DEF Dependents
<1> DEFINE others == {n \in Seen : distance[n] > 0}
<1>2. PICK shown \in SUBSET others :
        /\ Cardinality(shown) = IF Cardinality(others) <= request.nodes - 1
                                THEN Cardinality(others) ELSE request.nodes - 1
        /\ answer' = [nodes |-> shown, edges |-> {}, frontier |-> frontier, truncated |-> ~Complete]
  BY DEF Dependents
<1>3. PICK seed \in Seen : distance[seed] = 0
  BY <1>1 DEF SeedIsSeen
<1>4. IsFiniteSet(Seen) /\ distance \in [Seen -> Nat]
  BY DEF IInv, TypeOK
<1>5. /\ IsFiniteSet(Seen \ {seed}) /\ Cardinality(Seen \ {seed}) = Cardinality(Seen) - 1
      /\ Cardinality(Seen) \in Nat /\ Cardinality(Seen) <= request.nodes /\ request.nodes \in Nat
  BY <1>3, <1>4, FS_RemoveElement, FS_CardinalityType, LimitTypes DEF IInv, LimitsAreKept
<1>6. others \subseteq Seen \ {seed}
  BY <1>3, <1>4
<1>7. IsFiniteSet(others) /\ Cardinality(others) \in Nat /\ Cardinality(others) <= request.nodes - 1
  BY <1>5, <1>6, FS_Subset, FS_CardinalityType
<1>8. shown = others
  BY <1>2, <1>7, FS_Subset
<1>9. \A n \in Seen : n \in others \/ distance[n] = 0
  BY <1>4
<1>10. Complete' = Complete /\ Seen' = Seen /\ hidden' = hidden /\ request' = request
  BY <1>1 DEF Complete, Seen, graph
<1> HIDE DEF others
<1>11. answer'.nodes = others /\ answer'.truncated = ~Complete
  BY <1>2, <1>8
<1> QED
  BY <1>1, <1>9, <1>10, <1>11 DEF AnswerIsTold

(* What a budget cut is told, and so is what the walk left out.             *)
LEMMA QueryTold ==
  ASSUME Query
  PROVE  AnswerIsTold'
<1>1. PICK shownEdges \in SUBSET edges, shownNodes \in SUBSET (Seen \ hidden) :
        answer' = [nodes |-> shownNodes, edges |-> shownEdges, frontier |-> frontier,
                   truncated |-> ~Complete \/ shownEdges # edges \/ shownNodes # Seen \ hidden]
  BY DEF Query
<1>2. Complete' = Complete /\ Seen' = Seen /\ hidden' = hidden
  BY DEF Query, Complete, Seen, graph
<1>3. /\ answer'.nodes = shownNodes
      /\ answer'.truncated = (~Complete \/ shownEdges # edges \/ shownNodes # Seen \ hidden)
  BY <1>1
<1> QED
  BY <1>2, <1>3 DEF AnswerIsTold

LEMMA AnswerStaysTold ==
  ASSUME IInv, SeedIsSeen, AnswerIsTold, [Next]_vars
  PROVE  AnswerIsTold'
<1>1. CASE Query \/ Dependents
  BY <1>1, QueryTold, DependentsTold
<1>2. CASE UNCHANGED vars
  BY <1>2 DEF AnswerIsTold, Complete, Seen, vars, graph
<1>3. CASE Seed \/ Pop \/ Stop \/ Look \/ Expanded
  BY <1>3 DEF AnswerIsTold, Seed, Pop, Stop, Look, Expanded
<1> QED
  BY <1>1, <1>2, <1>3 DEF Next

LEMMA ClaimsInvHolds == Spec => []ClaimsInv
<1>1. Init => ClaimsInv
  <2> SUFFICES ASSUME Init PROVE ClaimsInv
    OBVIOUS
  <2>1. /\ Seen = {} /\ queue = <<>> /\ phase = "seeding"
        /\ request.op = "dependents" => pending # <<>>
    BY WalkAssumption DEF Init, Seen
  <2> QED
    BY <2>1, InitHolds DEF ClaimsInv, BreadthInv, Sorted, SeedsWait, ExpandsNearest, NextIsNearest,
                           ExpandedAreNear, SeedIsSeen, AnswerIsTold
<1>2. ClaimsInv /\ [Next]_vars => ClaimsInv'
  BY StepKeeps, BreadthKept, SeedStaysSeen, AnswerStaysTold DEF ClaimsInv
<1> QED
  BY <1>1, <1>2, PTL DEF Spec

(* The types of the variables. *)
THEOREM WalkTypes == Spec => []TypeOK
<1>1. IInv => TypeOK
  BY DEF IInv
<1> QED
  BY <1>1, InvariantHolds, PTL

(* What a walk says is true: breadth first (walk.rs, pop), no edge of a     *)
(* node it was conducted through gives a shorter way to another that it     *)
(* saw, wherever a limit cut it; and an answer that is not called truncated *)
(* (query.rs, query and dependents) has every node of the closure that is   *)
(* visible.                                                                 *)
THEOREM ClaimsHold == Spec => []ClaimsAreTrue
<1>1. ClaimsInv => DistancesAreShortest
  <2> SUFFICES ASSUME ClaimsInv, phase \in {"walked", "answered"}, ~request.dfs,
                      NEW n \in Seen, Conducts(n), distance[n] < request.depth,
                      NEW e \in KeptAdjacent(n), Neighbor(n, e) \in Seen
               PROVE  distance[Neighbor(n, e)] <= distance[n] + 1
    BY DEF DistancesAreShortest
  <2>1. NextIsNearest /\ Sorted /\ ExpandedAreNear
    BY DEF ClaimsInv, BreadthInv
  <2>2. CASE n \in Range(queue)
    <3>1. /\ queue \in Seq(Nodes) /\ Range(queue) \subseteq Seen /\ distance \in [Seen -> Nat]
      BY DEF ClaimsInv, IInv, TypeOK, Range
    <3>2. PICK k \in DOMAIN queue : queue[k] = n
      BY <2>2 DEF Range
    <3>3. queue # <<>> /\ 1 \in DOMAIN queue /\ 1 <= k /\ Head(queue) = queue[1] /\ queue[1] \in Range(queue)
      BY <3>1, <3>2 DEF Range
    <3>4. distance[Head(queue)] <= distance[n]
      BY <2>1, <3>2, <3>3 DEF Sorted
    <3>5. distance[Neighbor(n, e)] <= distance[Head(queue)] + 1
      BY <2>1, <3>3 DEF NextIsNearest
    <3> QED
      BY <3>1, <3>3, <3>4, <3>5
  <2>3. CASE n \notin Range(queue)
    BY <2>1, <2>3 DEF ExpandedAreNear, Near
  <2> QED
    BY <2>2, <2>3
<1>2. ClaimsInv /\ CompleteIsClosed => UntruncatedIsWhole
  <2> SUFFICES ASSUME ClaimsInv, CompleteIsClosed, phase = "answered", ~answer.truncated
               PROVE  /\ \A n \in Seen \ hidden :
                           n \in answer.nodes \/ (request.op = "dependents" /\ distance[n] = 0)
                      /\ \A n \in Seen : Conducts(n) =>
                           \A e \in KeptAdjacent(n) : Neighbor(n, e) \in Seen
    BY DEF UntruncatedIsWhole
  <2> QED
    BY DEF ClaimsInv, AnswerIsTold, CompleteIsClosed
<1> QED
  BY <1>1, <1>2, ClaimsInvHolds, CompleteWalksAreClosed, PTL DEF ClaimsAreTrue

-----------------------------------------------------------------------------
(* The event calls of a source file: what each identifier may come from     *)
(* lies between what surely and what possibly reaches it.                   *)

(* The statements of the file. *)
Places == 1..Len(sourceFile.statements)

LEMMA ProvidersAreTransports ==
  ASSUME NEW says
  PROVE  ProvidersIn(says) \subseteq Transports
BY DEF ProvidersIn, Transports, TransportOrder, Range

LEMMA ImportsAreTransports ==
  ASSUME NEW i
  PROVE  ImportedAs(i) \subseteq Transports /\ Hints \subseteq Transports
<1>1. \A j : ImportedAs(j) \subseteq Transports
  BY ProvidersAreTransports DEF ImportedAs
<1> QED
  BY <1>1 DEF Hints

(* What passes on to a statement is one of the transports.                  *)
LEMMA BeforeIsTransports ==
  ASSUME NEW assigned \in Seq(SUBSET Transports), NEW i, NEW k \in Nat
  PROVE  PassedOn(i, k, assigned) \subseteq Transports
<1>1. \A p \in DOMAIN assigned : assigned[p] \subseteq Transports
  OBVIOUS
<1> QED
  BY <1>1, ImportsAreTransports DEF PassedOn

(* A trace says of every statement what is its own, and what passes on to   *)
(* what it reads.                                                           *)
LEMMA TracedTells ==
  ASSUME IsSource(sourceFile), NEW reads, NEW own \in [Places -> SUBSET Transports]
  PROVE  /\ Traced(reads, own) \in [Places -> SUBSET Transports]
         /\ \A k \in Places :
              Traced(reads, own)[k] = own[k] \cup UNION {PassedOn(i, k, Traced(reads, own)) : i \in reads[k]}
<1> DEFINE n == Len(sourceFile.statements)
           S == Seq(SUBSET Transports)
           Passed(k, s) == own[k] \cup UNION {PassedOn(i, k, s) : i \in reads[k]}
           F == [k \in 1..n |-> [s \in S |-> Append(s, Passed(k, s))]]
           Body(w) == [k \in 0..n |-> IF k = 0 THEN <<>> ELSE Append(w[k - 1], Passed(k, w[k - 1]))]
           A == CHOOSE w : w = Body(w)
<1>1. Traced(reads, own) = A[n]
  BY DEF Traced
<1>2. n \in Nat /\ Places = 1..n
  BY DEF IsSource, Places
<1>3. ASSUME NEW s \in S, NEW k \in 1..n
      PROVE  Passed(k, s) \in SUBSET Transports
  <2>1. own[k] \subseteq Transports
    BY <1>2
  <2>2. \A i : PassedOn(i, k, s) \subseteq Transports
    <3>1. k \in Nat /\ s \in Seq(SUBSET Transports)
      BY <1>2
    <3> QED
      BY <3>1, BeforeIsTransports
  <2> QED
    BY <2>1, <2>2
<1> HIDE DEF n, Passed
<1>4. F \in [1..n -> [S -> S]] /\ \A k \in 1..n : \A s \in S : F[k][s] = Append(s, Passed(k, s))
  BY <1>2, <1>3
<1>5. PICK c : IsIndexedIteration(c, n, S, <<>>, F)
  <2> HIDE DEF F
  <2>1. <<>> \in S
    BY DEF S
  <2> QED
    BY <1>2, <1>4, <2>1, IndexedIterationExists
<1> HIDE DEF S
<1>6. /\ c \in [0..n -> S] /\ c[0] = <<>>
      /\ \A k \in 1..n : c[k] = Append(c[k - 1], Passed(k, c[k - 1]))
  <2> HIDE DEF F
  <2>1. ASSUME NEW k \in 1..n
        PROVE  c[k - 1] \in S /\ c[k] = F[k][c[k - 1]]
    <3>1. k - 1 \in 0..n
      BY <1>2
    <3> QED
      BY <1>5, <3>1 DEF IsIndexedIteration
  <2> QED
    BY <1>4, <1>5, <2>1 DEF IsIndexedIteration
<1> HIDE DEF F
<1>7. c = Body(c)
  <2>1. \A k \in 0..n : k = 0 \/ k \in 1..n
    BY <1>2
  <2>2. \A k \in 0..n : c[k] = IF k = 0 THEN <<>> ELSE Append(c[k - 1], Passed(k, c[k - 1]))
    BY <1>2, <1>6, <2>1
  <2> QED
    BY <1>6, <2>2
<1>8. A = Body(A)
  <2> HIDE DEF Body
  <2> QED
    BY <1>7
<1> HIDE DEF A
<1>9. A[0] = <<>> /\ \A k \in 1..n : A[k] = Append(A[k - 1], Passed(k, A[k - 1]))
  <2>1. \A k \in 0..n : A[k] = Body(A)[k]
    <3> HIDE DEF Body
    <3> QED
      BY <1>8
  <2>2. 0 \in 0..n /\ \A k \in 1..n : k \in 0..n /\ k # 0
    BY <1>2
  <2> QED
    BY <2>1, <2>2
<1> HIDE DEF Body
<1> DEFINE Grown(k) == A[k] \in S /\ Len(A[k]) = k /\ \A j \in 0..k : \A p \in 1..j : A[k][p] = A[j][p]
           T == {k \in 0..n : Grown(k)}
<1>10. Grown(0)
  BY <1>9 DEF S
<1>11. ASSUME NEW k \in 0..n, k < n, Grown(k)
       PROVE  Grown(k + 1)
  <2>1. k + 1 \in 1..n /\ k + 1 - 1 = k /\ k \in Nat
    BY <1>2, <1>11
  <2>2. A[k + 1] = Append(A[k], Passed(k + 1, A[k])) /\ Passed(k + 1, A[k]) \in SUBSET Transports
    BY <1>3, <1>9, <1>11, <2>1
  <2>3. A[k + 1] \in S /\ Len(A[k + 1]) = k + 1 /\ \A p \in 1..k : A[k + 1][p] = A[k][p]
    BY <1>11, <2>1, <2>2 DEF S
  <2>4. ASSUME NEW j \in 0..(k + 1), NEW p \in 1..j
        PROVE  A[k + 1][p] = A[j][p]
    <3>1. j = k + 1 \/ j \in 0..k
      BY <2>1
    <3>2. j \in 0..k => p \in 1..k
      BY <2>1
    <3> QED
      BY <1>11, <2>3, <3>1, <3>2
  <2> QED
    BY <2>3, <2>4
<1>12. \A k \in 0..n : k \in T
  <2>1. 0 \in T
    BY <1>2, <1>10
  <2>2. \A k \in 0..n : k < n /\ k \in T => k + 1 \in T
    <3> HIDE DEF Grown
    <3> QED
      BY <1>2, <1>11
  <2> HIDE DEF T
  <2> QED
    BY <1>2, <2>1, <2>2, BoundedInduction
<1>13. \A k \in 0..n : Grown(k)
  BY <1>12
<1>14. A[n] \in S /\ Len(A[n]) = n
  BY <1>2, <1>13
<1>15. ASSUME NEW k \in 1..n
       PROVE  A[n][k] = Passed(k, A[n])
  <2>1. k \in 0..n /\ k - 1 \in 0..n /\ k \in Nat /\ k - 1 \in Nat
    BY <1>2
  <2>2. A[n][k] = A[k][k] /\ Grown(k - 1) /\ \A p \in 1..(k - 1) : A[n][p] = A[k - 1][p]
    <3>1. Grown(n) /\ Grown(k - 1) /\ n \in 0..n
      BY <1>2, <1>13, <2>1
    <3>2. k \in 1..k /\ \A p \in 1..(k - 1) : p \in 1..k
      BY <1>2
    <3> QED
      BY <2>1, <3>1, <3>2
  <2>3. A[k][k] = Passed(k, A[k - 1])
    BY <1>9, <2>1, <2>2 DEF S
  <2>4. ASSUME NEW i
        PROVE  PassedOn(i, k, A[k - 1]) = PassedOn(i, k, A[n])
    <3>1. DOMAIN A[k - 1] = 1..(k - 1) /\ DOMAIN A[n] = 1..n
      BY <1>14, <2>2 DEF S
    <3>2. \A q : (q \in DOMAIN A[k - 1] /\ q < k) <=> (q \in DOMAIN A[n] /\ q < k)
      BY <1>2, <2>1, <3>1
    <3> QED
      BY <2>1, <2>2, <3>1, <3>2 DEF PassedOn
  <2> QED
    BY <2>2, <2>3, <2>4 DEF Passed
<1> QED
  BY <1>1, <1>2, <1>14, <1>15 DEF S, Passed

(* What a call finds is of a transport its hints name, or it is written in  *)
(* the way of one.                                                          *)
HasEvidence(d, call, hints) ==
  /\ "transport" \in DOMAIN d /\ "certainty" \in DOMAIN d
  /\ d.transport \in hints \cup Written(call) \cup ProvidersIn(call.says)

LEMMA AmqpHasEvidence ==
  ASSUME NEW call, NEW hints, NEW d \in DetectAmqp(call, hints)
  PROVE  HasEvidence(d, call, hints)
<1> DEFINE Plain(e) == /\ "transport" \in DOMAIN e /\ "certainty" \in DOMAIN e
                       /\ e.transport = "amqp"
<1>1. \A entity, role, values : Plain(Detection("amqp", entity, role, values))
  BY DEF Detection
<1>7. \A e, x : Plain(e) => Plain([e EXCEPT !.group = x])
  OBVIOUS
<1>2. \A e, x : Plain(e) => Plain([e EXCEPT !.exchange = x])
  OBVIOUS
<1>3. \A e, x, y : Plain(e) => Plain([e EXCEPT !.exchange = x, !.key = y])
  OBVIOUS
<1> HIDE DEF Plain
<1>4. PICK e : Plain(e) /\ d = [e EXCEPT !.transport = IF "rabbitmq" \in hints THEN "rabbitmq" ELSE @]
  BY <1>1, <1>3, <1>7 DEF DetectAmqp
<1>5. hints \cap {"amqp", "rabbitmq"} # {} \/ call.name \in ExplicitAmqp \/ "amqp" \in call.says
  BY DEF DetectAmqp
<1>6. /\ "transport" \in DOMAIN d /\ "certainty" \in DOMAIN d
      /\ d.transport = IF "rabbitmq" \in hints THEN "rabbitmq" ELSE "amqp"
  BY <1>4 DEF Plain
<1> QED
  BY <1>5, <1>6 DEF HasEvidence, Written

LEMMA AwsHasEvidence ==
  ASSUME NEW call, NEW hints, NEW d \in DetectAws(call, hints)
  PROVE  HasEvidence(d, call, hints)
<1> DEFINE Plain(e, t) == "transport" \in DOMAIN e /\ "certainty" \in DOMAIN e /\ e.transport = t
<1>1. \A t, entity, role, values : Plain(Detection(t, entity, role, values), t)
  BY DEF Detection
<1>2. \A e, t, x, y : Plain(e, t) => Plain([e EXCEPT !.exchange = x, !.key = y], t)
  OBVIOUS
<1> HIDE DEF Plain
<1>3. CASE "sqs" \in hints \cup call.says \/ PropertyOf(call, {"queueurl"}) # NoValue
  <2>1. Plain(d, "sqs")
    BY <1>1, <1>3 DEF DetectAws
  <2> QED
    BY <1>3, <2>1 DEF Plain, HasEvidence, Written, ProvidersIn, Transports, TransportOrder, Range
<1>4. CASE ~("sqs" \in hints \cup call.says \/ PropertyOf(call, {"queueurl"}) # NoValue)
  <2>1. "sns" \in hints \cup call.says \/ PropertyOf(call, {"topicarn"}) # NoValue
    BY <1>4 DEF DetectAws
  <2>2. Plain(d, "sns")
    <3> DEFINE topics == [publish |-> "producer", subscribe |-> "bind", createtopic |-> "declare"]
               side(n) == [Detection("sns", IF topics[n] = "bind" THEN "binding" ELSE "topic", topics[n],
                                     WrittenValues(call, {"topicarn", "name"}, 1))
                             EXCEPT !.exchange = PropertyOf(call, {"protocol"}), !.key = PropertyOf(call, {"endpoint"})]
    <3>1. d \in {side(n) : n \in DOMAIN topics \cap {call.name}}
      BY <1>4 DEF DetectAws
    <3>2. \A n : Plain(side(n), "sns")
      BY <1>1, <1>2
    <3> HIDE DEF side, topics
    <3> QED
      BY <3>1, <3>2
  <2> QED
    BY <2>1, <2>2 DEF Plain, HasEvidence, Written, ProvidersIn, Transports, TransportOrder, Range
<1> QED
  BY <1>3, <1>4

LEMMA KafkaHasEvidence ==
  ASSUME NEW call, NEW hints, NEW d \in DetectKafka(call, hints)
  PROVE  HasEvidence(d, call, hints)
<1> DEFINE group == PropertyOf(call, {"groupid", "group"})
           Sides == {[Detection("kafka", "topic", role, values) EXCEPT !.group = group] :
                       role \in {"producer", "consumer", "declare"}, values \in
                       {<<>>, WrittenValues(call, {"topic"}, 1), WrittenValues(call, {}, 1),
                        WrittenValues(call, {"topic", "topics"}, 1)}}
<1>0. d \in Sides
  <2> DEFINE of(role, names) == {[Detection("kafka", "topic", role, WrittenValues(call, names, 1)) EXCEPT !.group = group]}
             declared == {[Detection("kafka", "topic", "declare", <<>>) EXCEPT !.group = group]}
  <2>1. \/ d \in of("producer", {"topic"}) \/ d \in of("producer", {})
        \/ d \in of("consumer", {"topic", "topics"}) \/ d \in of("consumer", {"topic"})
        \/ d \in of("consumer", {}) \/ d \in declared
    BY DEF DetectKafka
  <2> QED
    BY <2>1
<1>1. PICK role, values : d = [Detection("kafka", "topic", role, values) EXCEPT !.group = group]
  BY <1>0
<1>2. "kafka" \in hints \/ call.name \in ExplicitKafka \/ "record" \in call.says
  BY DEF DetectKafka
<1>3. /\ "transport" \in DOMAIN d /\ "certainty" \in DOMAIN d
      /\ d.transport = "kafka"
  BY <1>1 DEF Detection
<1> QED
  BY <1>2, <1>3 DEF HasEvidence, Written

LEMMA JmsHasEvidence ==
  ASSUME NEW call, NEW hints, NEW d \in DetectJms(call, hints)
  PROVE  HasEvidence(d, call, hints)
<1>1. \E entity, role, values, x : d = [Detection("jms", entity, role, values) EXCEPT !.group = x]
  BY DEF DetectJms
<1>2. "jms" \in hints \/ "jms" \in call.says \/ call.name \in ExplicitJms
  BY DEF DetectJms
<1>3. "jms" \in call.says => "jms" \in ProvidersIn(call.says)
  BY DEF ProvidersIn, Transports, TransportOrder, Range
<1> QED
  BY <1>1, <1>2, <1>3 DEF HasEvidence, Written, Detection

LEMMA NatsHasEvidence ==
  ASSUME NEW call, NEW hints, NEW d \in DetectNats(call, hints)
  PROVE  HasEvidence(d, call, hints)
<1>1. \E entity, role, values, x : d = [Detection("nats", entity, role, values) EXCEPT !.group = x]
  BY DEF DetectNats
<1>2. "nats" \in hints \/ "nats" \in call.says
  BY DEF DetectNats
<1>3. "nats" \in call.says => "nats" \in ProvidersIn(call.says)
  BY DEF ProvidersIn, Transports, TransportOrder, Range
<1> QED
  BY <1>1, <1>2, <1>3 DEF HasEvidence, Detection

LEMMA DetectionHasEvidence ==
  ASSUME NEW call, NEW hints, NEW d \in DetectWithHints(call, hints)
  PROVE  HasEvidence(d, call, hints)
<1>1. \/ d \in DetectAmqp(call, hints) \/ d \in DetectAws(call, hints) \/ d \in DetectKafka(call, hints)
      \/ d \in DetectJms(call, hints) \/ d \in DetectNats(call, hints)
  <2> DEFINE all == <<DetectAmqp(call, hints), DetectAws(call, hints), DetectKafka(call, hints),
                     DetectJms(call, hints), DetectNats(call, hints)>>
  <2>1. PICK k \in DOMAIN all : d \in all[k]
    BY DEF DetectWithHints
  <2>2. k \in 1..5
    BY <2>1
  <2> QED
    BY <2>1, <2>2
<1> QED
  BY <1>1, AmqpHasEvidence, AwsHasEvidence, KafkaHasEvidence, JmsHasEvidence, NatsHasEvidence

-----------------------------------------------------------------------------
(* What the statements so far pass on, from below and from above.           *)

OwnOrigins ==
  [k \in DOMAIN sourceFile.statements |->
     LET s == sourceFile.statements[k]
     IN  IF s.kind # "call" THEN {}
         ELSE ProvidersIn(s.says) \cup Written(s) \cup Configured(s) \cup IF Known(k) = {} THEN Hints ELSE {}]

LEMMA SurelyTells ==
  ASSUME IsSource(sourceFile)
  PROVE  /\ Surely \in [Places -> SUBSET Transports]
         /\ \A k \in Places : Surely[k] = UNION {PassedOn(i, k, Surely) : i \in Reads(sourceFile.statements[k])}
<1> DEFINE none == [k \in DOMAIN sourceFile.statements |-> {}]
           reads == [k \in DOMAIN sourceFile.statements |-> Reads(sourceFile.statements[k])]
<1>1. DOMAIN sourceFile.statements = Places
  BY DEF IsSource, Places
<1>2. none \in [Places -> SUBSET Transports]
  BY <1>1
<1>3. Surely = Traced(reads, none)
  BY DEF Surely
<1>4. \A k \in Places : none[k] = {} /\ reads[k] = Reads(sourceFile.statements[k])
  BY <1>1
<1> HIDE DEF none, reads
<1>5. /\ Surely \in [Places -> SUBSET Transports]
      /\ \A k \in Places : Surely[k] = none[k] \cup UNION {PassedOn(i, k, Surely) : i \in reads[k]}
  BY <1>2, <1>3, TracedTells
<1> QED
  BY <1>4, <1>5

LEMMA OwnIsTransports ==
  ASSUME IsSource(sourceFile)
  PROVE  OwnOrigins \in [Places -> SUBSET Transports]
<1>1. DOMAIN sourceFile.statements = Places
  BY DEF IsSource, Places
<1>2. ASSUME NEW s
      PROVE  Written(s) \subseteq Transports /\ Configured(s) \subseteq Transports
  BY DEF Written, Configured, Transports, TransportOrder, Range
<1> QED
  BY <1>1, <1>2, ProvidersAreTransports, ImportsAreTransports DEF OwnOrigins

LEMMA PossiblyTells ==
  ASSUME IsSource(sourceFile)
  PROVE  /\ Possibly \in [Places -> SUBSET Transports]
         /\ \A k \in Places : Possibly[k] =
              OwnOrigins[k] \cup UNION {PassedOn(i, k, Possibly) : i \in Mentions(sourceFile.statements[k])}
<1> DEFINE reads == [k \in DOMAIN sourceFile.statements |-> Mentions(sourceFile.statements[k])]
<1>1. DOMAIN sourceFile.statements = Places
  BY DEF IsSource, Places
<1>2. Possibly = Traced(reads, OwnOrigins)
  BY DEF Possibly, OwnOrigins
<1>3. \A k \in Places : reads[k] = Mentions(sourceFile.statements[k])
  BY <1>1
<1> HIDE DEF reads
<1>4. /\ Possibly \in [Places -> SUBSET Transports]
      /\ \A k \in Places : Possibly[k] = OwnOrigins[k] \cup UNION {PassedOn(i, k, Possibly) : i \in reads[k]}
  BY <1>2, OwnIsTransports, TracedTells
<1> QED
  BY <1>3, <1>4

(* One statement more.                                                      *)
LEMMA BeforeGrows ==
  ASSUME IsSource(sourceFile), NEW assigned \in [Places -> SUBSET Transports], NEW k \in Places, NEW i
  PROVE  PassedOn(i, k + 1, assigned) = PassedOn(i, k, assigned) \cup
           (IF i # NoValue /\ sourceFile.statements[k].kind # "import" /\ sourceFile.statements[k].variable = i
            THEN assigned[k] ELSE {})
<1> DEFINE Assigns(q) == i # NoValue /\ sourceFile.statements[q].kind # "import" /\ sourceFile.statements[q].variable = i
           Earlier(m) == {q \in Places : q < m /\ Assigns(q)}
<1>1. \A m : PassedOn(i, m, assigned) = ImportedAs(i) \cup UNION {assigned[p] : p \in Earlier(m)}
  BY DEF PassedOn
<1>2. Earlier(k + 1) = Earlier(k) \cup (IF Assigns(k) THEN {k} ELSE {})
  <2> HIDE DEF Assigns
  <2>1. \A q \in Places : q < k + 1 <=> q < k \/ q = k
    BY DEF Places
  <2> QED
    BY <2>1
<1> HIDE DEF Earlier
<1> QED
  BY <1>1, <1>2

-----------------------------------------------------------------------------
(* The transports of an identifier lie between what surely and what         *)
(* possibly reaches it.                                                     *)
OriginsBetween ==
  /\ transports \in [Identifiers -> SUBSET Transports]
  /\ \A i \in Identifiers : /\ PassedOn(i, nextStatement, Surely) \subseteq transports[i]
                             /\ transports[i] \subseteq PassedOn(i, nextStatement, Possibly)

IsProven(o) ==
  /\ o.transport \in Possibly[o.at]
  /\ o.certainty = "exact" /\ Known(o.at) # {} =>
       \E t \in Known(o.at) :
         Known(o.at) = {t} /\ o.transport \in {t} \cup Written(sourceFile.statements[o.at])

ExtractionInv ==
  /\ sourceFile \in SourceFiles /\ nextStatement \in 1..(Len(sourceFile.statements) + 1)
  /\ OriginsBetween
  /\ \A o \in observations : IsProven(o)

LEMMA MentionsAreIdentifiers ==
  ASSUME IsSource(sourceFile), NEW k \in Places
  PROVE  LET s == sourceFile.statements[k]
         IN  /\ Mentions(s) \subseteq Identifiers
             /\ s.kind # "import" => s.variable \in Identifiers
<1> DEFINE s == sourceFile.statements[k]
           Of(x) == CASE x.kind = "import" -> x.names
                      [] x.kind = "assign" -> {x.variable} \cup x.reads
                      [] x.kind = "call" -> {x.variable, x.receiver, x.identifier} \cup x.chain
                                             \cup {a.identifier : a \in Range(x.args)}
<1>1. s \in Range(sourceFile.statements) /\ s.kind \in {"import", "assign", "call"}
  BY DEF IsSource, Places, Range
<1>2. Of(s) \subseteq Identifiers
  BY <1>1 DEF Identifiers
<1> HIDE DEF s
<1>3. CASE s.kind = "import"
  BY <1>3 DEF Mentions, Reads, s
<1>4. CASE s.kind = "assign"
  BY <1>2, <1>4 DEF Mentions, Reads, s
<1>5. CASE s.kind = "call"
  BY <1>2, <1>5 DEF Mentions, Reads, s
<1> QED
  BY <1>1, <1>3, <1>4, <1>5 DEF s

LEMMA OriginsAreBetween ==
  ASSUME IsSource(sourceFile), OriginsBetween, NEW k \in Places, nextStatement = k,
         sourceFile.statements[k].kind = "call"
  PROVE  LET call == sourceFile.statements[k]
         IN  /\ Known(k) \subseteq Direct(call) /\ Direct(call) \subseteq Possibly[k]
             /\ Direct(call) \subseteq Transports
             /\ Surely[k] \subseteq Origins(call)
             /\ OwnOrigins[k] \subseteq Possibly[k]
<1> DEFINE call == sourceFile.statements[k]
<1>1. /\ Mentions(call) = {call.receiver, call.identifier} \cup call.chain
      /\ Reads(call) = {call.receiver, call.identifier}
  BY DEF Mentions, Reads
<1>2. \A i \in Mentions(call) : i \in Identifiers
  BY MentionsAreIdentifiers
<1>3. k \in DOMAIN sourceFile.statements
  BY DEF Places, IsSource
<1>4. ProvidersIn(call.says) \subseteq OwnOrigins[k] /\ OwnOrigins[k] \subseteq Possibly[k]
  BY <1>3, PossiblyTells DEF OwnOrigins
<1>5. \A i \in Mentions(call) : /\ PassedOn(i, k, Surely) \subseteq transports[i]
                                /\ transports[i] \subseteq Possibly[k] /\ transports[i] \subseteq Transports
  BY <1>2, PossiblyTells DEF OriginsBetween
<1>6. Surely[k] = UNION {PassedOn(i, k, Surely) : i \in Reads(call)}
  BY SurelyTells
<1>7. Known(k) = ProvidersIn(call.says) \cup UNION {PassedOn(i, k, Surely) : i \in Mentions(call)}
  BY DEF Known
<1>8. ProvidersIn(call.says) \subseteq Transports
  BY ProvidersAreTransports
<1> HIDE DEF call
<1>9. Direct(call) = ProvidersIn(call.says) \cup UNION {transports[i] : i \in Mentions(call)}
  <2>1. ASSUME NEW x
        PROVE  x \in Direct(call) <=> \/ x \in ProvidersIn(call.says)
                                      \/ \E i \in {call.receiver, call.identifier} \cup call.chain : x \in transports[i]
    BY DEF Direct, Origins
  <2>2. ASSUME NEW x
        PROVE  x \in Direct(call) <=> x \in ProvidersIn(call.says) \cup UNION {transports[i] : i \in Mentions(call)}
    <3>1. x \in UNION {transports[i] : i \in Mentions(call)} <=> \E i \in Mentions(call) : x \in transports[i]
      OBVIOUS
    <3> QED
      BY <1>1, <2>1, <3>1
  <2> QED
    BY <2>2
<1>10. Origins(call) = UNION {transports[i] : i \in Reads(call)} /\ Reads(call) \subseteq Mentions(call)
  BY <1>1 DEF Origins
<1>11. Known(k) \subseteq Direct(call)
  BY <1>5, <1>7, <1>9
<1>12. Direct(call) \subseteq Possibly[k] /\ Direct(call) \subseteq Transports
  BY <1>4, <1>5, <1>8, <1>9
<1>13. Surely[k] \subseteq Origins(call)
  BY <1>5, <1>6, <1>10
<1> QED
  BY <1>4, <1>11, <1>12, <1>13 DEF call

(* Everything a call is found to be.                                        *)
LEMMA FoundIsProven ==
  ASSUME IsSource(sourceFile), OriginsBetween, NEW k \in Places, nextStatement = k,
         sourceFile.statements[k].kind = "call", NEW d \in Detect(sourceFile.statements[k])
  PROVE  /\ d.transport \in Possibly[k]
         /\ d.certainty = "exact" /\ Known(k) # {} =>
              \E t \in Known(k) : Known(k) = {t} /\ d.transport \in {t} \cup Written(sourceFile.statements[k])
<1> DEFINE call == sourceFile.statements[k]
           found == Candidates(call)
<1>1. /\ Known(k) \subseteq Direct(call) /\ Direct(call) \subseteq Possibly[k] /\ Direct(call) \subseteq Transports
      /\ OwnOrigins[k] \subseteq Possibly[k]
  BY OriginsAreBetween
<1>2. /\ ProvidersIn(call.says) \subseteq OwnOrigins[k] /\ Written(call) \subseteq OwnOrigins[k]
      /\ Known(k) = {} => Hints \subseteq OwnOrigins[k]
  BY DEF OwnOrigins, Places, IsSource
<1>3. ProvidersIn(call.says) \subseteq Known(k)
  BY DEF Known
<1>4. Direct(call) = {} => found \subseteq Hints
  BY DEF Candidates
<1>5. Direct(call) # {} => found = Direct(call)
  BY DEF Candidates
<1> HIDE DEF call
<1>6. CASE found = {}
  <2>1. d \in DetectWithHints(call, Hints)
    BY <1>6 DEF Detect, call
  <2>2. d.transport \in Hints \cup Written(call) \cup ProvidersIn(call.says)
    BY <2>1, DetectionHasEvidence DEF HasEvidence
  <2>3. Known(k) = {}
    BY <1>1, <1>5, <1>6
  <2> QED
    BY <1>1, <1>2, <2>2, <2>3
<1>7. CASE found # {}
  <2>0. PICK t \in found : \E x \in DetectWithHints(call, {t}) : d = [x EXCEPT !.certainty = Certainty(found)]
    BY <1>7 DEF Detect, call
  <2>1. PICK e \in DetectWithHints(call, {t}) : d = [e EXCEPT !.certainty = Certainty(found)]
    BY <2>0
  <2>2. HasEvidence(e, call, {t})
    BY <2>1, DetectionHasEvidence
  <2>3. d.transport = e.transport /\ d.certainty = Certainty(found)
    BY <2>1, <2>2 DEF HasEvidence
  <2>4. d.transport \in {t} \cup Written(call) \cup ProvidersIn(call.says)
    BY <2>2, <2>3 DEF HasEvidence
  <2>5. t \in Possibly[k]
    <3>1. CASE Direct(call) = {}
      <4>1. Known(k) = {} /\ t \in Hints
        BY <1>1, <1>4, <2>1, <3>1
      <4> QED
        BY <1>1, <1>2, <4>1
    <3>2. CASE Direct(call) # {}
      BY <1>1, <1>5, <2>1, <3>2
    <3> QED
      BY <3>1, <3>2
  <2>6. d.transport \in Possibly[k]
    BY <1>1, <1>2, <2>4, <2>5
  <2>7. ASSUME d.certainty = "exact", Known(k) # {}
        PROVE  \E u \in Known(k) : Known(k) = {u} /\ d.transport \in {u} \cup Written(call)
    <3>1. found = Direct(call) /\ Known(k) \subseteq found
      BY <1>1, <1>5, <2>7
    <3>2. ~(Cardinality(found) > 1)
      BY <2>3, <2>7 DEF Certainty
    <3>3. IsFiniteSet(found)
      <4>1. IsFiniteSet(Transports)
        <5>1. Transports = {"kafka", "amqp", "rabbitmq", "jms", "nats", "sqs", "sns"}
          BY DEF Transports, TransportOrder, Range
        <5>2. \A S, x : IsFiniteSet(S) => IsFiniteSet(S \cup {x})
          BY FS_AddElement
        <5>3. IsFiniteSet({"kafka"} \cup {"amqp"} \cup {"rabbitmq"} \cup {"jms"})
          BY <5>2, FS_Singleton
        <5>4. IsFiniteSet({"kafka"} \cup {"amqp"} \cup {"rabbitmq"} \cup {"jms"} \cup {"nats"} \cup {"sqs"} \cup {"sns"})
          BY <5>2, <5>3
        <5>5. Transports = {"kafka"} \cup {"amqp"} \cup {"rabbitmq"} \cup {"jms"} \cup {"nats"} \cup {"sqs"} \cup {"sns"}
          BY <5>1
        <5> QED
          BY <5>4, <5>5
      <4> QED
        BY <1>1, <3>1, <4>1, FS_Subset
    <3>4. Cardinality(found) = 1
      BY <2>1, <3>2, <3>3, FS_CardinalityType, FS_EmptySet
    <3>5. found = {t}
      <4>1. PICK u : found = {u}
        BY <3>3, <3>4, FS_Singleton
      <4> QED
        BY <2>1, <4>1
    <3> QED
      BY <1>3, <2>4, <2>7, <3>1, <3>5
  <2> QED
    BY <2>6, <2>7 DEF call
<1> QED
  BY <1>6, <1>7

(* What is known of a file stays as it is while the file is read.           *)
LEMMA MeaningStays ==
  ASSUME sourceFile' = sourceFile
  PROVE  /\ Surely' = Surely /\ Possibly' = Possibly /\ Identifiers' = Identifiers
         /\ \A k : Known(k)' = Known(k)
         /\ \A i, k, assigned : PassedOn(i, k, assigned)' = PassedOn(i, k, assigned)
<1>1. \A i : ImportedAs(i)' = ImportedAs(i)
  BY DEF ImportedAs, Imports
<1>2. Hints' = Hints /\ Identifiers' = Identifiers
  BY DEF Hints, ImportedAs, Imports, Identifiers
<1>3. \A i, k, assigned : PassedOn(i, k, assigned)' = PassedOn(i, k, assigned)
  BY <1>1 DEF PassedOn
<1>4. \A reads, own : Traced(reads, own)' = Traced(reads, own)
  BY DEF Traced, PassedOn, ImportedAs, Imports
<1>5. Surely' = Surely
  BY <1>4 DEF Surely
<1>6. \A k : Known(k)' = Known(k)
  BY <1>3, <1>5 DEF Known
<1>7. Possibly' = Possibly
  BY <1>2, <1>4, <1>6 DEF Possibly
<1> QED
  BY <1>2, <1>3, <1>5, <1>6, <1>7

LEMMA ExtractionStarts ==
  ASSUME SourcesAssumption, ExtractionInit
  PROVE  ExtractionInv
<1>1. sourceFile \in SourceFiles /\ IsSource(sourceFile)
  BY DEF ExtractionInit, SourcesAssumption
<1>2. nextStatement = 1 /\ nextStatement \in 1..(Len(sourceFile.statements) + 1)
  BY <1>1 DEF ExtractionInit, IsSource
<1>3. \A i, assigned : DOMAIN assigned = Places => PassedOn(i, 1, assigned) = ImportedAs(i)
  <2>1. \A q \in Places : ~(q < 1)
    BY DEF Places
  <2> QED
    BY <2>1 DEF PassedOn
<1>4. DOMAIN Surely = Places /\ DOMAIN Possibly = Places
  BY <1>1, SurelyTells, PossiblyTells
<1>5. transports = [i \in Identifiers |-> ImportedAs(i)]
  BY DEF ExtractionInit
<1>6. OriginsBetween
  BY <1>2, <1>3, <1>4, <1>5, ImportsAreTransports DEF OriginsBetween
<1> QED
  BY <1>1, <1>2, <1>6 DEF ExtractionInv, ExtractionInit

(* A statement that is gone by, and what it passes on to its variable.      *)
LEMMA PassedIsBetween ==
  ASSUME IsSource(sourceFile), OriginsBetween, NEW k \in Places, nextStatement = k, nextStatement' = k + 1,
         sourceFile' = sourceFile, sourceFile.statements[k].kind # "import",
         NEW passed, Surely[k] \subseteq passed, passed \subseteq Possibly[k],
         transports' = [transports EXCEPT ![sourceFile.statements[k].variable] =
                          IF sourceFile.statements[k].variable = NoValue THEN @ ELSE @ \cup passed]
  PROVE  OriginsBetween'
<1> DEFINE v == sourceFile.statements[k].variable
<1>1. v \in Identifiers
  BY MentionsAreIdentifiers
<1>2. /\ Surely \in [Places -> SUBSET Transports] /\ Possibly \in [Places -> SUBSET Transports]
      /\ passed \subseteq Transports
  BY SurelyTells, PossiblyTells
<1>3. /\ Surely' = Surely /\ Possibly' = Possibly /\ Identifiers' = Identifiers
      /\ \A i, j, assigned : PassedOn(i, j, assigned)' = PassedOn(i, j, assigned)
  BY MeaningStays
<1>4. \A i \in Identifiers : transports'[i] = transports[i] \cup (IF i # NoValue /\ v = i THEN passed ELSE {})
  BY <1>1 DEF OriginsBetween
<1>5. transports' \in [Identifiers -> SUBSET Transports]
  BY <1>1, <1>2 DEF OriginsBetween
<1>6. ASSUME NEW i \in Identifiers
      PROVE  /\ PassedOn(i, k + 1, Surely) = PassedOn(i, k, Surely) \cup (IF i # NoValue /\ v = i THEN Surely[k] ELSE {})
             /\ PassedOn(i, k + 1, Possibly) = PassedOn(i, k, Possibly) \cup (IF i # NoValue /\ v = i THEN Possibly[k] ELSE {})
  BY <1>2, BeforeGrows
<1>7. ASSUME NEW i \in Identifiers
      PROVE  /\ PassedOn(i, k + 1, Surely) \subseteq transports'[i]
             /\ transports'[i] \subseteq PassedOn(i, k + 1, Possibly)
  <2> HIDE DEF v
  <2>1. PassedOn(i, k, Surely) \subseteq transports[i] /\ transports[i] \subseteq PassedOn(i, k, Possibly)
    BY DEF OriginsBetween
  <2> QED
    BY <1>4, <1>6, <2>1
<1> HIDE DEF v
<1>8. \A i \in Identifiers : /\ PassedOn(i, k + 1, Surely)' \subseteq transports'[i]
                              /\ transports'[i] \subseteq PassedOn(i, k + 1, Possibly)'
  BY <1>3, <1>7
<1>9. \A i \in Identifiers : /\ PassedOn(i, nextStatement, Surely)' = PassedOn(i, k + 1, Surely)
                              /\ PassedOn(i, nextStatement, Possibly)' = PassedOn(i, k + 1, Possibly)
  BY <1>3
<1> QED
  BY <1>3, <1>5, <1>7, <1>9 DEF OriginsBetween

LEMMA StatementIsTaken ==
  ASSUME SourcesAssumption, ExtractionInv, NEW kind, TakeStatement(kind)
  PROVE  /\ IsSource(sourceFile) /\ nextStatement \in Places /\ Statement = sourceFile.statements[nextStatement]
         /\ Statement.kind = kind /\ sourceFile' = sourceFile /\ nextStatement' = nextStatement + 1
         /\ nextStatement' \in 1..(Len(sourceFile'.statements) + 1)
<1>1. IsSource(sourceFile)
  BY DEF ExtractionInv, SourcesAssumption
<1> QED
  BY <1>1 DEF TakeStatement, Statement, Places, IsSource

LEMMA EvidenceStays ==
  ASSUME sourceFile' = sourceFile, NEW o, IsProven(o)
  PROVE  IsProven(o)'
BY MeaningStays DEF IsProven

LEMMA ImportPasses ==
  ASSUME SourcesAssumption, ExtractionInv, PassImport
  PROVE  ExtractionInv'
<1> DEFINE k == nextStatement
<1>1. /\ IsSource(sourceFile) /\ k \in Places /\ sourceFile.statements[k].kind = "import"
      /\ sourceFile' = sourceFile /\ nextStatement' = k + 1
      /\ nextStatement' \in 1..(Len(sourceFile'.statements) + 1)
  BY StatementIsTaken DEF PassImport
<1>2. transports' = transports /\ observations' = observations
  BY DEF PassImport
<1>3. \A i : /\ PassedOn(i, k + 1, Surely) = PassedOn(i, k, Surely)
             /\ PassedOn(i, k + 1, Possibly) = PassedOn(i, k, Possibly)
  <2>1. Surely \in [Places -> SUBSET Transports] /\ Possibly \in [Places -> SUBSET Transports]
    BY <1>1, SurelyTells, PossiblyTells
  <2>2. ASSUME NEW i, NEW assigned \in [Places -> SUBSET Transports]
        PROVE  PassedOn(i, k + 1, assigned) = PassedOn(i, k, assigned)
    <3> DEFINE gained == IF i # NoValue /\ sourceFile.statements[k].kind # "import"
                              /\ sourceFile.statements[k].variable = i THEN assigned[k] ELSE {}
    <3>1. gained = {}
      BY <1>1
    <3>2. PassedOn(i, k + 1, assigned) = PassedOn(i, k, assigned) \cup gained
      <4> HIDE DEF k
      <4> QED
        BY <1>1, BeforeGrows
    <3> HIDE DEF gained
    <3> QED
      BY <3>1, <3>2
  <2> QED
    BY <2>1, <2>2
<1>4. OriginsBetween'
  <2>1. /\ Surely' = Surely /\ Possibly' = Possibly /\ Identifiers' = Identifiers
        /\ \A i, j, assigned : PassedOn(i, j, assigned)' = PassedOn(i, j, assigned)
    BY <1>1, MeaningStays
  <2>2. \A i : /\ PassedOn(i, nextStatement, Surely)' = PassedOn(i, k, Surely)
               /\ PassedOn(i, nextStatement, Possibly)' = PassedOn(i, k, Possibly)
    BY <1>1, <1>3, <2>1
  <2> QED
    BY <1>2, <2>1, <2>2 DEF ExtractionInv, OriginsBetween
<1> QED
  BY <1>1, <1>2, <1>4, EvidenceStays DEF ExtractionInv

LEMMA AssignmentPasses ==
  ASSUME SourcesAssumption, ExtractionInv, PassAssignment
  PROVE  ExtractionInv'
<1> DEFINE k == nextStatement
           s == sourceFile.statements[k]
           passed == UNION {transports[i] : i \in s.reads}
<1>1. /\ IsSource(sourceFile) /\ k \in Places /\ Statement = s /\ s.kind = "assign"
      /\ sourceFile' = sourceFile /\ nextStatement' = k + 1
      /\ nextStatement' \in 1..(Len(sourceFile'.statements) + 1)
  BY StatementIsTaken DEF PassAssignment
<1>2. s.variable # NoValue
  BY <1>1 DEF IsSource, Places
<1>3. transports' = [transports EXCEPT ![s.variable] = IF s.variable = NoValue THEN @ ELSE @ \cup passed]
  BY <1>1, <1>2 DEF PassAssignment
<1>4. Reads(s) = s.reads /\ Mentions(s) = s.reads
  BY <1>1 DEF Reads, Mentions
<1>5. \A i \in s.reads : /\ PassedOn(i, k, Surely) \subseteq transports[i]
                          /\ transports[i] \subseteq PassedOn(i, k, Possibly)
  BY <1>1, <1>4, MentionsAreIdentifiers DEF ExtractionInv, OriginsBetween
<1>6. /\ Surely[k] = UNION {PassedOn(i, k, Surely) : i \in s.reads}
      /\ UNION {PassedOn(i, k, Possibly) : i \in s.reads} \subseteq Possibly[k]
  BY <1>1, <1>4, SurelyTells, PossiblyTells
<1>7. Surely[k] \subseteq passed /\ passed \subseteq Possibly[k]
  BY <1>5, <1>6
<1>8. OriginsBetween'
  <2> HIDE DEF passed
  <2> QED
    BY <1>1, <1>3, <1>7, PassedIsBetween DEF ExtractionInv
<1>9. observations' = observations
  BY DEF PassAssignment
<1> QED
  BY <1>1, <1>8, <1>9, EvidenceStays DEF ExtractionInv

LEMMA CallIsDetected ==
  ASSUME SourcesAssumption, ExtractionInv, DetectCall
  PROVE  ExtractionInv'
<1> DEFINE k == nextStatement
           call == sourceFile.statements[k]
           found == Detect(call)
<1>1. /\ IsSource(sourceFile) /\ k \in Places /\ Statement = call /\ call.kind = "call"
      /\ sourceFile' = sourceFile /\ nextStatement' = k + 1
      /\ nextStatement' \in 1..(Len(sourceFile'.statements) + 1)
  BY StatementIsTaken DEF DetectCall
<1>2. transports' = [transports EXCEPT ![call.variable] =
                       IF call.variable = NoValue THEN @ ELSE @ \cup Remembered(call, found)]
  BY <1>1 DEF DetectCall
<1>3. observations' = observations \cup UNION {Observed(call, found, d) : d \in found}
  BY <1>1 DEF DetectCall
<1>4. OriginsBetween
  BY DEF ExtractionInv
<1>5. \A d \in found :
        /\ d.transport \in Possibly[k]
        /\ d.certainty = "exact" /\ Known(k) # {} =>
             \E t \in Known(k) : Known(k) = {t} /\ d.transport \in {t} \cup Written(call)
  BY <1>1, <1>4, FoundIsProven
<1>6. /\ Origins(call) \subseteq Possibly[k] /\ Surely[k] \subseteq Origins(call)
      /\ Configured(call) \subseteq Possibly[k]
  <2>1. /\ Direct(call) \subseteq Possibly[k] /\ Surely[k] \subseteq Origins(call)
        /\ OwnOrigins[k] \subseteq Possibly[k]
    BY <1>1, <1>4, OriginsAreBetween
  <2>2. Origins(call) \subseteq Direct(call)
    BY DEF Direct
  <2>3. Configured(call) \subseteq OwnOrigins[k]
    BY <1>1 DEF OwnOrigins, Places, IsSource
  <2> QED
    BY <2>1, <2>2, <2>3
<1> HIDE DEF found
<1>7. Surely[k] \subseteq Remembered(call, found) /\ Remembered(call, found) \subseteq Possibly[k]
  <2> HIDE DEF call
  <2> QED
    BY <1>5, <1>6 DEF Remembered
<1>8. OriginsBetween'
  BY <1>1, <1>2, <1>4, <1>7, PassedIsBetween
<1>9. ASSUME NEW d \in found, NEW o \in Observed(call, found, d)
      PROVE  IsProven(o)
  <2>1. o.at = k /\ o.transport = d.transport /\ (o.certainty = "exact" => d.certainty = "exact")
    BY DEF Observed
  <2> QED
    BY <1>5, <2>1 DEF IsProven
<1>10. \A o \in observations' : IsProven(o)
  BY <1>3, <1>9 DEF ExtractionInv
<1> QED
  BY <1>1, <1>8, <1>10, EvidenceStays DEF ExtractionInv

(* Whatever the calls, imports and assignments of a file are and whatever    *)
(* their order: no side of a contract is found without evidence for its      *)
(* transport, and none is called exact where its call is known to come from  *)
(* several, or from another one.                                             *)
THEOREM ExactnessIsProven == ExtractionSpec => []ExactIsProven
<1>1. SourcesAssumption
  BY SourcesAssumption
<1>2. ExtractionInit => ExtractionInv
  BY <1>1, ExtractionStarts
<1>3. ExtractionInv /\ [ExtractionNext]_extractionVars => ExtractionInv'
  <2> SUFFICES ASSUME ExtractionInv, [ExtractionNext]_extractionVars
               PROVE  ExtractionInv'
    OBVIOUS
  <2>1. CASE PassImport
    BY <1>1, <2>1, ImportPasses
  <2>2. CASE PassAssignment
    BY <1>1, <2>2, AssignmentPasses
  <2>3. CASE DetectCall
    BY <1>1, <2>3, CallIsDetected
  <2>4. CASE UNCHANGED extractionVars
    <3>1. sourceFile' = sourceFile /\ nextStatement' = nextStatement /\ observations' = observations /\ transports' = transports
      BY <2>4 DEF extractionVars
    <3>2. OriginsBetween'
      BY <3>1, MeaningStays DEF ExtractionInv, OriginsBetween
    <3> QED
      BY <3>1, <3>2, EvidenceStays DEF ExtractionInv
  <2> QED
    BY <2>1, <2>2, <2>3, <2>4 DEF ExtractionNext
<1>4. ExtractionInv => ExactIsProven
  BY DEF ExtractionInv, ExactIsProven, IsProven
<1> QED
  BY <1>2, <1>3, <1>4, PTL DEF ExtractionSpec

-----------------------------------------------------------------------------
(* The contracts of events (TransportContracts) *)

ScanFields ==
  {"step", "repository", "todo", "considered", "hit", "unreadable", "oversize", "observations",
   "backend", "resolved", "present", "reasons", "answer"}

(* What is seen of a side is what a usable report of its repository says. *)
AreEarned(s) ==
  /\ IsList(s)
  /\ \A o \in Range(s) : IsSide(o) /\ (o.observed => Confirmable(o.repository).usable)

Searching == scan.step \in {"repository", "files"}

ScanTypes ==
  /\ estate \in Estates
  /\ DOMAIN scan = ScanFields
  /\ scan.step \in {"repository", "files", "fallback", "runtime", "done"}
  /\ scan.repository \in 1..(Len(estate.repositories) + 1)
  /\ scan.step = "files" => scan.repository \in RepositoryIds
  /\ scan.considered \in 0..estate.maxFiles
  /\ scan.unreadable \in Nat /\ scan.oversize \in Nat
  /\ IsList(scan.todo)
  /\ scan.step = "files" => Range(scan.todo) \subseteq Range(RepositoryAt(scan.repository).files)

SidesAreEarned ==
  /\ AreUnseen(scan.backend)
  /\ AreEarned(scan.observations)
  /\ scan.step \notin {"runtime", "done"} => AreUnseen(scan.observations)

(* A file of a repository that was looked at is read, waits, or its loss is *)
(* on record.                                                               *)
Recorded(r) ==
  \/ r # 1 /\ RepositoryAt(r).same
  \/ scan.considered = estate.maxFiles
  \/ scan.hit \/ scan.unreadable > 0 \/ scan.oversize > 0
  \/ Missed(r) \subseteq IF scan.step = "files" /\ r = scan.repository THEN Range(scan.todo) ELSE {}

LookedAt(r) ==
  Searching => r < scan.repository \/ (r = scan.repository /\ scan.step = "files")

LossesAreRecorded ==
  /\ Searching /\ scan.hit => NoRoom
  /\ \A r \in RepositoryIds : LookedAt(r) => Recorded(r)

(* What is wrong with the reports that were read is kept.                   *)
ReportsAreKept ==
  /\ scan.step = "runtime" =>
       \A r \in RepositoryIds : r < scan.repository /\ Confirmable(r).present =>
         scan.present /\ Confirmable(r).reasons \subseteq scan.reasons
  /\ \A p \in scan.resolved :
       \E raw \in Range(RepositoryAt(p[1]).runtime.observed) : raw.place = p[2]

ScanInv ==
  /\ ScanTypes /\ SidesAreEarned /\ LossesAreRecorded /\ ReportsAreKept
  /\ scan.step # "done" => scan.answer = NoName
  /\ ContractsAreReal

-----------------------------------------------------------------------------
(* Lists *)

LEMMA ListsOfSets ==
  ASSUME NEW S, NEW s \in Seq(S)
  PROVE  IsList(s) /\ Range(s) \subseteq S
BY DEF IsList, Range

LEMMA FirstOfList ==
  ASSUME NEW n \in Nat, NEW s, IsList(s)
  PROVE  /\ IsList(AtMost(n, s)) /\ Range(AtMost(n, s)) \subseteq Range(s)
         /\ Len(AtMost(n, s)) = IF n < Len(s) THEN n ELSE Len(s)
         /\ n >= Len(s) => Range(AtMost(n, s)) = Range(s)
<1> DEFINE m == IF n < Len(s) THEN n ELSE Len(s)
           first == SubSeq(s, 1, m)
<1>1. s \in Seq(Range(s)) /\ Len(s) \in Nat /\ DOMAIN s = 1..Len(s)
  BY DEF IsList
<1>2. m \in Nat /\ m <= Len(s)
  BY <1>1
<1> HIDE DEF m
<1>3. /\ first \in Seq(Range(s)) /\ Len(first) = m
      /\ \A k \in 1..m : first[k] = s[k]
  BY <1>1, <1>2
<1>4. AtMost(n, s) = first
  BY DEF AtMost, m
<1> HIDE DEF first
<1>5. IsList(first) /\ Range(first) \subseteq Range(s)
  BY <1>3, ListsOfSets
<1>6. n >= Len(s) => Range(first) = Range(s)
  <2> SUFFICES ASSUME n >= Len(s) PROVE Range(s) \subseteq Range(first)
    BY <1>5
  <2>1. m = Len(s)
    <3>1. \/ n < Len(s) /\ FALSE
          \/ ~(n < Len(s))
      BY <1>1
    <3> QED
      BY <3>1 DEF m
  <2> QED
    BY <1>1, <1>3, <2>1 DEF Range
<1> QED
  BY <1>3, <1>4, <1>5, <1>6 DEF m

LEMMA JoinedLists ==
  ASSUME NEW s, NEW t, IsList(s), IsList(t)
  PROVE  /\ IsList(s \o t) /\ Range(s \o t) = Range(s) \cup Range(t)
         /\ Len(s \o t) = Len(s) + Len(t) /\ Len(s) \in Nat /\ Len(t) \in Nat
<1> DEFINE S == Range(s) \cup Range(t)
<1>1. s \in Seq(S) /\ t \in Seq(S)
  BY DEF IsList
<1> HIDE DEF S
<1>2. /\ s \o t \in Seq(S)
      /\ \A k \in DOMAIN s : k \in DOMAIN (s \o t) /\ (s \o t)[k] = s[k]
      /\ \A k \in DOMAIN t : Len(s) + k \in DOMAIN (s \o t) /\ (s \o t)[Len(s) + k] = t[k]
  BY <1>1, JoinedPlaces
<1>3. Range(s) \cup Range(t) \subseteq Range(s \o t)
  BY <1>2 DEF Range
<1>4. Len(s \o t) = Len(s) + Len(t) /\ Len(s) \in Nat /\ Len(t) \in Nat
  BY <1>1
<1>5. IsList(s \o t) /\ Range(s \o t) \subseteq S
  BY <1>2, ListsOfSets
<1> QED
  BY <1>3, <1>4, <1>5 DEF S

LEMMA RestOfList ==
  ASSUME NEW s, IsList(s), s # <<>>
  PROVE  IsList(Tail(s)) /\ Range(s) = {Head(s)} \cup Range(Tail(s))
<1>1. s \in Seq(Range(s))
  BY DEF IsList
<1> DEFINE S == Range(s)
<1>2. S = Range(s)
  OBVIOUS
<1> HIDE DEF S
<1>3. /\ Tail(s) \in Seq(S) /\ 1 \in DOMAIN s /\ Head(s) = s[1]
      /\ \A k \in DOMAIN Tail(s) : k + 1 \in DOMAIN s /\ Tail(s)[k] = s[k + 1]
      /\ \A k \in DOMAIN s : k # 1 => k - 1 \in DOMAIN Tail(s) /\ Tail(s)[k - 1] = s[k]
  BY <1>1, <1>2, TailPlaces
<1>4. Range(s) \subseteq {Head(s)} \cup Range(Tail(s))
  <2> SUFFICES ASSUME NEW k \in DOMAIN s PROVE s[k] \in {Head(s)} \cup Range(Tail(s))
    BY DEF Range
  <2> QED
    BY <1>3 DEF Range
<1>5. {Head(s)} \cup Range(Tail(s)) \subseteq Range(s)
  BY <1>3 DEF Range
<1> QED
  BY <1>3, <1>4, <1>5, ListsOfSets

LEMMA ListsAreFinite ==
  ASSUME NEW s, IsList(s)
  PROVE  IsFiniteSet(Range(s)) /\ Cardinality(Range(s)) <= Len(s) /\ Cardinality(Range(s)) \in Nat
<1>1. s \in [1..Len(s) -> Range(s)] /\ Len(s) \in Nat /\ Range(s) = {s[k] : k \in 1..Len(s)}
  BY DEF IsList, Range
<1>2. IsFiniteSet(1..Len(s)) /\ Cardinality(1..Len(s)) = Len(s)
  <2> DEFINE n == Len(s)
  <2>1. n \in Nat
    BY <1>1
  <2> HIDE DEF n
  <2>2. 1 \in Int /\ n \in Int
    BY <2>1
  <2>3. IsFiniteSet(1..n) /\ Cardinality(1..n) = n
    BY <2>1, <2>2, FS_Interval
  <2> QED
    BY <2>3 DEF n
<1>3. s \in Surjection(1..Len(s), Range(s))
  BY <1>1 DEF Surjection
<1> QED
  BY <1>2, <1>3, FS_Surjection, FS_CardinalityType

-----------------------------------------------------------------------------
(* The order of observations *)

LEMMA FirstSide ==
  ASSUME NEW S, S # {}, \A o \in S : o.repository \in Nat /\ o.place \in Nat
  PROVE  \E a \in S : \A b \in S : Precedes(a, b)
<1>1. PICK r \in {o.repository : o \in S} : \A q \in {o.repository : o \in S} : r <= q
  <2>1. {o.repository : o \in S} \subseteq Nat /\ {o.repository : o \in S} # {}
    OBVIOUS
  <2> QED
    BY <2>1, SmallestOfNumbers
<1> DEFINE Q == {o \in S : o.repository = r}
<1>2. PICK p \in {o.place : o \in Q} : \A q \in {o.place : o \in Q} : p <= q
  <2>1. {o.place : o \in Q} \subseteq Nat /\ {o.place : o \in Q} # {}
    BY <1>1
  <2> QED
    BY <2>1, SmallestOfNumbers
<1>3. PICK a \in Q : a.place = p
  BY <1>2
<1>4. ASSUME NEW b \in S
      PROVE  Precedes(a, b)
  <2>1. r <= b.repository /\ r \in Nat /\ b.repository \in Nat /\ a.repository = r
    BY <1>1, <1>3
  <2>2. CASE b.repository = r
    BY <1>2, <1>3, <2>1, <2>2 DEF Precedes
  <2>3. CASE b.repository # r
    BY <2>1, <2>3 DEF Precedes
  <2> QED
    BY <2>2, <2>3
<1> QED
  BY <1>3, <1>4

LEMMA SortedTells ==
  ASSUME NEW S, IsFiniteSet(S), \A o \in S : o.repository \in Nat /\ o.place \in Nat
  PROVE  IsList(SortedSides(S)) /\ Range(SortedSides(S)) \subseteq S
<1> DEFINE N == Cardinality(S)
           First(rest) == CHOOSE a \in rest : \A b \in rest : Precedes(a, b)
           Longer(s) == Append(s, First(S \ Range(s)))
           Body(w) == [k \in 0..N |-> IF k = 0 THEN <<>> ELSE Longer(w[k - 1])]
           A == CHOOSE w : w = Body(w)
           Short(k, s) == s \in Seq(S) /\ Len(s) = k
<1>1. SortedSides(S) = A[N]
  BY DEF SortedSides
<1>2. N \in Nat
  BY FS_CardinalityType
<1>3. ASSUME NEW k \in 0..N, k < N, NEW s, Short(k, s)
      PROVE  Short(k + 1, Longer(s))
  <2>1. IsList(s) /\ Range(s) \subseteq S
    BY <1>3, ListsOfSets
  <2>2. Cardinality(Range(s)) <= k /\ Cardinality(Range(s)) \in Nat
    BY <1>3, <2>1, ListsAreFinite
  <2>3. S \ Range(s) # {}
    <3>1. Range(s) # S
      BY <1>2, <1>3, <2>2
    <3> QED
      BY <2>1, <3>1
  <2>4. First(S \ Range(s)) \in S
    <3> DEFINE rest == S \ Range(s)
    <3>1. \E a \in rest : \A b \in rest : Precedes(a, b)
      <4>1. rest # {} /\ \A o \in rest : o.repository \in Nat /\ o.place \in Nat
        BY <2>3
      <4> HIDE DEF rest
      <4> QED
        BY <4>1, FirstSide
    <3>2. First(rest) \in rest
      <4> HIDE DEF rest
      <4> QED
        BY <3>1
    <3> QED
      BY <3>2
  <2> HIDE DEF First
  <2> QED
    BY <1>3, <2>4
<1> HIDE DEF N, Longer
<1>4. \E w : w = Body(w)
  <2> DEFINE D == {p \in (0..N) \X Seq(S) : Len(p[2]) = p[1]}
             G == [p \in D |-> IF p[1] < N THEN <<p[1] + 1, Longer(p[2])>> ELSE p]
  <2>1. <<0, <<>>>> \in D
    <3>1. 0 \in 0..N /\ <<>> \in Seq(S) /\ Len(<<>>) = 0
      BY <1>2
    <3> DEFINE p == <<0, <<>>>>
    <3>2. p[1] = 0 /\ p[2] = <<>> /\ p \in (0..N) \X Seq(S)
      <4> DEFINE none == <<>>
      <4>1. none \in Seq(S)
        BY <3>1
      <4> HIDE DEF none
      <4>2. <<0, none>> \in (0..N) \X Seq(S) /\ <<0, none>>[1] = 0 /\ <<0, none>>[2] = none
        BY <3>1, <4>1
      <4> QED
        BY <4>2 DEF none
    <3> HIDE DEF p
    <3>3. p \in D
      BY <3>1, <3>2
    <3> QED
      BY <3>3 DEF p
  <2>2. ASSUME NEW p \in D
        PROVE  G[p] \in D
    <3>1. PICK k \in 0..N, s \in Seq(S) : p = <<k, s>> /\ Len(s) = k
      OBVIOUS
    <3>2. CASE k < N
      <4>1. Short(k + 1, Longer(s)) /\ k + 1 \in 0..N
        BY <1>2, <1>3, <3>1, <3>2
      <4> QED
        BY <3>1, <3>2, <4>1
    <3>3. CASE ~(k < N)
      BY <3>1, <3>3
    <3> QED
      BY <3>2, <3>3
  <2>3. G \in [D -> D]
    BY <2>2
  <2>4. PICK c : IsIteration(c, N, D, <<0, <<>>>>, G)
    <3> HIDE DEF D, G
    <3> QED
      BY <1>2, <2>1, <2>3, IterationExists
  <2>5. /\ \A k \in 0..N : c[k] \in D
        /\ c[0] = <<0, <<>>>> /\ \A k \in 1..N : c[k] = G[c[k - 1]]
    <3> HIDE DEF D, G
    <3> QED
      BY <2>4 DEF IsIteration
  <2>6. ASSUME NEW k \in 0..N
        PROVE  c[k][1] = k
    <3> DEFINE T == {j \in 0..N : c[j][1] = j}
    <3>1. 0 \in T
      BY <1>2, <2>5
    <3>2. ASSUME NEW j \in 0..N, j < N, j \in T
          PROVE  j + 1 \in T
      <4>1. j + 1 \in 1..N /\ j + 1 - 1 = j /\ j + 1 \in 0..N
        BY <1>2, <3>2
      <4>2. c[j + 1] = G[c[j]] /\ c[j] \in D /\ c[j][1] = j
        BY <2>5, <3>2, <4>1
      <4>3. c[j + 1] = <<j + 1, Longer(c[j][2])>>
        BY <3>2, <4>2
      <4> QED
        BY <4>1, <4>3
    <3>3. \A j \in 0..N : j \in T
      <4> HIDE DEF T
      <4> QED
        BY <1>2, <3>1, <3>2, BoundedInduction
    <3> QED
      BY <3>3
  <2>7. ASSUME NEW k \in 1..N
        PROVE  c[k][2] = Longer(c[k - 1][2])
    <3>1. k - 1 \in 0..N /\ k - 1 < N
      BY <1>2
    <3>2. c[k] = G[c[k - 1]] /\ c[k - 1] \in D /\ c[k - 1][1] = k - 1
      BY <2>5, <2>6, <3>1
    <3> QED
      BY <3>1, <3>2
  <2> DEFINE w == [k \in 0..N |-> c[k][2]]
  <2>8. w = Body(w)
    <3>1. \A k \in 0..N : w[k] = IF k = 0 THEN <<>> ELSE Longer(w[k - 1])
      <4> TAKE k \in 0..N
      <4>1. CASE k = 0
        BY <1>2, <2>5, <4>1
      <4>2. CASE k # 0
        <5>1. k \in 1..N /\ k - 1 \in 0..N
          BY <1>2, <4>2
        <5> QED
          BY <2>7, <4>2, <5>1
      <4> QED
        BY <4>1, <4>2
    <3> QED
      BY <3>1
  <2> HIDE DEF w, Body
  <2> QED
    BY <2>8
<1>5. A = Body(A)
  <2> HIDE DEF Body
  <2> QED
    BY <1>4
<1> HIDE DEF A
<1>6. A[0] = <<>> /\ \A k \in 1..N : A[k] = Longer(A[k - 1])
  <2>1. \A k \in 0..N : A[k] = Body(A)[k]
    <3> HIDE DEF Body
    <3> QED
      BY <1>5
  <2>2. 0 \in 0..N /\ \A k \in 1..N : k \in 0..N /\ k # 0
    BY <1>2
  <2> QED
    BY <2>1, <2>2
<1> HIDE DEF Body
<1> DEFINE T == {k \in 0..N : Short(k, A[k])}
<1>7. 0 \in T
  <2>1. 0 \in 0..N /\ <<>> \in Seq(S) /\ Len(<<>>) = 0
    BY <1>2
  <2> QED
    BY <1>6, <2>1
<1>8. ASSUME NEW k \in 0..N, k < N, k \in T
      PROVE  k + 1 \in T
  <2>1. k + 1 \in 1..N /\ k + 1 - 1 = k /\ k + 1 \in 0..N
    BY <1>2, <1>8
  <2>2. A[k + 1] = Longer(A[k])
    BY <1>6, <2>1
  <2> QED
    BY <1>3, <1>8, <2>1, <2>2
<1>9. \A k \in 0..N : k \in T
  <2> HIDE DEF T
  <2> QED
    BY <1>2, <1>7, <1>8, BoundedInduction
<1>10. A[N] \in Seq(S)
  BY <1>2, <1>9
<1> QED
  BY <1>1, <1>10, ListsOfSets

-----------------------------------------------------------------------------
(* What the graph and the reports add *)

LEMMA GuessesTell ==
  ASSUME NEW edge, IsSide(edge), ~edge.observed
  PROVE  AreUnseen(Guesses(edge))
<1> DEFINE t == FallbackTransports(edge.entity)
<1>1. \E n \in Nat : DOMAIN t = 1..n
  <2>1. \/ t = <<"kafka", "jms", "sns">> \/ t = <<"amqp", "rabbitmq", "jms", "sqs">>
        \/ t = <<"amqp", "rabbitmq">> \/ t = <<"nats">> \/ t = <<"jms">>
    BY DEF FallbackTransports
  <2> HIDE DEF t
  <2>2. DOMAIN t = 1..3 \/ DOMAIN t = 1..4 \/ DOMAIN t = 1..2 \/ DOMAIN t = 1..1
    BY <2>1
  <2> QED
    BY <2>2
<1> HIDE DEF t
<1> DEFINE said(k) == [edge EXCEPT !.transport = t[k], !.origin = "graph_domain",
                                   !.certainty = IF Len(t) > 1 THEN "ambiguous" ELSE "derived"]
           S == {said(k) : k \in DOMAIN t}
           guesses == [k \in DOMAIN t |-> said(k)]
<1>2. Guesses(edge) = guesses
  BY DEF Guesses, t
<1>3. guesses \in Seq(S)
  <2>1. PICK n \in Nat : DOMAIN t = 1..n
    BY <1>1
  <2> HIDE DEF said
  <2> QED
    BY <2>1
<1>4. ASSUME NEW k \in DOMAIN t
      PROVE  IsSide(said(k)) /\ ~said(k).observed
  <2>1. /\ DOMAIN said(k) = SideFields /\ said(k).repository = edge.repository
        /\ said(k).place = edge.place /\ said(k).key = edge.key /\ said(k).observed = edge.observed
    BY DEF IsSide, SideFields
  <2> HIDE DEF said
  <2> QED
    BY <2>1 DEF IsSide
<1> HIDE DEF said, guesses
<1>5. IsList(guesses) /\ Range(guesses) \subseteq S
  BY <1>3, ListsOfSets
<1>6. \A o \in Range(guesses) : IsSide(o) /\ ~o.observed
  BY <1>4, <1>5
<1> QED
  BY <1>2, <1>5, <1>6 DEF AreUnseen

LEMMA FallbacksTell ==
  ASSUME AreUnseen(scan.observations), estate.maxObservations \in Nat, NEW given, AreUnseen(given)
  PROVE  AreUnseen(WithGuesses(given))
<1> DEFINE N == Len(given)
           known == scan.observations
           More(k) == IF InSource(given[k]) THEN <<>> ELSE Guesses(given[k])
           S == Range(known) \cup UNION {Range(More(k)) : k \in 1..N}
           F == [k \in 1..N |-> [s \in Seq(S) |-> s \o More(k)]]
           Body(w) == [k \in 0..N |-> IF k = 0 THEN known ELSE w[k - 1] \o More(k)]
           A == CHOOSE w : w = Body(w)
           room == IF NoRoom THEN Len(known) + 1 ELSE estate.maxObservations
<1>1. WithGuesses(given) = AtMost(room, A[N])
  BY DEF WithGuesses
<1>2. /\ N \in Nat /\ DOMAIN given = 1..N /\ \A k \in 1..N : given[k] \in Range(given)
      /\ IsList(known) /\ Len(known) \in Nat
  BY DEF AreUnseen, IsList, Range
<1>3. ASSUME NEW k \in 1..N
      PROVE  More(k) \in Seq(S) /\ AreUnseen(More(k))
  <2>1. IsSide(given[k]) /\ ~given[k].observed
    BY <1>2 DEF AreUnseen
  <2>2. AreUnseen(Guesses(given[k]))
    BY <2>1, GuessesTell
  <2>3. AreUnseen(<<>>)
    BY DEF AreUnseen, IsList, Range
  <2>4. AreUnseen(More(k))
    BY <2>2, <2>3
  <2>5. More(k) \in Seq(Range(More(k))) /\ Range(More(k)) \subseteq S
    BY <2>4 DEF AreUnseen, IsList
  <2> HIDE DEF More, S
  <2> QED
    BY <2>4, <2>5
<1>4. known \in Seq(S)
  <2>1. known \in Seq(Range(known)) /\ Range(known) \subseteq S
    BY <1>2 DEF IsList
  <2> HIDE DEF known, S
  <2> QED
    BY <2>1
<1>5. \A o \in S : IsSide(o) /\ ~o.observed
  <2> HIDE DEF More
  <2> QED
    BY <1>3 DEF AreUnseen
<1> HIDE DEF N, known, More, S
<1>6. F \in [1..N -> [Seq(S) -> Seq(S)]] /\ \A k \in 1..N : \A s \in Seq(S) : F[k][s] = s \o More(k)
  BY <1>3
<1>7. PICK c : IsIndexedIteration(c, N, Seq(S), known, F)
  <2> HIDE DEF F
  <2> QED
    BY <1>2, <1>4, <1>6, IndexedIterationExists
<1>8. c \in [0..N -> Seq(S)] /\ c[0] = known /\ \A k \in 1..N : c[k] = c[k - 1] \o More(k)
  <2> HIDE DEF F
  <2>1. ASSUME NEW k \in 1..N
        PROVE  c[k - 1] \in Seq(S) /\ c[k] = F[k][c[k - 1]]
    <3>1. k - 1 \in 0..N
      BY <1>2
    <3> QED
      BY <1>7, <3>1 DEF IsIndexedIteration
  <2> QED
    BY <1>6, <1>7, <2>1 DEF IsIndexedIteration
<1> HIDE DEF F
<1>9. c = Body(c)
  <2>1. \A k \in 0..N : k = 0 \/ k \in 1..N
    BY <1>2
  <2>2. \A k \in 0..N : c[k] = IF k = 0 THEN known ELSE c[k - 1] \o More(k)
    BY <1>2, <1>8, <2>1
  <2> QED
    BY <1>8, <2>2
<1>10. A = Body(A)
  <2> HIDE DEF Body
  <2> QED
    BY <1>9
<1> HIDE DEF A
<1>11. A[0] = known /\ \A k \in 1..N : A[k] = A[k - 1] \o More(k)
  <2>1. \A k \in 0..N : A[k] = Body(A)[k]
    <3> HIDE DEF Body
    <3> QED
      BY <1>10
  <2>2. 0 \in 0..N /\ \A k \in 1..N : k \in 0..N /\ k # 0
    BY <1>2
  <2> QED
    BY <2>1, <2>2
<1> HIDE DEF Body
<1> DEFINE T == {k \in 0..N : A[k] \in Seq(S)}
<1>12. \A k \in 0..N : k \in T
  <2>1. 0 \in T
    BY <1>2, <1>4, <1>11
  <2>2. ASSUME NEW k \in 0..N, k < N, k \in T
        PROVE  k + 1 \in T
    <3>1. k + 1 \in 1..N /\ k + 1 - 1 = k /\ k + 1 \in 0..N
      BY <1>2, <2>2
    <3>2. A[k + 1] = A[k] \o More(k + 1)
      <4>1. PICK j \in 1..N : j = k + 1
        BY <3>1
      <4>2. A[j] = A[j - 1] \o More(j)
        BY <1>11
      <4>3. j - 1 = k
        BY <3>1, <4>1
      <4> QED
        BY <4>1, <4>2, <4>3
    <3>3. More(k + 1) \in Seq(S) /\ A[k] \in Seq(S)
      BY <1>3, <2>2, <3>1
    <3>4. A[k] \o More(k + 1) \in Seq(S)
      <4> DEFINE more == More(k + 1)
                 here == A[k]
      <4>1. more \in Seq(S) /\ here \in Seq(S)
        BY <3>3
      <4> HIDE DEF more, here
      <4>2. here \o more \in Seq(S)
        BY <4>1
      <4> QED
        BY <4>2 DEF more, here
    <3> QED
      BY <3>1, <3>2, <3>4
  <2> HIDE DEF T
  <2> QED
    BY <1>2, <2>1, <2>2, BoundedInduction
<1>13. IsList(A[N]) /\ Range(A[N]) \subseteq S
  BY <1>2, <1>12, ListsOfSets
<1>14. room \in Nat
  BY <1>2
<1> HIDE DEF room
<1>15. IsList(AtMost(room, A[N])) /\ Range(AtMost(room, A[N])) \subseteq Range(A[N])
  BY <1>13, <1>14, FirstOfList
<1> QED
  BY <1>1, <1>5, <1>13, <1>15 DEF AreUnseen

(* T: the sides of U, and those of them in repository r as seen at runtime. *)
MarksSides(T, U, r) ==
  /\ \A o \in U : DOMAIN o = SideFields
  /\ U \subseteq T /\ \A u \in U : u.repository = r => [u EXCEPT !.observed = TRUE] \in T
  /\ \A t \in T : t \in U \/ \E u \in U : u.repository = r /\ t = [u EXCEPT !.observed = TRUE]

LEMMA MergeTells ==
  ASSUME NEW U, NEW r, NEW T, MarksSides(T, U, r),
         NEW o \in U, o.repository = r, NEW s \in Seq(T)
  PROVE  Merge(s, o) \in Seq(T)
<1> USE DEF MarksSides
<1> DEFINE same == {k \in DOMAIN s : SameSide(s[k], o)}
           m == Min(same)
           marked == [s[m] EXCEPT !.observed = TRUE]
<1>1. CASE same = {}
  <2>1. Merge(s, o) = Append(s, o)
    BY <1>1 DEF Merge
  <2> QED
    BY <2>1
<1>2. CASE same # {}
  <2>1. m \in same
    <3>1. same \subseteq Nat
      OBVIOUS
    <3>2. \E x \in same : \A y \in same : x <= y
      <4> HIDE DEF same
      <4> QED
        BY <1>2, <3>1, SmallestOfNumbers
    <3> HIDE DEF same
    <3> QED
      BY <3>2 DEF Min
  <2>2. s[m] \in T /\ s[m].repository = r /\ m \in DOMAIN s
    <3>1. m \in DOMAIN s /\ SameSide(s[m], o)
      BY <2>1
    <3> HIDE DEF m
    <3>2. s[m] \in T /\ s[m]["repository"] = o["repository"]
      BY <3>1 DEF SameSide
    <3> QED
      BY <3>1, <3>2
  <2>3. Merge(s, o) = [s EXCEPT ![m] = marked]
    BY <1>2 DEF Merge
  <2>4. marked \in T
    <3>1. CASE s[m] \in U
      BY <2>2, <3>1
    <3>2. CASE s[m] \notin U
      <4>1. PICK u \in U : u.repository = r /\ s[m] = [u EXCEPT !.observed = TRUE]
        BY <2>2, <3>2
      <4>2. "observed" \in DOMAIN u /\ DOMAIN s[m] = DOMAIN u
        BY <4>1 DEF SideFields
      <4>3. marked = s[m]
        BY <4>1, <4>2
      <4> QED
        BY <2>2, <4>3
    <3> QED
      BY <3>1, <3>2
  <2> HIDE DEF m, marked
  <2> QED
    BY <2>2, <2>3, <2>4
<1> QED
  BY <1>1, <1>2

LEMMA MergedTells ==
  ASSUME AreEarned(scan.observations), NEW r \in Nat, NEW raw, IsList(raw),
         \A x \in Range(raw) : x.place \in Nat /\ IsKey(x.key),
         raw # <<>> => Confirmable(r).usable
  PROVE  AreEarned(Merged(r, raw))
<1> DEFINE N == Len(raw)
           known == scan.observations
           new(k) == Normalized(r, raw[k])
           Step(k, s) == IF HasParts(raw[k]) THEN Merge(s, new(k)) ELSE s
           U == Range(known) \cup {new(k) : k \in 1..N}
           S == U \cup {[u EXCEPT !.observed = TRUE] : u \in {v \in U : v.repository = r}}
           F == [k \in 1..N |-> [s \in Seq(S) |-> Step(k, s)]]
           Body(w) == [k \in 0..N |-> IF k = 0 THEN known ELSE Step(k, w[k - 1])]
           A == CHOOSE w : w = Body(w)
<1>1. Merged(r, raw) = A[N]
  BY DEF Merged
<1>2. /\ N \in Nat /\ DOMAIN raw = 1..N /\ \A k \in 1..N : raw[k] \in Range(raw)
      /\ IsList(known) /\ (N # 0 => raw # <<>>)
  BY DEF AreEarned, IsList, Range
<1>3. ASSUME NEW k \in 1..N
      PROVE  IsSide(new(k)) /\ new(k).repository = r
  <2>1. raw[k].place \in Nat /\ IsKey(raw[k].key)
    BY <1>2
  <2>2. /\ DOMAIN new(k) = SideFields /\ new(k).repository = r
        /\ new(k).place = raw[k].place /\ new(k).key = raw[k].key
    BY DEF Normalized, SideFields
  <2> HIDE DEF new
  <2> QED
    BY <2>1, <2>2 DEF IsSide
<1>4. \A o \in U : IsSide(o)
  <2> HIDE DEF new
  <2> QED
    BY <1>3 DEF AreEarned
<1> HIDE DEF N, known, new
<1>5. ASSUME NEW k \in 1..N, NEW s \in Seq(S)
      PROVE  Step(k, s) \in Seq(S)
  <2>1. Merge(s, new(k)) \in Seq(S)
    <3>1. new(k) \in U /\ new(k).repository = r /\ \A o \in U : DOMAIN o = SideFields
      BY <1>3, <1>4 DEF IsSide
    <3>2. MarksSides(S, U, r)
      <4>1. /\ U \subseteq S /\ \A u \in U : u.repository = r => [u EXCEPT !.observed = TRUE] \in S
            /\ \A t \in S : t \in U \/ \E u \in U : u.repository = r /\ t = [u EXCEPT !.observed = TRUE]
        <5> HIDE DEF U
        <5> QED
          OBVIOUS
      <4> HIDE DEF U, S
      <4> QED
        BY <3>1, <4>1 DEF MarksSides
    <3> DEFINE o == new(k)
    <3>3. o \in U /\ o.repository = r /\ s \in Seq(S)
      BY <3>1
    <3> HIDE DEF U, S, o
    <3>4. Merge(s, o) \in Seq(S)
      BY <3>1, <3>2, <3>3, MergeTells
    <3> QED
      BY <3>4 DEF o
  <2> QED
    BY <2>1
<1>6. ASSUME N # 0
      PROVE  \A o \in S : IsSide(o) /\ (o.observed => Confirmable(o.repository).usable)
  <2>1. Confirmable(r).usable
    BY <1>2, <1>6
  <2>2. \A o \in U : o.observed => Confirmable(o.repository).usable
    BY <1>3, <2>1 DEF AreEarned, known
  <2>3. ASSUME NEW u \in U, u.repository = r
        PROVE  LET marked == [u EXCEPT !.observed = TRUE]
               IN  IsSide(marked) /\ marked.repository = r
    <3>1. IsSide(u)
      BY <1>4
    <3> QED
      BY <2>3, <3>1 DEF IsSide, SideFields
  <2> HIDE DEF U
  <2> QED
    BY <1>4, <2>1, <2>2, <2>3
<1>7. known \in Seq(S)
  <2>1. known \in Seq(Range(known)) /\ Range(known) \subseteq S
    BY <1>2 DEF IsList
  <2> HIDE DEF S
  <2> QED
    BY <2>1
<1> HIDE DEF Step, U, S
<1>8. F \in [1..N -> [Seq(S) -> Seq(S)]] /\ \A k \in 1..N : \A s \in Seq(S) : F[k][s] = Step(k, s)
  BY <1>5
<1>9. PICK c : IsIndexedIteration(c, N, Seq(S), known, F)
  <2> HIDE DEF F
  <2> QED
    BY <1>2, <1>7, <1>8, IndexedIterationExists
<1>10. c \in [0..N -> Seq(S)] /\ c[0] = known /\ \A k \in 1..N : c[k] = Step(k, c[k - 1])
  <2> HIDE DEF F
  <2>1. ASSUME NEW k \in 1..N
        PROVE  c[k - 1] \in Seq(S) /\ c[k] = F[k][c[k - 1]]
    <3>1. k - 1 \in 0..N
      BY <1>2
    <3> QED
      BY <1>9, <3>1 DEF IsIndexedIteration
  <2> QED
    BY <1>8, <1>9, <2>1 DEF IsIndexedIteration
<1> HIDE DEF F
<1>11. c = Body(c)
  <2>1. \A k \in 0..N : k = 0 \/ k \in 1..N
    BY <1>2
  <2>2. \A k \in 0..N : c[k] = IF k = 0 THEN known ELSE Step(k, c[k - 1])
    BY <1>2, <1>10, <2>1
  <2> QED
    BY <1>10, <2>2
<1>12. A = Body(A)
  <2> HIDE DEF Body
  <2> QED
    BY <1>11
<1> HIDE DEF A
<1>13. A[0] = known /\ \A k \in 1..N : A[k] = Step(k, A[k - 1])
  <2>1. \A k \in 0..N : A[k] = Body(A)[k]
    <3> HIDE DEF Body
    <3> QED
      BY <1>12
  <2>2. 0 \in 0..N /\ \A k \in 1..N : k \in 0..N /\ k # 0
    BY <1>2
  <2> QED
    BY <2>1, <2>2
<1> HIDE DEF Body
<1> DEFINE T == {k \in 0..N : A[k] \in Seq(S)}
<1>14. \A k \in 0..N : k \in T
  <2>1. 0 \in T
    BY <1>2, <1>7, <1>13
  <2>2. ASSUME NEW k \in 0..N, k < N, k \in T
        PROVE  k + 1 \in T
    <3>1. k + 1 \in 1..N /\ k + 1 - 1 = k /\ k + 1 \in 0..N
      BY <1>2, <2>2
    <3>2. A[k + 1] = Step(k + 1, A[k])
      BY <1>13, <3>1
    <3> QED
      BY <1>5, <2>2, <3>1, <3>2
  <2> HIDE DEF T
  <2> QED
    BY <1>2, <2>1, <2>2, BoundedInduction
<1>15. IsList(A[N]) /\ Range(A[N]) \subseteq S
  BY <1>2, <1>14, ListsOfSets
<1>16. N = 0 => A[N] = known
  BY <1>13
<1> QED
  BY <1>1, <1>6, <1>15, <1>16 DEF AreEarned, known

-----------------------------------------------------------------------------
(* Keys and what a broker delivers *)

LEMMA MatchedIsDelivered ==
  ASSUME NEW p, NEW b, IsKey(p), IsKey(b), RoutingKeysMatch(p, b), Hashes(b) \subseteq {Len(b)}
  PROVE  Delivers(p, b)
<1> DEFINE n == Len(p)
           m == Len(b)
           fits(k) == k \in DOMAIN p /\ b[k] \in {"*", p[k]}
<1>1. /\ n \in Nat \ {0} /\ m \in Nat \ {0} /\ DOMAIN p = 1..n /\ DOMAIN b = 1..m
      /\ \/ p = b
         \/ n = m /\ \A k \in DOMAIN b : fits(k)
         \/ \E k \in DOMAIN b : /\ b[k] = "#" /\ \A j \in 1..(k - 1) : fits(j)
                                /\ k \in DOMAIN p \cup {m}
  BY DEF RoutingKeysMatch, IsKey
<1>2. \A k \in 1..m : b[k] = "#" => k = m
  BY <1>1 DEF Hashes
<1>3. p = b => n = m /\ \A k \in DOMAIN b : fits(k)
  OBVIOUS
<1> HIDE DEF n, m
<1>4. CASE n = m /\ \A k \in DOMAIN b : fits(k)
  <2> DEFINE dealt == [k \in 0..m |-> k]
  <2>1. dealt \in [0..m -> 0..n] /\ dealt[0] = 0 /\ dealt[m] = n
    BY <1>1, <1>4
  <2>2. ASSUME NEW k \in DOMAIN b
        PROVE  /\ dealt[k - 1] <= dealt[k] /\ dealt[k] = dealt[k - 1] + 1
               /\ b[k] \in {"*", p[dealt[k]]}
    <3>1. k \in 0..m /\ k - 1 \in 0..m
      BY <1>1
    <3>2. dealt[k] = k /\ dealt[k - 1] = k - 1
      BY <3>1
    <3> HIDE DEF dealt
    <3> QED
      BY <1>1, <1>4, <3>1, <3>2
  <2> HIDE DEF dealt
  <2> QED
    BY <2>1, <2>2 DEF Delivers, n, m
<1>5. CASE \E k \in DOMAIN b : /\ b[k] = "#" /\ \A j \in 1..(k - 1) : fits(j)
  <2>1. b[m] = "#" /\ \A j \in 1..(m - 1) : fits(j)
    BY <1>1, <1>2, <1>5
  <2> DEFINE dealt == [k \in 0..m |-> IF k = m THEN n ELSE k]
  <2>2. m - 1 <= n
    <3>1. CASE m = 1
      BY <1>1, <3>1
    <3>2. CASE m # 1
      <4>1. m - 1 \in 1..(m - 1)
        BY <1>1, <3>2
      <4> QED
        BY <1>1, <2>1, <4>1
    <3> QED
      BY <3>1, <3>2
  <2>3. dealt \in [0..m -> 0..n] /\ dealt[0] = 0 /\ dealt[m] = n
    BY <1>1, <2>2
  <2>4. ASSUME NEW k \in DOMAIN b
        PROVE  IF b[k] = "#" THEN dealt[k - 1] <= dealt[k]
               ELSE dealt[k] = dealt[k - 1] + 1 /\ b[k] \in {"*", p[dealt[k]]}
    <3>1. k \in 0..m /\ k - 1 \in 0..m /\ k - 1 # m /\ k - 1 <= m - 1
      BY <1>1
    <3>2. dealt[k - 1] = k - 1 /\ dealt[k] = IF k = m THEN n ELSE k
      BY <3>1
    <3> HIDE DEF dealt
    <3>3. CASE k = m
      BY <1>1, <2>1, <2>2, <3>1, <3>2, <3>3
    <3>4. CASE k # m
      <4>1. k \in 1..(m - 1) /\ b[k] # "#"
        BY <1>1, <1>2, <3>4
      <4>2. fits(k)
        BY <2>1, <4>1
      <4> QED
        BY <3>1, <3>2, <3>4, <4>1, <4>2
    <3> QED
      BY <3>3, <3>4
  <2> HIDE DEF dealt
  <2> QED
    BY <2>3, <2>4 DEF Delivers, n, m
<1> QED
  BY <1>1, <1>3, <1>4, <1>5

LEMMA DeliveredIsMatched ==
  ASSUME NEW p, NEW b, IsKey(p), IsKey(b), p # NoName, b # NoName, Delivers(p, b),
         ~RoutingKeysMatch(p, b)
  PROVE  {Len(b) - 1, Len(b)} \subseteq Hashes(b)
<1> DEFINE n == Len(p)
           m == Len(b)
           fits(k) == k \in DOMAIN p /\ b[k] \in {"*", p[k]}
<1>1. n \in Nat \ {0} /\ m \in Nat \ {0} /\ DOMAIN p = 1..n /\ DOMAIN b = 1..m
  BY DEF IsKey
<1>2. /\ ~(n = m /\ \A k \in DOMAIN b : fits(k))
      /\ \A k \in DOMAIN b : b[k] = "#" /\ (\A j \in 1..(k - 1) : fits(j)) => k \notin DOMAIN p \cup {m}
  BY DEF RoutingKeysMatch
<1>3. PICK dealt \in [0..m -> 0..n] :
        /\ dealt[0] = 0 /\ dealt[m] = n
        /\ \A k \in DOMAIN b :
             IF b[k] = "#" THEN dealt[k - 1] <= dealt[k]
             ELSE dealt[k] = dealt[k - 1] + 1 /\ b[k] \in {"*", p[dealt[k]]}
  BY DEF Delivers
<1>4. Hashes(b) = {k \in 1..m : b[k] = "#"}
  BY <1>1 DEF Hashes
<1> HIDE DEF n, m
<1>5. \A k \in 0..m : dealt[k] \in 0..n
  BY <1>3
<1>6. ASSUME NEW h \in 1..(m + 1), \A k \in 1..(h - 1) : b[k] # "#"
      PROVE  (\A k \in 0..(h - 1) : dealt[k] = k) /\ \A k \in 1..(h - 1) : fits(k)
  <2> DEFINE T == {k \in 0..(h - 1) : dealt[k] = k}
  <2>1. 0 \in T /\ h - 1 \in Nat
    BY <1>1, <1>3
  <2>2. ASSUME NEW k \in 0..(h - 1), k < h - 1, k \in T
        PROVE  k + 1 \in T
    <3>1. k + 1 \in 1..(h - 1) /\ k + 1 \in DOMAIN b /\ k + 1 - 1 = k
      BY <1>1, <2>2
    <3>2. PICK j \in DOMAIN b : j = k + 1 /\ b[j] # "#" /\ j - 1 = k
      BY <1>6, <3>1
    <3>3. dealt[j] = dealt[j - 1] + 1
      BY <1>3, <3>2
    <3>4. dealt[j] = j
      BY <2>2, <3>2, <3>3
    <3> QED
      BY <3>1, <3>2, <3>4
  <2>3. \A k \in 0..(h - 1) : k \in T
    <3> HIDE DEF T
    <3> QED
      BY <2>1, <2>2, BoundedInduction
  <2>4. ASSUME NEW k \in 1..(h - 1)
        PROVE  fits(k)
    <3>1. k \in 0..(h - 1) /\ k \in DOMAIN b /\ k \in 0..m
      BY <1>1
    <3>2. dealt[k] = k /\ dealt[k] \in 0..n /\ b[k] # "#"
      BY <1>5, <1>6, <2>3, <3>1
    <3>3. b[k] \in {"*", p[dealt[k]]}
      BY <1>3, <3>1, <3>2
    <3> QED
      BY <1>1, <3>2, <3>3
  <2> QED
    BY <2>3, <2>4
<1>7. Hashes(b) # {}
  <2> SUFFICES ASSUME Hashes(b) = {} PROVE FALSE
    OBVIOUS
  <2>1. m + 1 \in 1..(m + 1) /\ m + 1 - 1 = m /\ m \in 0..m
    BY <1>1
  <2>2. \A k \in 1..m : b[k] # "#"
    BY <1>4
  <2>3. (\A k \in 0..m : dealt[k] = k) /\ \A k \in 1..m : fits(k)
    <3>1. PICK h \in 1..(m + 1) : h - 1 = m
      BY <2>1
    <3>2. \A k \in 1..(h - 1) : b[k] # "#"
      BY <2>2, <3>1
    <3>3. (\A k \in 0..(h - 1) : dealt[k] = k) /\ \A k \in 1..(h - 1) : fits(k)
      BY <1>6, <3>2
    <3> QED
      BY <3>1, <3>3
  <2> QED
    BY <1>1, <1>2, <1>3, <2>1, <2>3
<1>8. PICK h \in Hashes(b) : \A k \in Hashes(b) : h <= k
  <2>1. Hashes(b) \subseteq Nat
    BY <1>1, <1>4
  <2> QED
    BY <1>7, <2>1, SmallestOfNumbers
<1>9. h \in 1..m /\ b[h] = "#" /\ \A k \in 1..(h - 1) : b[k] # "#"
  BY <1>1, <1>4, <1>8
<1>10. (\A k \in 0..(h - 1) : dealt[k] = k) /\ \A k \in 1..(h - 1) : fits(k)
  <2>1. h \in 1..(m + 1)
    BY <1>1, <1>9
  <2> QED
    BY <1>6, <1>9, <2>1
<1>11. n = h - 1 /\ h < m
  <2>1. h \notin DOMAIN p /\ h # m
    BY <1>1, <1>2, <1>9, <1>10
  <2>2. h - 1 \in 0..(h - 1) /\ h - 1 \in 0..m
    BY <1>1, <1>9
  <2>3. dealt[h - 1] = h - 1 /\ dealt[h - 1] \in 0..n
    BY <1>5, <1>10, <2>2
  <2> QED
    BY <1>1, <1>9, <2>1, <2>3
<1>12. \A k \in 0..m : k >= h - 1 => dealt[k] = n
  <2> DEFINE T == {k \in 0..m : k >= h - 1 => dealt[k] = n}
  <2>1. ASSUME NEW k \in 0..m, k = h - 1
        PROVE  k \in T
    <3>1. k \in 0..(h - 1)
      BY <1>9, <2>1
    <3>2. dealt[k] = n
      BY <1>10, <1>11, <2>1, <3>1
    <3> QED
      BY <3>2
  <2>2. 0 \in T
    <3>1. 0 \in 0..m /\ (0 >= h - 1 => 0 = h - 1)
      BY <1>1, <1>9
    <3> QED
      BY <2>1, <3>1
  <2>3. ASSUME NEW k \in 0..m, k < m, k \in T
        PROVE  k + 1 \in T
    <3>1. PICK j \in DOMAIN b : j = k + 1 /\ j - 1 = k /\ j \in 0..m
      BY <1>1, <2>3
    <3>2. CASE j <= h - 1
      BY <1>9, <2>1, <3>1, <3>2
    <3>3. CASE j > h - 1
      <4>1. k >= h - 1
        BY <1>9, <3>1, <3>3
      <4>2. dealt[k] = n /\ dealt[j] \in 0..n
        BY <1>5, <2>3, <3>1, <4>1
      <4>3. dealt[j - 1] <= dealt[j] \/ dealt[j] = dealt[j - 1] + 1
        BY <1>3
      <4>4. dealt[j] = n
        BY <1>1, <3>1, <4>2, <4>3
      <4> QED
        BY <3>1, <4>4
    <3> QED
      BY <1>9, <3>1, <3>2, <3>3
  <2>4. \A k \in 0..m : k \in T
    <3> HIDE DEF T
    <3> QED
      BY <1>1, <2>2, <2>3, BoundedInduction
  <2> QED
    BY <2>4
<1>13. ASSUME NEW k \in 1..m, k >= h
       PROVE  b[k] = "#"
  <2>1. k \in 0..m /\ k - 1 \in 0..m /\ k >= h - 1 /\ k - 1 >= h - 1 /\ k \in DOMAIN b
    BY <1>1, <1>9, <1>13
  <2>2. dealt[k] = n /\ dealt[k - 1] = n
    BY <1>12, <2>1
  <2>3. b[k] # "#" => dealt[k] = dealt[k - 1] + 1
    BY <1>3, <2>1
  <2> QED
    BY <1>1, <2>2, <2>3
<1>14. m \in 1..m /\ m >= h /\ m - 1 \in 1..m /\ m - 1 >= h
  BY <1>1, <1>9, <1>11
<1>15. m \in Hashes(b) /\ m - 1 \in Hashes(b)
  BY <1>4, <1>13, <1>14
<1> QED
  BY <1>15 DEF m

-----------------------------------------------------------------------------
(* What an estate is, and that it stays. *)

LEMMA EstateTells ==
  ASSUME estate \in Estates
  PROVE  /\ estate.maxFiles \in Nat \ {0} /\ estate.maxObservations \in Nat \ {0} /\ estate.maxContracts \in Nat
         /\ RepositoryIds = 1..Len(estate.repositories) /\ Len(estate.repositories) \in Nat \ {0}
         /\ \A r \in RepositoryIds :
              /\ IsList(RepositoryAt(r).files) /\ AreUnseen(RepositoryAt(r).edges)
              /\ \A f \in Range(RepositoryAt(r).files) : f.outcome = "found" => AreUnseen(f.found)
              /\ IsList(RepositoryAt(r).runtime.observed)
              /\ \A raw \in Range(RepositoryAt(r).runtime.observed) : raw.place \in Nat /\ IsKey(raw.key)
<1>1. IsEstate(estate)
  BY EstatesAssumption DEF EstatesAssumption
<1>2. estate.repositories \in Seq(Range(estate.repositories)) /\ estate.repositories # <<>>
  BY <1>1 DEF IsEstate, IsList
<1>3. RepositoryIds = 1..Len(estate.repositories) /\ Len(estate.repositories) \in Nat \ {0}
  BY <1>2 DEF RepositoryIds
<1>4. \A r \in RepositoryIds : RepositoryAt(r) \in Range(estate.repositories)
  BY DEF RepositoryIds, RepositoryAt, Range
<1> QED
  BY <1>1, <1>3, <1>4 DEF IsEstate

LEMMA EstateStays ==
  ASSUME UNCHANGED estate
  PROVE  /\ RepositoryIds' = RepositoryIds
         /\ \A r : /\ RepositoryAt(r)' = RepositoryAt(r) /\ Missed(r)' = Missed(r)
                   /\ Confirmable(r)' = Confirmable(r)
BY DEF RepositoryIds, RepositoryAt, Missed, Confirmable

LEMMA NothingTold == scan'.answer = NoName => ContractsAreReal'
BY DEF ContractsAreReal, EventsTold

LEMMA UnseenSidesAreEarned ==
  ASSUME NEW s, AreUnseen(s)
  PROVE  AreEarned(s) /\ \A o \in Range(s) : o.repository \in Nat /\ o.place \in Nat
BY DEF AreUnseen, AreEarned, IsSide

LEMMA SortedStaysUnseen ==
  ASSUME NEW s, AreUnseen(s)
  PROVE  AreUnseen(SortedSides(Range(s)))
<1>1. IsList(s) /\ \A o \in Range(s) : o.repository \in Nat /\ o.place \in Nat
  BY UnseenSidesAreEarned DEF AreUnseen
<1>2. IsFiniteSet(Range(s))
  BY <1>1, ListsAreFinite
<1>3. IsList(SortedSides(Range(s))) /\ Range(SortedSides(Range(s))) \subseteq Range(s)
  BY <1>1, <1>2, SortedTells
<1> QED
  BY <1>3 DEF AreUnseen

(* What is taken in is a part of what was found, and all that there is room *)
(* for.                                                                     *)
LEMMA AddedTells ==
  ASSUME NEW found, AreUnseen(found), AreUnseen(scan.observations), ~NoRoom,
         estate.maxObservations \in Nat
  PROVE  /\ AreUnseen(scan.observations \o AtMost(Room, found))
         /\ Len(found) > Room =>
              Len(scan.observations \o AtMost(Room, found)) = estate.maxObservations
<1> DEFINE known == scan.observations
           room == Room
           more == AtMost(room, found)
<1>1. IsList(known) /\ IsList(found) /\ Len(known) \in Nat /\ Len(found) \in Nat
  BY DEF AreUnseen, IsList
<1>2. room \in Nat /\ room = estate.maxObservations - Len(known)
  BY <1>1 DEF Room, NoRoom
<1> HIDE DEF room
<1>3. /\ IsList(more) /\ Range(more) \subseteq Range(found)
      /\ Len(found) > room => Len(more) = room
  BY <1>1, <1>2, FirstOfList
<1> HIDE DEF more, known
<1>4. /\ IsList(known \o more) /\ Range(known \o more) = Range(known) \cup Range(more)
      /\ Len(known \o more) = Len(known) + Len(more)
  BY <1>1, <1>3, JoinedLists
<1>5. AreUnseen(known \o more)
  BY <1>3, <1>4 DEF AreUnseen, known
<1>6. Len(found) > room => Len(known \o more) = estate.maxObservations
  BY <1>1, <1>2, <1>3, <1>4
<1> QED
  BY <1>5, <1>6 DEF known, more, room

LEMMA ScanStarts == ScanInit => ScanInv
<1> SUFFICES ASSUME ScanInit PROVE ScanInv
  OBVIOUS
<1>1. /\ estate \in Estates /\ DOMAIN scan = ScanFields
      /\ scan.step = "repository" /\ scan.repository = 1 /\ scan.todo = <<>> /\ scan.considered = 0
      /\ scan.hit = FALSE /\ scan.unreadable = 0 /\ scan.oversize = 0 /\ scan.observations = <<>>
      /\ scan.backend = <<>> /\ scan.resolved = {} /\ scan.answer = NoName
  BY DEF ScanInit, ScanFields
<1>2. AreUnseen(<<>>) /\ IsList(<<>>)
  BY DEF AreUnseen, IsList, Range
<1>3. ScanTypes
  BY <1>1, <1>2, EstateTells DEF ScanTypes
<1>4. SidesAreEarned
  BY <1>1, <1>2, UnseenSidesAreEarned DEF SidesAreEarned
<1>5. LossesAreRecorded
  BY <1>1, EstateTells DEF LossesAreRecorded, LookedAt, Searching
<1>6. ReportsAreKept
  BY <1>1 DEF ReportsAreKept
<1>7. ContractsAreReal
  BY <1>1 DEF ContractsAreReal, EventsTold
<1> QED
  BY <1>1, <1>3, <1>4, <1>5, <1>6, <1>7 DEF ScanInv

LEMMA StopScanKeeps == ScanInv /\ StopScan => ScanInv'
<1> SUFFICES ASSUME ScanInv, StopScan PROVE ScanInv'
  OBVIOUS
<1>1. /\ ScanTypes /\ SidesAreEarned /\ ReportsAreKept /\ scan.answer = NoName
      /\ UNCHANGED estate /\ scan.step = "repository" /\ ~Within
  BY DEF ScanInv, StopScan
<1>2. /\ DOMAIN scan' = ScanFields /\ scan'.step = "fallback" /\ scan'.repository = 1 /\ scan'.hit = NoRoom
      /\ scan'.observations = SortedSides(Range(scan.observations))
      /\ scan'.todo = scan.todo /\ scan'.considered = scan.considered /\ scan'.unreadable = scan.unreadable
      /\ scan'.oversize = scan.oversize /\ scan'.backend = scan.backend /\ scan'.resolved = scan.resolved
      /\ scan'.answer = scan.answer
  BY <1>1 DEF StopScan, ScanTypes, ScanFields
<1>3. ScanTypes'
  BY <1>1, <1>2, EstateTells DEF ScanTypes
<1>4. SidesAreEarned'
  <2>1. AreUnseen(scan'.observations)
    BY <1>1, <1>2, SortedStaysUnseen DEF SidesAreEarned
  <2> QED
    BY <1>1, <1>2, <2>1, UnseenSidesAreEarned, EstateStays DEF SidesAreEarned, AreEarned
<1>5. LossesAreRecorded'
  <2>1. \A r : Recorded(r)'
    <3>1. CASE NoRoom
      BY <1>2, <3>1 DEF Recorded
    <3>2. CASE ~NoRoom
      <4>1. scan.considered = estate.maxFiles
        BY <1>1, <3>2, EstateTells DEF Within, MayConsider, ScanTypes
      <4> QED
        BY <1>1, <1>2, <4>1 DEF Recorded
    <3> QED
      BY <3>1, <3>2
  <2> QED
    BY <1>2, <2>1 DEF LossesAreRecorded, Searching
<1>6. ReportsAreKept'
  BY <1>1, <1>2, EstateStays DEF ReportsAreKept
<1> QED
  BY <1>1, <1>2, <1>3, <1>4, <1>5, <1>6, NothingTold DEF ScanInv

LEMMA OpenKeeps == ScanInv /\ OpenRepository => ScanInv'
<1> SUFFICES ASSUME ScanInv, OpenRepository PROVE ScanInv'
  OBVIOUS
<1> DEFINE files == AtMost(MayConsider, RepositoryAt(scan.repository).files)
<1>1. /\ ScanTypes /\ SidesAreEarned /\ LossesAreRecorded /\ ReportsAreKept /\ scan.answer = NoName
      /\ UNCHANGED estate /\ scan.step = "repository" /\ scan.repository \in RepositoryIds
  BY DEF ScanInv, OpenRepository
<1>2. /\ DOMAIN scan' = ScanFields /\ scan'.step = "files" /\ scan'.todo = files
      /\ scan'.considered = scan.considered + Len(files)
      /\ scan'.repository = scan.repository /\ scan'.hit = scan.hit /\ scan'.unreadable = scan.unreadable
      /\ scan'.oversize = scan.oversize /\ scan'.observations = scan.observations
      /\ scan'.backend = scan.backend /\ scan'.resolved = scan.resolved /\ scan'.answer = scan.answer
  BY <1>1 DEF OpenRepository, ScanTypes, ScanFields
<1>3. /\ MayConsider \in Nat /\ scan.considered \in Nat /\ estate.maxFiles \in Nat
      /\ MayConsider = estate.maxFiles - scan.considered
      /\ IsList(RepositoryAt(scan.repository).files)
  BY <1>1, EstateTells DEF MayConsider, ScanTypes
<1>4. /\ IsList(files) /\ Len(files) \in Nat /\ Len(files) <= MayConsider
      /\ Range(files) \subseteq Range(RepositoryAt(scan.repository).files)
      /\ \/ Len(files) = MayConsider
         \/ Range(files) = Range(RepositoryAt(scan.repository).files)
  <2> DEFINE all == RepositoryAt(scan.repository).files
             n == MayConsider
  <2>1. Len(all) \in Nat /\ n \in Nat /\ IsList(all)
    BY <1>3 DEF IsList
  <2> HIDE DEF all, n
  <2>2. /\ IsList(AtMost(n, all)) /\ Range(AtMost(n, all)) \subseteq Range(all)
        /\ Len(AtMost(n, all)) = IF n < Len(all) THEN n ELSE Len(all)
        /\ n >= Len(all) => Range(AtMost(n, all)) = Range(all)
    BY <2>1, FirstOfList
  <2>3. n < Len(all) \/ n >= Len(all)
    BY <2>1
  <2> QED
    BY <2>1, <2>2, <2>3 DEF all, n
<1> HIDE DEF files
<1>5. scan'.considered \in 0..estate.maxFiles /\ scan'.considered >= scan.considered
  BY <1>2, <1>3, <1>4
<1>6. ScanTypes'
  BY <1>1, <1>2, <1>4, <1>5, EstateStays DEF ScanTypes
<1>7. SidesAreEarned'
  BY <1>1, <1>2, EstateStays DEF SidesAreEarned, AreEarned
<1>8. LossesAreRecorded'
  <2>1. Searching' /\ scan'.hit => NoRoom'
    BY <1>1, <1>2 DEF LossesAreRecorded, Searching, NoRoom
  <2>2. ASSUME NEW r \in RepositoryIds, r < scan.repository
        PROVE  Recorded(r)'
    <3>1. Recorded(r) /\ r # scan.repository
      <4>1. LookedAt(r)
        BY <2>2 DEF LookedAt
      <4>2. r \in Nat /\ scan.repository \in Nat
        BY <1>1, EstateTells DEF ScanTypes
      <4> QED
        BY <1>1, <2>2, <4>1, <4>2 DEF LossesAreRecorded
    <3>2. scan.considered = estate.maxFiles => scan'.considered = estate.maxFiles
      BY <1>3, <1>5
    <3> QED
      BY <1>1, <1>2, <3>1, <3>2, EstateStays DEF Recorded
  <2>3. Recorded(scan.repository)'
    <3>1. CASE Len(files) = MayConsider
      BY <1>1, <1>2, <1>3, <3>1 DEF Recorded
    <3>2. CASE Range(files) = Range(RepositoryAt(scan.repository).files)
      <4>1. Missed(scan.repository) \subseteq Range(scan'.todo)
        BY <1>2, <3>2 DEF Missed
      <4> QED
        BY <1>2, <4>1, EstateStays, <1>1 DEF Recorded
    <3> QED
      BY <1>4, <3>1, <3>2
  <2> QED
    BY <1>1, <1>2, <2>1, <2>2, <2>3, EstateStays DEF LossesAreRecorded, LookedAt, Searching
<1>9. ReportsAreKept'
  BY <1>1, <1>2, EstateStays DEF ReportsAreKept
<1> QED
  BY <1>1, <1>2, <1>6, <1>7, <1>8, <1>9, NothingTold DEF ScanInv


LEMMA CopyKeeps == ScanInv /\ CopyBackend => ScanInv'
<1> SUFFICES ASSUME ScanInv, CopyBackend PROVE ScanInv'
  OBVIOUS
<1> DEFINE copies == [k \in DOMAIN scan.backend |-> [scan.backend[k] EXCEPT !.repository = scan.repository]]
           more == AtMost(Room, copies)
           known == scan.observations
<1>1. /\ ScanTypes /\ SidesAreEarned /\ LossesAreRecorded /\ ReportsAreKept /\ scan.answer = NoName
      /\ UNCHANGED estate /\ scan.step = "repository" /\ scan.repository \in RepositoryIds \ {1}
      /\ ~NoRoom /\ RepositoryAt(scan.repository).same
  BY DEF ScanInv, CopyBackend, Within
<1>2. /\ DOMAIN scan' = ScanFields /\ scan'.repository = scan.repository + 1
      /\ scan'.hit = (Len(copies) > Room) /\ scan'.observations = known \o more
      /\ scan'.step = scan.step /\ scan'.todo = scan.todo /\ scan'.considered = scan.considered
      /\ scan'.unreadable = scan.unreadable /\ scan'.oversize = scan.oversize
      /\ scan'.backend = scan.backend /\ scan'.resolved = scan.resolved /\ scan'.answer = scan.answer
  BY <1>1 DEF CopyBackend, ScanTypes, ScanFields
<1>3. AreUnseen(copies)
  <2> DEFINE copy(k) == [scan.backend[k] EXCEPT !.repository = scan.repository]
             S == {copy(k) : k \in DOMAIN scan.backend}
  <2>1. IsList(scan.backend) /\ \A k \in DOMAIN scan.backend : scan.backend[k] \in Range(scan.backend)
    BY <1>1 DEF SidesAreEarned, AreUnseen, Range
  <2>2. ASSUME NEW k \in DOMAIN scan.backend
        PROVE  IsSide(copy(k)) /\ ~copy(k).observed
    <3>1. IsSide(scan.backend[k]) /\ ~scan.backend[k].observed
      BY <1>1, <2>1 DEF SidesAreEarned, AreUnseen
    <3>2. /\ DOMAIN copy(k) = SideFields /\ copy(k).repository = scan.repository
          /\ copy(k).place = scan.backend[k].place /\ copy(k).key = scan.backend[k].key
          /\ copy(k).observed = scan.backend[k].observed
      BY <3>1 DEF IsSide, SideFields
    <3>3. scan.repository \in Nat
      BY <1>1, EstateTells DEF ScanTypes
    <3> HIDE DEF copy
    <3> QED
      BY <3>1, <3>2, <3>3 DEF IsSide
  <2>3. copies \in Seq(S)
    <3>1. DOMAIN scan.backend = 1..Len(scan.backend) /\ Len(scan.backend) \in Nat
      BY <2>1 DEF IsList
    <3> HIDE DEF copy
    <3>2. copies = [k \in DOMAIN scan.backend |-> copy(k)]
      BY DEF copy
    <3> HIDE DEF copies
    <3> QED
      BY <3>1, <3>2
  <2> HIDE DEF copies, copy
  <2>4. IsList(copies) /\ Range(copies) \subseteq S
    BY <2>3, ListsOfSets
  <2> QED
    BY <2>2, <2>4 DEF AreUnseen
<1> HIDE DEF copies
<1>6. /\ AreUnseen(known \o more)
      /\ Len(copies) > Room => Len(known \o more) = estate.maxObservations
  <2>1. AreUnseen(scan.observations) /\ estate.maxObservations \in Nat
    BY <1>1, EstateTells DEF SidesAreEarned, ScanTypes
  <2> QED
    BY <1>1, <1>3, <2>1, AddedTells
<1> HIDE DEF more
<1> HIDE DEF known
<1>7. ScanTypes'
  <2>1. scan.repository + 1 \in 1..(Len(estate.repositories) + 1)
    BY <1>1, EstateTells DEF ScanTypes
  <2> QED
    BY <1>1, <1>2, <2>1, EstateStays DEF ScanTypes
<1>8. SidesAreEarned'
  BY <1>1, <1>2, <1>6, UnseenSidesAreEarned, EstateStays DEF SidesAreEarned, AreEarned
<1>9. LossesAreRecorded'
  <2>1. scan'.hit => NoRoom'
    <3> SUFFICES ASSUME scan'.hit PROVE NoRoom'
      OBVIOUS
    <3>1. Len(scan'.observations) = estate.maxObservations /\ estate.maxObservations \in Nat
      BY <1>1, <1>2, <1>6, EstateTells DEF ScanTypes
    <3> QED
      BY <1>1, <3>1 DEF NoRoom
  <2>2. ASSUME NEW r \in RepositoryIds, r < scan.repository
        PROVE  Recorded(r)'
    <3>1. Recorded(r) /\ ~scan.hit
      BY <1>1, <2>2 DEF LossesAreRecorded, LookedAt, Searching
    <3> QED
      BY <1>1, <1>2, <3>1, EstateStays DEF Recorded
  <2>3. ASSUME NEW r \in RepositoryIds, r = scan.repository
        PROVE  Recorded(r)'
    BY <1>1, <1>2, <2>3, EstateStays DEF Recorded
  <2>4. ASSUME NEW r \in RepositoryIds, r < scan.repository + 1
        PROVE  Recorded(r)'
    <3>1. r \in Nat /\ scan.repository \in Nat
      BY <1>1, EstateTells DEF ScanTypes
    <3>2. r < scan.repository \/ r = scan.repository
      BY <2>4, <3>1
    <3> QED
      BY <2>2, <2>3, <3>2
  <2> QED
    BY <1>1, <1>2, <2>1, <2>4, EstateStays DEF LossesAreRecorded, LookedAt, Searching
<1>10. ReportsAreKept'
  BY <1>1, <1>2, EstateStays DEF ReportsAreKept
<1> QED
  BY <1>1, <1>2, <1>7, <1>8, <1>9, <1>10, NothingTold DEF ScanInv

LEMMA FileKeeps == ScanInv /\ ScanFile => ScanInv'
<1> SUFFICES ASSUME ScanInv, ScanFile PROVE ScanInv'
  OBVIOUS
<1> DEFINE file == Head(scan.todo)
           found == IF file.outcome = "found" THEN file.found ELSE <<>>
           one(outcome) == IF file.outcome = outcome THEN 1 ELSE 0
           here == scan.repository
           known == scan.observations
           more == AtMost(Room, found)
<1>1. /\ ScanTypes /\ SidesAreEarned /\ LossesAreRecorded /\ ReportsAreKept /\ scan.answer = NoName
      /\ UNCHANGED estate /\ scan.step = "files" /\ scan.todo # <<>> /\ here \in RepositoryIds
  BY DEF ScanInv, ScanFile, ScanTypes
<1>2. /\ IsList(scan.todo) /\ IsList(Tail(scan.todo)) /\ Range(scan.todo) = {file} \cup Range(Tail(scan.todo))
      /\ estate \in Estates
  BY <1>1, RestOfList DEF ScanTypes
<1>3. /\ DOMAIN scan' = ScanFields /\ scan'.step = "files" /\ scan'.repository = here
      /\ scan'.considered = scan.considered /\ scan'.backend = scan.backend
      /\ scan'.resolved = scan.resolved /\ scan'.answer = scan.answer
  BY <1>1 DEF ScanFile, ScanTypes, ScanFields
<1>4. \/ /\ ~file.candidate /\ scan'.todo = Tail(scan.todo) /\ scan'.hit = scan.hit
         /\ scan'.unreadable = scan.unreadable /\ scan'.oversize = scan.oversize /\ scan'.observations = known
      \/ /\ NoRoom /\ scan'.todo = <<>> /\ scan'.hit = TRUE
         /\ scan'.unreadable = scan.unreadable /\ scan'.oversize = scan.oversize /\ scan'.observations = known
      \/ /\ ~NoRoom /\ scan'.todo = Tail(scan.todo) /\ scan'.hit = (scan.hit \/ Len(found) > Room)
         /\ scan'.unreadable = scan.unreadable + one("unreadable")
         /\ scan'.oversize = scan.oversize + one("oversize") /\ scan'.observations = known \o more
  BY <1>1 DEF ScanFile, ScanTypes, ScanFields
<1>5. IsList(found) /\ AreUnseen(found)
  <2>1. AreUnseen(<<>>)
    BY DEF AreUnseen, IsList, Range
  <2>2. file \in Range(RepositoryAt(here).files)
    BY <1>1, <1>2 DEF ScanTypes
  <2>3. file.outcome = "found" => AreUnseen(file.found)
    BY <1>1, <1>2, <2>2, EstateTells
  <2> QED
    BY <2>1, <2>3 DEF AreUnseen
<1>6. /\ AreUnseen(known) /\ estate.maxObservations \in Nat /\ scan.unreadable \in Nat /\ scan.oversize \in Nat
      /\ Range(scan.todo) \subseteq Range(RepositoryAt(here).files)
  BY <1>1, EstateTells DEF ScanTypes, SidesAreEarned
<1>7. one("unreadable") \in {0, 1} /\ one("oversize") \in {0, 1}
  OBVIOUS
<1>8. ~NoRoom => /\ AreUnseen(known \o more)
                 /\ Len(found) > Room => Len(known \o more) = estate.maxObservations
  <2> HIDE DEF found
  <2> QED
    BY <1>5, <1>6, AddedTells
<1>9. /\ IsList(scan'.todo) /\ Range(scan'.todo) \subseteq Range(scan.todo)
      /\ scan'.unreadable \in Nat /\ scan'.oversize \in Nat
      /\ scan'.unreadable >= scan.unreadable /\ scan'.oversize >= scan.oversize
      /\ scan.hit => scan'.hit
  <2>1. IsList(<<>>) /\ Range(<<>>) = {}
    BY DEF IsList, Range
  <2> HIDE DEF file, more, found, one
  <2>2. IsList(scan'.todo) /\ Range(scan'.todo) \subseteq Range(scan.todo)
    BY <1>2, <1>4, <2>1
  <2>3. \/ scan'.unreadable = scan.unreadable
        \/ scan'.unreadable = scan.unreadable + one("unreadable")
    BY <1>4
  <2>4. \/ scan'.oversize = scan.oversize
        \/ scan'.oversize = scan.oversize + one("oversize")
    BY <1>4
  <2>5. scan.hit => scan'.hit
    BY <1>4
  <2> QED
    BY <1>6, <1>7, <2>2, <2>3, <2>4, <2>5
<1>10. ScanTypes'
  BY <1>1, <1>3, <1>6, <1>9, EstateStays DEF ScanTypes
<1>11. AreUnseen(scan'.observations)
  BY <1>4, <1>6, <1>8
<1>12. SidesAreEarned'
  BY <1>1, <1>3, <1>11, UnseenSidesAreEarned, EstateStays DEF SidesAreEarned, AreEarned
<1>13. LossesAreRecorded'
  <2>1. scan'.hit => NoRoom'
    <3> SUFFICES ASSUME scan'.hit PROVE NoRoom'
      OBVIOUS
    <3>1. scan.hit => NoRoom
      BY <1>1 DEF LossesAreRecorded, Searching
    <3>2. CASE scan'.observations = known /\ NoRoom
      BY <1>1, <3>2 DEF NoRoom
    <3>3. CASE ~NoRoom /\ scan'.observations = known \o more /\ Len(found) > Room
      <4>1. Len(scan'.observations) = estate.maxObservations
        BY <1>8, <3>3
      <4> QED
        BY <1>1, <1>6, <4>1 DEF NoRoom
    <3> QED
      BY <1>4, <3>1, <3>2, <3>3
  <2>2. ASSUME NEW r \in RepositoryIds, r < here
        PROVE  Recorded(r)'
    <3>1. Recorded(r)
      BY <1>1, <2>2 DEF LossesAreRecorded, LookedAt, Searching
    <3>2. r # here /\ scan.unreadable > 0 => scan'.unreadable > 0
      BY <1>1, <1>6, <1>9, <2>2, EstateTells DEF ScanTypes
    <3>3. r # here /\ scan.oversize > 0 => scan'.oversize > 0
      BY <1>6, <1>9
    <3>4. r # here
      <4>1. r \in Nat /\ here \in Nat
        BY <1>1, EstateTells DEF ScanTypes
      <4> QED
        BY <2>2, <4>1
    <3> QED
      BY <1>1, <1>3, <1>9, <3>1, <3>2, <3>3, <3>4, EstateStays DEF Recorded
  <2>3. Recorded(here)'
    <3>1. Recorded(here)
      BY <1>1 DEF LossesAreRecorded, LookedAt, Searching
    <3>2. scan.unreadable > 0 => scan'.unreadable > 0
      BY <1>6, <1>9
    <3>3. scan.oversize > 0 => scan'.oversize > 0
      BY <1>6, <1>9
    <3>4. \/ scan'.hit \/ scan'.unreadable > 0 \/ scan'.oversize > 0
          \/ file \notin Missed(here) /\ scan'.todo = Tail(scan.todo)
      <4>1. file \in Missed(here) => file.candidate /\ file.outcome \in {"unreadable", "oversize"}
        BY DEF Missed
      <4>2. file \in Missed(here) => one("unreadable") = 1 \/ one("oversize") = 1
        BY <4>1
      <4> HIDE DEF file, more, found, one
      <4> QED
        BY <1>4, <1>6, <1>7, <4>1, <4>2
    <3>5. /\ Missed(here)' = Missed(here) /\ RepositoryAt(here)' = RepositoryAt(here)
          /\ estate' = estate /\ scan.step = "files" /\ scan'.step = "files" /\ scan'.repository = here
      BY <1>1, <1>3, EstateStays
    <3>6. Missed(here) \subseteq Range(scan.todo) /\ file \notin Missed(here) /\ scan'.todo = Tail(scan.todo)
            => Missed(here) \subseteq Range(scan'.todo)
      BY <1>2
    <3> HIDE DEF file
    <3> QED
      BY <1>3, <1>9, <3>1, <3>2, <3>3, <3>4, <3>5, <3>6 DEF Recorded
  <2> QED
    BY <1>1, <1>3, <2>1, <2>2, <2>3, EstateStays DEF LossesAreRecorded, LookedAt, Searching
<1>14. ReportsAreKept'
  BY <1>1, <1>3, EstateStays DEF ReportsAreKept
<1> QED
  BY <1>1, <1>3, <1>10, <1>12, <1>13, <1>14, NothingTold DEF ScanInv


LEMMA CloseKeeps == ScanInv /\ CloseRepository => ScanInv'
<1> SUFFICES ASSUME ScanInv, CloseRepository PROVE ScanInv'
  OBVIOUS
<1>1. /\ ScanTypes /\ SidesAreEarned /\ LossesAreRecorded /\ ReportsAreKept /\ scan.answer = NoName
      /\ UNCHANGED estate /\ scan.step = "files" /\ scan.todo = <<>> /\ scan.repository \in RepositoryIds
  BY DEF ScanInv, CloseRepository, ScanTypes
<1>2. /\ DOMAIN scan' = ScanFields /\ scan'.step = "repository" /\ scan'.repository = scan.repository + 1
      /\ scan'.backend \in {scan.backend, scan.observations}
      /\ scan'.todo = scan.todo /\ scan'.considered = scan.considered /\ scan'.hit = scan.hit
      /\ scan'.unreadable = scan.unreadable /\ scan'.oversize = scan.oversize
      /\ scan'.observations = scan.observations /\ scan'.resolved = scan.resolved /\ scan'.answer = scan.answer
  BY <1>1 DEF CloseRepository, ScanTypes, ScanFields
<1>3. ScanTypes'
  <2>1. scan.repository + 1 \in 1..(Len(estate.repositories) + 1)
    BY <1>1, EstateTells DEF ScanTypes
  <2> QED
    BY <1>1, <1>2, <2>1, EstateStays DEF ScanTypes
<1>4. SidesAreEarned'
  BY <1>1, <1>2, EstateStays DEF SidesAreEarned, AreEarned
<1>5. LossesAreRecorded'
  <2>1. scan'.hit => NoRoom'
    BY <1>1, <1>2 DEF LossesAreRecorded, Searching, NoRoom
  <2>2. ASSUME NEW r \in RepositoryIds, r < scan.repository + 1
        PROVE  Recorded(r)'
    <3>1. r \in Nat /\ scan.repository \in Nat
      BY <1>1, EstateTells DEF ScanTypes
    <3>2. Recorded(r)
      BY <1>1, <2>2, <3>1 DEF LossesAreRecorded, LookedAt, Searching
    <3>3. Range(scan.todo) = {}
      BY <1>1 DEF Range
    <3> QED
      BY <1>1, <1>2, <3>2, <3>3, EstateStays DEF Recorded
  <2> QED
    BY <1>1, <1>2, <2>1, <2>2, EstateStays DEF LossesAreRecorded, LookedAt, Searching
<1>6. ReportsAreKept'
  BY <1>1, <1>2, EstateStays DEF ReportsAreKept
<1> QED
  BY <1>1, <1>2, <1>3, <1>4, <1>5, <1>6, NothingTold DEF ScanInv

LEMMA EndKeeps == ScanInv /\ EndScan => ScanInv'
<1> SUFFICES ASSUME ScanInv, EndScan PROVE ScanInv'
  OBVIOUS
<1>1. /\ ScanTypes /\ SidesAreEarned /\ LossesAreRecorded /\ ReportsAreKept /\ scan.answer = NoName
      /\ UNCHANGED estate /\ scan.step = "repository" /\ scan.repository \notin RepositoryIds
  BY DEF ScanInv, EndScan
<1>2. /\ DOMAIN scan' = ScanFields /\ scan'.step = "fallback" /\ scan'.repository = 1
      /\ scan'.observations = SortedSides(Range(scan.observations))
      /\ scan'.backend = scan.backend
      /\ scan'.todo = scan.todo /\ scan'.considered = scan.considered /\ scan'.hit = scan.hit
      /\ scan'.unreadable = scan.unreadable /\ scan'.oversize = scan.oversize
      /\ scan'.resolved = scan.resolved /\ scan'.answer = scan.answer
  BY <1>1 DEF EndScan, ScanTypes, ScanFields
<1>3. ScanTypes'
  BY <1>1, <1>2, EstateTells DEF ScanTypes
<1>4. SidesAreEarned'
  <2>1. AreUnseen(scan'.observations)
    BY <1>1, <1>2, SortedStaysUnseen DEF SidesAreEarned
  <2> QED
    BY <1>1, <1>2, <2>1, UnseenSidesAreEarned, EstateStays DEF SidesAreEarned, AreEarned
<1>5. LossesAreRecorded'
  <2>1. ASSUME NEW r \in RepositoryIds
        PROVE  Recorded(r)'
    <3>1. r < scan.repository
      BY <1>1, EstateTells DEF ScanTypes
    <3>2. Recorded(r)
      BY <1>1, <3>1 DEF LossesAreRecorded, LookedAt
    <3> QED
      BY <1>1, <1>2, <3>2, EstateStays DEF Recorded
  <2> QED
    BY <1>1, <1>2, <2>1, EstateStays DEF LossesAreRecorded, Searching
<1>6. ReportsAreKept'
  BY <1>1, <1>2, EstateStays DEF ReportsAreKept
<1> QED
  BY <1>1, <1>2, <1>3, <1>4, <1>5, <1>6, NothingTold DEF ScanInv

(* After the scan, what is lost stays on record.                            *)
LEMMA RecordStays ==
  ASSUME LossesAreRecorded, ~Searching, ~Searching', UNCHANGED estate,
         scan'.considered = scan.considered, scan'.hit = scan.hit,
         scan'.unreadable = scan.unreadable, scan'.oversize = scan.oversize
  PROVE  LossesAreRecorded'
<1>1. scan.step # "files" /\ scan'.step # "files"
  BY DEF Searching
<1>2. ASSUME NEW r \in RepositoryIds
      PROVE  Recorded(r)'
  <2>1. Recorded(r)
    BY DEF LossesAreRecorded, LookedAt
  <2> QED
    BY <1>1, <2>1, EstateStays DEF Recorded
<1> QED
  BY <1>2, EstateStays DEF LossesAreRecorded

LEMMA FallbacksKeep == ScanInv /\ AddFallbacks => ScanInv'
<1> SUFFICES ASSUME ScanInv, AddFallbacks PROVE ScanInv'
  OBVIOUS
<1>1. /\ ScanTypes /\ SidesAreEarned /\ LossesAreRecorded /\ ReportsAreKept /\ scan.answer = NoName
      /\ UNCHANGED estate /\ scan.step = "fallback" /\ scan.repository \in RepositoryIds
  BY DEF ScanInv, AddFallbacks
<1>2. /\ DOMAIN scan' = ScanFields /\ scan'.repository = scan.repository + 1
      /\ scan'.observations = WithGuesses(RepositoryAt(scan.repository).edges)
      /\ scan'.backend = scan.backend /\ scan'.step = scan.step
      /\ scan'.todo = scan.todo /\ scan'.considered = scan.considered /\ scan'.hit = scan.hit
      /\ scan'.unreadable = scan.unreadable /\ scan'.oversize = scan.oversize
      /\ scan'.resolved = scan.resolved /\ scan'.answer = scan.answer
  BY <1>1 DEF AddFallbacks, ScanTypes, ScanFields
<1>3. ScanTypes'
  <2>1. scan.repository + 1 \in 1..(Len(estate.repositories) + 1)
    BY <1>1, EstateTells DEF ScanTypes
  <2> QED
    BY <1>1, <1>2, <2>1, EstateStays DEF ScanTypes
<1>4. SidesAreEarned'
  <2>1. /\ AreUnseen(scan.observations) /\ estate.maxObservations \in Nat
        /\ AreUnseen(RepositoryAt(scan.repository).edges)
    BY <1>1, EstateTells DEF SidesAreEarned, ScanTypes
  <2>2. AreUnseen(scan'.observations)
    BY <1>2, <2>1, FallbacksTell
  <2> QED
    BY <1>1, <1>2, <2>2, UnseenSidesAreEarned, EstateStays DEF SidesAreEarned, AreEarned
<1>5. LossesAreRecorded'
  BY <1>1, <1>2, RecordStays DEF Searching
<1>6. ReportsAreKept'
  BY <1>1, <1>2, EstateStays DEF ReportsAreKept
<1> QED
  BY <1>1, <1>2, <1>3, <1>4, <1>5, <1>6, NothingTold DEF ScanInv

LEMMA StartKeeps == ScanInv /\ StartRuntime => ScanInv'
<1> SUFFICES ASSUME ScanInv, StartRuntime PROVE ScanInv'
  OBVIOUS
<1>1. /\ ScanTypes /\ SidesAreEarned /\ LossesAreRecorded /\ ReportsAreKept /\ scan.answer = NoName
      /\ UNCHANGED estate /\ scan.step = "fallback"
  BY DEF ScanInv, StartRuntime
<1>2. /\ DOMAIN scan' = ScanFields /\ scan'.repository = 1 /\ scan'.step = "runtime"
      /\ scan'.observations = scan.observations /\ scan'.backend = scan.backend
      /\ scan'.todo = scan.todo /\ scan'.considered = scan.considered /\ scan'.hit = scan.hit
      /\ scan'.unreadable = scan.unreadable /\ scan'.oversize = scan.oversize
      /\ scan'.resolved = scan.resolved /\ scan'.answer = scan.answer
  BY <1>1 DEF StartRuntime, ScanTypes, ScanFields
<1>3. ScanTypes'
  BY <1>1, <1>2, EstateTells DEF ScanTypes
<1>4. SidesAreEarned'
  BY <1>1, <1>2, EstateStays DEF SidesAreEarned, AreEarned
<1>5. LossesAreRecorded'
  BY <1>1, <1>2, RecordStays DEF Searching
<1>6. ReportsAreKept'
  <2>1. \A r \in RepositoryIds : ~(r < 1)
    BY <1>1, EstateTells DEF ScanTypes
  <2> QED
    BY <1>1, <1>2, <2>1, EstateStays DEF ReportsAreKept
<1> QED
  BY <1>1, <1>2, <1>3, <1>4, <1>5, <1>6, NothingTold DEF ScanInv

LEMMA RuntimeKeeps == ScanInv /\ MergeRuntime => ScanInv'
<1> SUFFICES ASSUME ScanInv, MergeRuntime PROVE ScanInv'
  OBVIOUS
<1> DEFINE r == scan.repository
           loaded == Confirmable(r)
           raw == IF loaded.usable THEN RepositoryAt(r).runtime.observed ELSE <<>>
           reasons == IF loaded.present THEN loaded.reasons \cup Ignored(raw) ELSE {}
           placed == {<<r, seen.place>> : seen \in {s \in Range(raw) : HasParts(s) /\ s.place > 0}}
<1>1. WithReport(r, raw, loaded.present, reasons)
  BY DEF MergeRuntime, Confirmable
<1>2. /\ ScanTypes /\ SidesAreEarned /\ LossesAreRecorded /\ ReportsAreKept /\ scan.answer = NoName
      /\ UNCHANGED estate /\ scan.step = "runtime" /\ r \in RepositoryIds
  BY <1>1 DEF ScanInv, WithReport
<1> HIDE DEF loaded, reasons
<1>3. /\ DOMAIN scan' = ScanFields /\ scan'.repository = r + 1
      /\ scan'.observations = Merged(r, raw) /\ scan'.resolved = scan.resolved \cup placed
      /\ scan'.present = (scan.present \/ loaded.present) /\ scan'.reasons = scan.reasons \cup reasons
      /\ scan'.backend = scan.backend /\ scan'.step = scan.step
      /\ scan'.todo = scan.todo /\ scan'.considered = scan.considered /\ scan'.hit = scan.hit
      /\ scan'.unreadable = scan.unreadable /\ scan'.oversize = scan.oversize /\ scan'.answer = scan.answer
  BY <1>1, <1>2 DEF WithReport, ScanTypes, ScanFields
<1>4. /\ IsList(RepositoryAt(r).runtime.observed)
      /\ \A x \in Range(RepositoryAt(r).runtime.observed) : x.place \in Nat /\ IsKey(x.key)
      /\ r \in Nat /\ r \in 1..Len(estate.repositories) /\ Len(estate.repositories) \in Nat
  BY <1>2, EstateTells DEF ScanTypes
<1>5. /\ IsList(raw) /\ Range(raw) \subseteq Range(RepositoryAt(r).runtime.observed)
      /\ raw # <<>> => Confirmable(r).usable
  <2>1. IsList(<<>>) /\ Range(<<>>) = {}
    BY DEF IsList, Range
  <2> QED
    BY <1>4, <2>1 DEF loaded
<1> HIDE DEF raw
<1>6. ScanTypes'
  <2>1. r + 1 \in 1..(Len(estate.repositories) + 1)
    BY <1>4
  <2> QED
    BY <1>2, <1>3, <2>1, EstateStays DEF ScanTypes
<1>7. SidesAreEarned'
  <2>1. AreEarned(Merged(r, raw))
    <3> DEFINE here == r
    <3>1. here \in Nat /\ (raw # <<>> => Confirmable(here).usable)
      BY <1>4, <1>5
    <3> HIDE DEF here
    <3>2. AreEarned(Merged(here, raw))
      BY <1>2, <1>4, <1>5, <3>1, MergedTells DEF SidesAreEarned
    <3> QED
      BY <3>2 DEF here
  <2> QED
    BY <1>2, <1>3, <2>1, EstateStays DEF SidesAreEarned, AreEarned
<1>8. LossesAreRecorded'
  BY <1>2, <1>3, RecordStays DEF Searching
<1>9. ReportsAreKept'
  <2>1. ASSUME NEW q \in RepositoryIds, q < r + 1, Confirmable(q).present
        PROVE  scan'.present /\ Confirmable(q).reasons \subseteq scan'.reasons
    <3>1. CASE q = r
      BY <1>3, <2>1, <3>1 DEF loaded, reasons
    <3>2. CASE q # r
      <4>1. q < r
        BY <1>2, <1>4, <2>1, <3>2, EstateTells DEF ScanTypes
      <4> QED
        BY <1>2, <1>3, <2>1, <4>1 DEF ReportsAreKept
    <3> QED
      BY <3>1, <3>2
  <2>2. ASSUME NEW p \in scan'.resolved
        PROVE  \E x \in Range(RepositoryAt(p[1]).runtime.observed) : x.place = p[2]
    <3>1. CASE p \in scan.resolved
      BY <1>2, <3>1 DEF ReportsAreKept
    <3>2. CASE p \in placed
      <4>1. PICK seen \in Range(raw) : p = <<r, seen.place>>
        BY <3>2
      <4>2. p[1] = r /\ p[2] = seen.place
        BY <4>1
      <4> QED
        BY <1>5, <4>1, <4>2
    <3> QED
      BY <1>3, <2>2, <3>1, <3>2
  <2> QED
    BY <1>2, <1>3, <2>1, <2>2, EstateStays DEF ReportsAreKept
<1> QED
  BY <1>2, <1>3, <1>6, <1>7, <1>8, <1>9, NothingTold DEF ScanInv

-----------------------------------------------------------------------------
(* The answer *)

LEMMA SetsBecomeLists ==
  ASSUME NEW S, IsFiniteSet(S)
  PROVE  IsList(SetToSeq(S)) /\ Range(SetToSeq(S)) \subseteq S
<1> DEFINE n == Cardinality(S)
           f == SetToSeq(S)
<1>1. n \in Nat /\ ExistsBijection(1..n, S)
  BY FS_CardinalityType
<1>2. PICK g : g \in Bijection(1..n, S)
  BY <1>1 DEF ExistsBijection
<1>3. g \in [1..n -> S] /\ IsInjective(g)
  BY <1>2 DEF Bijection, Injection
<1>4. f \in [1..n -> S] /\ IsInjective(f)
  BY <1>3 DEF SetToSeq
<1> HIDE DEF f, n
<1>5. f \in Seq(S)
  BY <1>1, <1>4
<1> QED
  BY <1>5, ListsOfSets DEF f

LEMMA CompleteReportsAreUsable ==
  ASSUME NEW runtime, Loaded(runtime).present, Loaded(runtime).reasons = {}
  PROVE  Loaded(runtime).usable
BY DEF Loaded

(* A match is one of names or of a binding.                                 *)
LEMMA MatchesAreReal ==
  ASSUME NEW all, \A o \in all : IsKey(o.key), NEW key, key.resource # NoName,
         ContractOf(all, key).verdict = "MATCH"
  PROVE  \E p \in ContractOf(all, key).producers : \E c \in ContractOf(all, key).consumers :
           \/ KeyOf(p) = KeyOf(c)
           \/ \E b \in all : /\ b.role = "bind" /\ b.exchange = p.resource /\ b.resource = c.resource
                             /\ Delivers(p.key, b.key) \/ Hashes(b.key) \ {Len(b.key)} # {}
<1> DEFINE evidence == {o \in all : o.certainty # "ambiguous" /\ o.resource # NoName /\ KeyOf(o) = key}
           producers == {o \in evidence : o.role = "producer"}
           routed == {t \in Routes(all, key) : RoutingKeysMatch(t[1].key, t[2].key)}
           consumers == {o \in evidence : o.role = "consumer"} \cup {t[3] : t \in routed}
<1>1. /\ ContractOf(all, key).producers = producers /\ ContractOf(all, key).consumers = consumers
      /\ producers # {} /\ consumers # {}
  BY DEF ContractOf
<1>2. CASE \E c \in evidence : c.role = "consumer"
  BY <1>1, <1>2
<1>3. CASE routed # {}
  <2>1. PICK t \in routed : TRUE
    BY <1>3
  <2> DEFINE p == t[1]
             b == t[2]
             c == t[3]
  <2>2. /\ p \in all /\ b \in all /\ c \in all
        /\ p.role = "producer" /\ KeyOf(p) = key /\ p.certainty # "ambiguous"
        /\ b.role = "bind" /\ b.exchange = key.resource /\ c.resource = b.resource
    BY <2>1 DEF Routes
  <2>3. p.resource = key.resource
    BY <2>2 DEF KeyOf
  <2>4. p \in producers /\ c \in consumers
    BY <2>1, <2>2, <2>3
  <2>5. RoutingKeysMatch(p.key, b.key) /\ IsKey(p.key) /\ IsKey(b.key)
    BY <2>1, <2>2
  <2>6. Delivers(p.key, b.key) \/ Hashes(b.key) \ {Len(b.key)} # {}
    <3>1. Hashes(b.key) \ {Len(b.key)} = {} => Hashes(b.key) \subseteq {Len(b.key)}
      OBVIOUS
    <3> QED
      BY <2>5, <3>1, MatchedIsDelivered
  <2> HIDE DEF p, b, c, producers, consumers
  <2> QED
    BY <1>1, <2>2, <2>3, <2>4, <2>6
<1> QED
  BY <1>1, <1>2, <1>3

(* What a binding would deliver is not called a mismatch.                   *)
LEMMA MismatchesAreReal ==
  ASSUME NEW all, \A o \in all : IsKey(o.key), NEW key, NEW t \in ContractOf(all, key).wrongKeys,
         t[1].key # NoName, t[2].key # NoName, Delivers(t[1].key, t[2].key)
  PROVE  {Len(t[2].key) - 1, Len(t[2].key)} \subseteq Hashes(t[2].key)
<1>1. t \in Routes(all, key) /\ ~RoutingKeysMatch(t[1].key, t[2].key)
  BY DEF ContractOf
<1>2. t[1] \in all /\ t[2] \in all
  BY <1>1 DEF Routes
<1> QED
  BY <1>1, <1>2, DeliveredIsMatched

LEMMA EvaluateKeeps == ScanInv /\ EvaluateAll => ScanInv'
<1> SUFFICES ASSUME ScanInv, EvaluateAll PROVE ScanInv'
  OBVIOUS
<1> DEFINE sorted == SortedSides(Range(scan.observations))
           kept == Range(AtMost(estate.maxObservations, sorted))
           failed == scan.hit \/ scan.unreadable > 0 \/ scan.oversize > 0
<1>1. /\ ScanTypes /\ SidesAreEarned /\ LossesAreRecorded /\ ReportsAreKept
      /\ UNCHANGED estate /\ scan.step = "runtime" /\ scan.repository \notin RepositoryIds
  BY DEF ScanInv, EvaluateAll
<1>2. /\ DOMAIN scan' = ScanFields /\ scan'.step = "done"
      /\ scan'.answer = (IF failed THEN [status |-> "ERROR"] ELSE EventResponse(kept))
      /\ scan'.repository = scan.repository /\ scan'.observations = scan.observations
      /\ scan'.backend = scan.backend
      /\ scan'.todo = scan.todo /\ scan'.considered = scan.considered /\ scan'.hit = scan.hit
      /\ scan'.unreadable = scan.unreadable /\ scan'.oversize = scan.oversize
      /\ scan'.resolved = scan.resolved
  BY <1>1 DEF EvaluateAll, ScanTypes, ScanFields
<1>3. ScanTypes'
  BY <1>1, <1>2, EstateStays DEF ScanTypes
<1>4. SidesAreEarned'
  BY <1>1, <1>2, EstateStays DEF SidesAreEarned, AreEarned
<1>5. LossesAreRecorded'
  BY <1>1, <1>2, RecordStays DEF Searching
<1>6. ReportsAreKept'
  BY <1>1, <1>2, EstateStays DEF ReportsAreKept
<1>7. /\ kept \subseteq Range(scan.observations) /\ IsFiniteSet(kept)
      /\ \A o \in kept : IsSide(o) /\ IsKey(o.key) /\ (o.observed => Confirmable(o.repository).usable)
  <2>1. /\ IsList(scan.observations) /\ estate.maxObservations \in Nat
        /\ \A o \in Range(scan.observations) :
             IsSide(o) /\ (o.observed => Confirmable(o.repository).usable)
    BY <1>1, EstateTells DEF SidesAreEarned, AreEarned, ScanTypes
  <2>2. IsFiniteSet(Range(scan.observations))
        /\ \A o \in Range(scan.observations) : o.repository \in Nat /\ o.place \in Nat
    BY <2>1, ListsAreFinite DEF IsSide
  <2>3. IsList(sorted) /\ Range(sorted) \subseteq Range(scan.observations)
    BY <2>2, SortedTells
  <2> HIDE DEF sorted
  <2>4. IsList(AtMost(estate.maxObservations, sorted)) /\ kept \subseteq Range(sorted)
    BY <2>1, <2>3, FirstOfList
  <2>5. IsFiniteSet(kept)
    BY <2>4, ListsAreFinite
  <2> HIDE DEF kept
  <2> QED
    BY <2>1, <2>3, <2>4, <2>5 DEF IsSide
<1> HIDE DEF kept
<1>8. ContractsAreReal'
  <2> SUFFICES ASSUME EventsTold' PROVE ContractsAreReal'
    BY DEF ContractsAreReal
  <2>1. ~failed /\ scan'.answer = EventResponse(kept)
    BY <1>2 DEF EventsTold
  <2>2. /\ scan'.answer.of = kept
        /\ scan'.answer.contracts =
             Range(AtMost(estate.maxContracts, SetToSeq({ContractOf(kept, key) : key \in KeysIn(kept)})))
        /\ scan'.answer.runtime = "COMPLETE" => scan.present /\ scan.reasons = {}
        /\ scan'.answer.gate = "PASS" =>
             \A o \in kept : o.resource = NoName => <<o.repository, o.place>> \in scan.resolved
    BY <2>1 DEF EventResponse
  <2>3. \A contract \in scan'.answer.contracts :
          \E key \in KeysIn(kept) : contract = ContractOf(kept, key)
    <3> DEFINE named == {p \in kept : p.certainty # "ambiguous" /\ p.resource # NoName}
               keys == {KeyOf(o) : o \in named}
               all == {ContractOf(kept, key) : key \in keys}
    <3>1. KeysIn(kept) = keys
      BY DEF KeysIn
    <3>2. IsFiniteSet(named)
      BY <1>7, FS_Subset
    <3>3. IsFiniteSet(keys)
      <4> DEFINE f == [o \in named |-> KeyOf(o)]
      <4>1. f \in Surjection(named, keys)
        <5> HIDE DEF named
        <5> QED
          BY DEF Surjection
      <4> HIDE DEF f, named, keys
      <4> QED
        BY <3>2, <4>1, FS_Surjection
    <3>4. IsFiniteSet(all)
      <4> DEFINE f == [key \in keys |-> ContractOf(kept, key)]
      <4>1. f \in Surjection(keys, all)
        <5> HIDE DEF keys
        <5> QED
          BY DEF Surjection
      <4> HIDE DEF f, keys, all
      <4> QED
        BY <3>3, <4>1, FS_Surjection
    <3>5. estate.maxContracts \in Nat
      BY <1>1, EstateTells DEF ScanTypes
    <3>6. scan'.answer.contracts = Range(AtMost(estate.maxContracts, SetToSeq(all)))
      BY <2>2, <3>1
    <3> HIDE DEF all
    <3>7. scan'.answer.contracts \subseteq all
      BY <3>4, <3>5, <3>6, SetsBecomeLists, FirstOfList
    <3> QED
      BY <3>1, <3>7 DEF all
  <2>4. ASSUME NEW contract \in scan'.answer.contracts, contract.verdict = "MATCH"
        PROVE  \E p \in contract.producers : \E c \in contract.consumers :
                 \/ KeyOf(p) = KeyOf(c)
                 \/ \E b \in scan'.answer.of :
                      /\ b.role = "bind" /\ b.exchange = p.resource /\ b.resource = c.resource
                      /\ Delivers(p.key, b.key) \/ Hashes(b.key) \ {Len(b.key)} # {}
    <3>1. PICK key \in KeysIn(kept) : contract = ContractOf(kept, key)
      BY <2>3
    <3>2. key.resource # NoName
      BY <3>1 DEF KeysIn, KeyOf
    <3>3. \A o \in kept : IsKey(o.key)
      BY <1>7
    <3> QED
      BY <2>2, <2>4, <3>1, <3>2, <3>3, MatchesAreReal
  <2>5. ASSUME NEW contract \in scan'.answer.contracts, NEW t \in contract.wrongKeys,
               t[1].key # NoName, t[2].key # NoName, Delivers(t[1].key, t[2].key)
        PROVE  {Len(t[2].key) - 1, Len(t[2].key)} \subseteq Hashes(t[2].key)
    <3>1. PICK key \in KeysIn(kept) : contract = ContractOf(kept, key)
      BY <2>3
    <3>2. \A o \in kept : IsKey(o.key)
      BY <1>7
    <3> QED
      BY <2>5, <3>1, <3>2, MismatchesAreReal
  <2>6. ASSUME NEW r \in RepositoryIds
        PROVE  r < scan.repository
    BY <1>1, EstateTells DEF ScanTypes
  <2>7. ASSUME scan'.answer.runtime = "COMPLETE", NEW r \in RepositoryIds, Confirmable(r).present
        PROVE  Confirmable(r).usable
    <3>1. Confirmable(r).reasons \subseteq scan.reasons /\ scan.reasons = {}
      BY <1>1, <2>2, <2>6, <2>7 DEF ReportsAreKept
    <3>2. Confirmable(r).reasons = {}
      BY <3>1
    <3> QED
      BY <2>7, <3>2, CompleteReportsAreUsable DEF Confirmable
  <2>8. \A o \in scan'.answer.of : o.observed => Confirmable(o.repository).usable
    BY <1>7, <2>2
  <2>9. ASSUME scan'.answer.gate = "PASS", NEW o \in scan'.answer.of, o.resource = NoName
        PROVE  \E raw \in Range(RepositoryAt(o.repository).runtime.observed) : raw.place = o.place
    <3> DEFINE place == <<o.repository, o.place>>
    <3>1. place \in scan.resolved
      BY <2>2, <2>9
    <3>2. place[1] = o.repository /\ place[2] = o.place
      OBVIOUS
    <3> HIDE DEF place
    <3> QED
      BY <1>1, <3>1, <3>2 DEF ReportsAreKept
  <2>10. ASSUME NEW r \in RepositoryIds, Missed(r) # {}
         PROVE  (r # 1 /\ RepositoryAt(r).same) \/ scan.considered = estate.maxFiles
    <3>1. Recorded(r)
      BY <1>1, <2>6 DEF LossesAreRecorded, LookedAt, Searching
    <3> QED
      BY <1>1, <2>1, <2>10, <3>1 DEF Recorded
  <2> QED
    BY <1>1, <1>2, <2>4, <2>5, <2>7, <2>8, <2>9, <2>10, EstateStays DEF ContractsAreReal
<1> QED
  BY <1>1, <1>2, <1>3, <1>4, <1>5, <1>6, <1>8 DEF ScanInv

LEMMA ScanGoesOn == ScanInv /\ [ScanNext]_scanVars => ScanInv'
<1> SUFFICES ASSUME ScanInv, [ScanNext]_scanVars PROVE ScanInv'
  OBVIOUS
<1>1. CASE ScanNext
  BY <1>1, StopScanKeeps, OpenKeeps, CopyKeeps, FileKeeps, CloseKeeps, EndKeeps, FallbacksKeep, StartKeeps,
     RuntimeKeeps, EvaluateKeeps DEF ScanNext
<1>2. CASE UNCHANGED scanVars
  <2>1. estate' = estate /\ scan' = scan
    BY <1>2 DEF scanVars
  <2>2. ScanTypes' /\ SidesAreEarned' /\ ReportsAreKept'
    BY <2>1, EstateStays DEF ScanInv, ScanTypes, SidesAreEarned, AreEarned, ReportsAreKept
  <2>3. LossesAreRecorded'
    BY <2>1, EstateStays DEF ScanInv, LossesAreRecorded, Recorded, LookedAt, Searching, NoRoom
  <2>4. ContractsAreReal'
    BY <2>1, EstateStays DEF ScanInv, ContractsAreReal, EventsTold
  <2> QED
    BY <2>1, <2>2, <2>3, <2>4 DEF ScanInv
<1> QED
  BY <1>1, <1>2

(* For every estate: what event_contracts says of producers and consumers is *)
(* true of them. A match joins what names the same thing or what a binding   *)
(* joins, what a broker would deliver is not called a mismatch, and reports  *)
(* of another revision, schema or time confirm and complete nothing.         *)
THEOREM EventsAreReal == ScanSpec => []ContractsAreReal
<1>1. ScanSpec => []ScanInv
  BY ScanStarts, ScanGoesOn, PTL DEF ScanSpec
<1>2. ScanInv => ContractsAreReal
  BY DEF ScanInv
<1> QED
  BY <1>1, <1>2, PTL
=============================================================================
