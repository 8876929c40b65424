------------------------- MODULE GraphSearchProofs --------------------------
(* The two breadth-first searches of the graph operations: what             *)
(* shortest_path answers and what the trace of an endpoint claims, for      *)
(* every graph, every limit and every order in which edges are listed; and  *)
(* that the two directions of a transport contract comparison agree.        *)
EXTENDS BoundedPath, EndpointTrace, ApiContracts, DataInduction, FiniteSetTheorems

-----------------------------------------------------------------------------
(* shortest_path: the search is breadth first, and each claim holds of all  *)
(* paths there are.                                                         *)

(* The types of the variables while the search runs. *)
Waiting == [node : Nodes, depth : Nat]

PathTypes ==
  /\ net \in Graphs /\ request \in Requests
  /\ Visited \subseteq Nodes
  /\ queue \in Seq(Waiting)
  /\ cutHops \in BOOLEAN /\ work \in Nat
  /\ phase \in {"popping", "expanding", "answered"}
  /\ phase = "expanding" => at \in Waiting /\ left \subseteq Adjacent(at.node, request.direction)

-----------------------------------------------------------------------------
(* The nodes that were seen form a tree: `dist` is the way back to the      *)
(* source along `reached`.                                                  *)
Rooted(dist) ==
  /\ request.source \in Visited /\ dist[request.source] = 0
  /\ \A n \in Visited \ {request.source} :
       /\ reached[n].node \in Visited
       /\ n \in Steps(reached[n].node)
       /\ dist[n] = dist[reached[n].node] + 1
  /\ \A n \in Visited : dist[n] <= request.hops

(* The queue is sorted by distance, and nothing that was seen is more than  *)
(* one step beyond the node being expanded or the next one to be.           *)
Lined(dist) ==
  /\ \A k \in DOMAIN queue : queue[k].node \in Visited /\ queue[k].depth = dist[queue[k].node]
  /\ \A j, k \in DOMAIN queue : j < k => queue[j].depth <= queue[k].depth
  /\ phase = "popping" /\ queue # <<>> => \A n \in Visited : dist[n] <= Head(queue).depth + 1
  /\ phase = "expanding" =>
       /\ at.node \in Visited /\ at.depth = dist[at.node] /\ at.depth < request.hops
       /\ \A k \in DOMAIN queue : at.depth <= queue[k].depth
       /\ \A n \in Visited : dist[n] <= at.depth + 1

Queued(n) == \E k \in DOMAIN queue : queue[k].node = n

(* A step from a node of this distance that was looked at is seen, and no   *)
(* further away than that.                                                  *)
Near(dist, n, d) == n \in Visited /\ dist[n] <= d + 1

(* What was popped is expanded or cut by the hop limit; the target is never *)
(* popped.                                                                  *)
Settled(dist) ==
  /\ \A n \in Visited : \/ Queued(n)
                        \/ phase = "expanding" /\ at.node = n
                        \/ cutHops /\ dist[n] >= request.hops
                        \/ \A m \in Steps(n) : Near(dist, m, dist[n])
  /\ phase = "expanding" =>
       \A item \in Adjacent(at.node, request.direction) \ left :
         Keep(item[1]) => Near(dist, Neighbor(at.node, item[1]), at.depth)
  /\ request.target \in Visited => Queued(request.target)

BreadthFirst == \E dist \in [Visited -> Nat] : Rooted(dist) /\ Lined(dist) /\ Settled(dist)

PathInv ==
  /\ PathTypes
  /\ phase # "answered" => BreadthFirst
  /\ PathIsExact

-----------------------------------------------------------------------------
(* One step leads from a node to a node.                                    *)
LEMMA StepsAreNodes ==
  ASSUME net \in Graphs, NEW n \in Nodes
  PROVE  /\ \A e \in DOMAIN net : net[e].from \in Nodes /\ net[e].to \in Nodes
         /\ \A e \in DOMAIN net : Neighbor(n, e) \in Nodes
         /\ Steps(n) \subseteq Nodes
<1>1. \A e \in DOMAIN net : net[e] \in [from : Nodes, to : Nodes, kind : Kinds]
  BY PathAssumption DEF Range
<1>2. \A e \in DOMAIN net : net[e].from \in Nodes /\ net[e].to \in Nodes
  BY <1>1
<1> QED
  BY <1>2 DEF Steps, Adjacent, Neighbor

(* What the recursion of Within computes.                                   *)
LEMMA WithinGrows ==
  ASSUME net \in Graphs, request \in Requests, NEW h \in Nat
  PROVE  \E w : /\ Within(h) = w[h] /\ w[0] = {request.source}
               /\ \A k \in 1..h : w[k] = w[k - 1] \cup UNION {Steps(n) : n \in w[k - 1]}
<1> DEFINE S == SUBSET Nodes
           start == {request.source}
           F == [s \in S |-> s \cup UNION {Steps(n) : n \in s}]
           Layers(w) == [k \in 0..h |-> IF k = 0 THEN {request.source}
                                        ELSE w[k - 1] \cup UNION {Steps(n) : n \in w[k - 1]}]
           W == CHOOSE w : w = Layers(w)
<1>1. Within(h) = W[h]
  BY DEF Within
<1>2. start \in S
  BY PathAssumption
<1>3. F \in [S -> S]
  BY StepsAreNodes
<1>4. \E c : IsIteration(c, h, S, start, F)
  <2> HIDE DEF F, S, start
  <2> QED
    BY <1>2, <1>3, IterationExists
<1>5. \E w : w = Layers(w)
  <2>1. PICK c : IsIteration(c, h, S, start, F)
    BY <1>4
  <2> USE DEF IsIteration
  <2> HIDE DEF S
  <2>2. \A k \in 1..h : c[k - 1] \in S
    BY <2>1
  <2>3. \A k \in 1..h : c[k] = c[k - 1] \cup UNION {Steps(n) : n \in c[k - 1]}
    BY <2>1, <2>2
  <2>4. c = Layers(c)
    BY <2>1, <2>3
  <2> QED
    BY <2>4
<1>6. W = Layers(W)
  <2> HIDE DEF Layers
  <2> QED
    BY <1>5
<1> HIDE DEF W
<1>7. W[0] = {request.source} /\ \A k \in 1..h : W[k] = W[k - 1] \cup UNION {Steps(n) : n \in W[k - 1]}
  BY <1>6
<1> QED
  BY <1>1, <1>7

(* Nodes within so many hops are in every set that is closed so many times. *)
LEMMA WithinIsBounded ==
  ASSUME net \in Graphs, request \in Requests, NEW h \in Nat, NEW B,
         request.source \in B[0],
         \A k \in 0..h : k < h => \A n \in B[k] : n \in B[k + 1] /\ Steps(n) \subseteq B[k + 1]
  PROVE  Within(h) \subseteq B[h]
<1>1. PICK w : /\ Within(h) = w[h] /\ w[0] = {request.source}
               /\ \A k \in 1..h : w[k] = w[k - 1] \cup UNION {Steps(n) : n \in w[k - 1]}
  BY WithinGrows
<1> DEFINE T == {k \in 0..h : w[k] \subseteq B[k]}
<1>2. 0 \in T
  BY <1>1
<1>3. ASSUME NEW k \in 0..h, k < h, k \in T
      PROVE  k + 1 \in T
  <2>1. w[k + 1] = w[k] \cup UNION {Steps(n) : n \in w[k]}
    <3>1. k + 1 \in 1..h /\ k + 1 - 1 = k
      BY <1>3
    <3> QED
      BY <1>1, <3>1
  <2>2. w[k] \subseteq B[k]
    BY <1>3
  <2> QED
    BY <1>3, <2>1, <2>2
<1>4. \A k \in 0..h : k \in T
  <2> HIDE DEF T
  <2> QED
    BY <1>2, <1>3, BoundedInduction
<1> QED
  BY <1>1, <1>4

-----------------------------------------------------------------------------
(* The search.                                                              *)

LEMMA GraphStays ==
  ASSUME UNCHANGED graph
  PROVE  /\ \A n : Steps(n)' = Steps(n)
         /\ \A n, d : Adjacent(n, d)' = Adjacent(n, d)
         /\ \A n, e : Neighbor(n, e)' = Neighbor(n, e)
         /\ \A e : Keep(e)' = Keep(e)
BY DEF graph, Steps, Adjacent, Neighbor, Keep

LEMMA TypesStart == PathInit => PathTypes
<1> SUFFICES ASSUME PathInit
             PROVE  PathTypes
  OBVIOUS
<1>1. request.source \in Nodes
  BY PathAssumption DEF PathInit
<1>2. [node |-> request.source, depth |-> 0] \in Waiting
  BY <1>1 DEF Waiting
<1>3. Visited = {request.source}
  BY DEF PathInit, Visited
<1>4. queue \in Seq(Waiting)
  BY <1>2 DEF PathInit
<1>5. phase = "popping" /\ cutHops = FALSE /\ work = 0 /\ net \in Graphs /\ request \in Requests
  BY DEF PathInit
<1> QED
  BY <1>1, <1>3, <1>4, <1>5 DEF PathTypes

LEMMA TypesStep == PathTypes /\ [PathNext]_pathVars => PathTypes'
<1> SUFFICES ASSUME PathTypes, [PathNext]_pathVars
             PROVE  PathTypes'
  OBVIOUS
<1> USE DEF PathTypes
<1>1. UNCHANGED graph
  BY DEF PathNext, pathVars, Arrive, Pop, Look, Expanded, OutOfWork, Exhausted
<1>2. CASE UNCHANGED pathVars \/ Arrive \/ OutOfWork \/ Exhausted \/ Expanded
  BY <1>1, <1>2, GraphStays DEF pathVars, graph, Arrive, OutOfWork, Exhausted, Expanded, Visited
<1>3. CASE Pop
  <2>1. queue # <<>> /\ queue' = Tail(queue) /\ UNCHANGED <<net, request, reached, work>>
    BY <1>3 DEF Pop, graph
  <2>2. Tail(queue) \in Seq(Waiting) /\ Head(queue) \in Waiting
    BY <2>1, TailPlaces
  <2>3. CASE Head(queue).depth >= request.hops
    BY <1>3, <2>1, <2>2, <2>3 DEF Pop, Visited
  <2>4. CASE ~(Head(queue).depth >= request.hops)
    BY <1>1, <1>3, <2>1, <2>2, <2>4, GraphStays DEF Pop, Visited
  <2> QED
    BY <2>3, <2>4
<1>4. CASE Look
  <2>1. /\ phase = "expanding" /\ UNCHANGED <<net, request, at, cutHops, phase>> /\ work' = work + 1
        /\ at \in Waiting /\ left' \subseteq left
    BY <1>4 DEF Look, graph
  <2>2. PICK item \in left : \/ UNCHANGED <<reached, queue>>
                             \/ Discover(Neighbor(at.node, item[1]), item[1])
    BY <1>4 DEF Look
  <2>3. CASE UNCHANGED <<reached, queue>>
    BY <1>1, <2>1, <2>3, GraphStays DEF Visited
  <2>4. CASE Discover(Neighbor(at.node, item[1]), item[1])
    <3> DEFINE n == Neighbor(at.node, item[1])
               new == [node |-> n, depth |-> at.depth + 1]
    <3>1. item[1] \in DOMAIN net
      BY <2>1 DEF Adjacent
    <3>2. n \in Nodes
      BY <2>1, <3>1, StepsAreNodes DEF Waiting
    <3>3. new \in Waiting
      BY <2>1, <3>2 DEF Waiting
    <3>4. Append(queue, new) \in Seq(Waiting)
      BY <3>3, AppendPlaces
    <3>5. Visited' = Visited \cup {n} /\ queue' = Append(queue, new)
      BY <2>4 DEF Discover, Visited
    <3> QED
      BY <1>1, <2>1, <3>2, <3>4, <3>5, GraphStays
  <2> QED
    BY <2>2, <2>3, <2>4
<1> QED
  BY <1>2, <1>3, <1>4 DEF PathNext

(* The search begins at the source, at distance 0 from itself.              *)
LEMMA BreadthStarts == PathInit => BreadthFirst
<1> SUFFICES ASSUME PathInit
             PROVE  BreadthFirst
  OBVIOUS
<1> DEFINE dist == [n \in Visited |-> 0]
<1>1. /\ Visited = {request.source} /\ queue = <<[node |-> request.source, depth |-> 0]>>
      /\ DOMAIN queue = {1} /\ queue # <<>> /\ phase = "popping"
      /\ queue[1].node = request.source /\ queue[1].depth = 0 /\ Head(queue).depth = 0
      /\ request.hops \in Nat
  BY PathAssumption DEF PathInit, Visited
<1>2. dist \in [Visited -> Nat] /\ \A n \in Visited : dist[n] = 0
  OBVIOUS
<1> HIDE DEF dist
<1> QED
  BY <1>1, <1>2 DEF BreadthFirst, Rooted, Lined, Settled, Queued

(* Taking the next node from the queue.                                     *)
LEMMA BreadthPops ==
  ASSUME PathTypes, NEW dist \in [Visited -> Nat], Rooted(dist), Lined(dist), Settled(dist), Pop
  PROVE  BreadthFirst'
<1>1. /\ UNCHANGED graph /\ Visited' = Visited /\ phase = "popping" /\ queue # <<>>
      /\ queue' = Tail(queue) /\ Head(queue).node # request.target /\ UNCHANGED <<net, request, reached>>
  BY DEF Pop, graph, Visited
<1>2. /\ 1 \in DOMAIN queue /\ Head(queue) = queue[1] /\ queue[1] \in Waiting
      /\ \A k \in DOMAIN queue' : k + 1 \in DOMAIN queue /\ queue'[k] = queue[k + 1]
      /\ \A k \in DOMAIN queue : k # 1 => k - 1 \in DOMAIN queue' /\ queue'[k - 1] = queue[k]
      /\ queue' # <<>> => 2 \in DOMAIN queue /\ Head(queue') = queue[2]
      /\ DOMAIN queue \subseteq Nat /\ DOMAIN queue' \subseteq Nat
      /\ queue \in Seq(Waiting) /\ queue' \in Seq(Waiting)
  BY <1>1, TailPlaces DEF PathTypes
<1> DEFINE head == queue[1]
<1>3. /\ head.node \in Visited /\ head.depth = dist[head.node] /\ head.depth \in Nat
      /\ \A n \in Visited : dist[n] <= head.depth + 1
      /\ \A k \in DOMAIN queue' : queue'[k].node \in Visited /\ queue'[k].depth = dist[queue'[k].node]
      /\ \A k \in DOMAIN queue' : head.depth <= queue'[k].depth
      /\ \A j, k \in DOMAIN queue' : j < k => queue'[j].depth <= queue'[k].depth
  BY <1>1, <1>2 DEF Lined, Waiting
<1>4. \A n : Queued(n) => n = head.node \/ Queued(n)'
  BY <1>2 DEF Queued
<1>5. Rooted(dist)'
  BY <1>1, GraphStays DEF Rooted
<1>6. CASE head.depth >= request.hops
  <2>1. cutHops' = TRUE /\ phase' = "popping"
    BY <1>1, <1>2, <1>6 DEF Pop
  <2>2. Lined(dist)'
    <3>1. queue' # <<>> => Head(queue').depth = queue'[1].depth /\ head.depth <= Head(queue').depth
      BY <1>2, <1>3
    <3>2. queue' # <<>> => \A n \in Visited : dist[n] <= Head(queue').depth + 1
      <4>1. queue' # <<>> => Head(queue').depth \in Nat
        <5>1. queue' # <<>> => Head(queue') = queue[2] /\ queue[2] \in Waiting
          BY <1>2
        <5> QED
          BY <5>1 DEF Waiting
      <4> QED
        BY <1>3, <3>1, <4>1
    <3> HIDE DEF head
    <3> QED
      BY <1>1, <1>3, <2>1, <3>2 DEF Lined
  <2>3. Settled(dist)'
    BY <1>1, <1>2, <1>3, <1>4, <1>6, <2>1, GraphStays DEF Settled, Near
  <2> QED
    BY <1>1, <1>5, <2>2, <2>3 DEF BreadthFirst
<1>7. CASE ~(head.depth >= request.hops)
  <2>1. /\ at' = head /\ phase' = "expanding" /\ UNCHANGED cutHops
        /\ left' = Adjacent(head.node, request.direction)
    BY <1>1, <1>2, <1>7 DEF Pop
  <2>2. request.hops \in Nat
    BY PathAssumption DEF PathTypes
  <2>3. Lined(dist)'
    <3>1. head.depth < request.hops
      BY <1>3, <1>7, <2>2
    <3> HIDE DEF head
    <3> QED
      BY <1>1, <1>3, <2>1, <3>1 DEF Lined
  <2>4. Settled(dist)'
    BY <1>1, <1>2, <1>3, <1>4, <2>1, GraphStays DEF Settled, Near
  <2> QED
    BY <1>1, <1>5, <2>3, <2>4 DEF BreadthFirst
<1> QED
  BY <1>6, <1>7

(* The node is expanded: the next one is no nearer.                         *)
LEMMA BreadthGoesOn ==
  ASSUME PathTypes, NEW dist \in [Visited -> Nat], Rooted(dist), Lined(dist), Settled(dist), Expanded
  PROVE  BreadthFirst'
<1>1. /\ UNCHANGED graph /\ Visited' = Visited /\ phase = "expanding" /\ left = {}
      /\ phase' = "popping" /\ UNCHANGED <<net, request, reached, queue, cutHops>>
  BY DEF Expanded, graph, Visited
<1>2. Rooted(dist)'
  BY <1>1, GraphStays DEF Rooted
<1>3. Lined(dist)'
  <2>1. queue # <<>> => 1 \in DOMAIN queue /\ Head(queue) = queue[1] /\ queue[1].depth \in Nat
    <3>1. queue \in Seq(Waiting)
      BY DEF PathTypes
    <3>2. queue # <<>> => 1 \in DOMAIN queue /\ Head(queue) = queue[1] /\ Head(queue) \in Waiting
      BY <3>1, TailPlaces
    <3> QED
      BY <3>2 DEF Waiting
  <2>2. at.depth \in Nat
    BY <1>1 DEF PathTypes, Waiting
  <2>3. queue # <<>> => \A n \in Visited : dist[n] <= Head(queue).depth + 1
    BY <1>1, <2>1, <2>2 DEF Lined
  <2> QED
    BY <1>1, <2>3 DEF Lined
<1>4. Settled(dist)'
  <2>1. \A m \in Steps(at.node) : Near(dist, m, dist[at.node])
    BY <1>1 DEF Settled, Lined, Steps
  <2> QED
    BY <1>1, <2>1, GraphStays DEF Settled, Near, Queued
<1> QED
  BY <1>1, <1>2, <1>3, <1>4 DEF BreadthFirst

(* An edge that leads to nothing new.                                       *)
LEMMA BreadthLooks ==
  ASSUME PathTypes, NEW dist \in [Visited -> Nat], Rooted(dist), Lined(dist), Settled(dist),
         Look, UNCHANGED <<reached, queue>>,
         NEW item \in left, left' = left \ {item},
         ~Keep(item[1]) \/ Neighbor(at.node, item[1]) \in Visited
  PROVE  BreadthFirst'
<1>1. /\ UNCHANGED graph /\ Visited' = Visited /\ phase = "expanding"
      /\ UNCHANGED <<net, request, reached, queue, at, cutHops, phase>>
  BY DEF Look, graph, Visited
<1>2. Rooted(dist)'
  BY <1>1, GraphStays DEF Rooted
<1>3. Lined(dist)'
  BY <1>1 DEF Lined
<1>4. Settled(dist)'
  <2>1. Keep(item[1]) => Near(dist, Neighbor(at.node, item[1]), at.depth)
    BY <1>1 DEF Near, Lined
  <2> QED
    BY <1>1, <2>1, GraphStays DEF Settled, Near, Queued
<1> QED
  BY <1>1, <1>2, <1>3, <1>4 DEF BreadthFirst

(* An edge that leads to a node not seen before, which is put at the end of *)
(* the queue.                                                               *)
LEMMA BreadthDiscovers ==
  ASSUME PathTypes, NEW dist \in [Visited -> Nat], Rooted(dist), Lined(dist), Settled(dist),
         Look, NEW item \in left, left' = left \ {item}, Keep(item[1]),
         Neighbor(at.node, item[1]) \notin Visited,
         Discover(Neighbor(at.node, item[1]), item[1])
  PROVE  BreadthFirst'
<1>1. /\ UNCHANGED graph /\ phase = "expanding" /\ UNCHANGED <<net, request, at, cutHops, phase>>
  BY DEF Look, graph
<1>2. /\ at \in Waiting /\ at.depth \in Nat /\ at.node \in Nodes /\ at.node \in Visited
      /\ at.depth = dist[at.node] /\ at.depth < request.hops /\ request.hops \in Nat
      /\ left \subseteq Adjacent(at.node, request.direction)
  BY <1>1, PathAssumption DEF PathTypes, Waiting, Lined
<1>3. PICK n \in Nodes : n = Neighbor(at.node, item[1]) /\ n \in Steps(at.node)
  <2>1. item \in Adjacent(at.node, request.direction) /\ item[1] \in DOMAIN net
    BY <1>2 DEF Adjacent
  <2> QED
    BY <1>2, <2>1, StepsAreNodes DEF PathTypes, Steps
<1>4. /\ Visited' = Visited \cup {n} /\ n \notin Visited
      /\ queue' = Append(queue, [node |-> n, depth |-> at.depth + 1])
      /\ \A m \in Visited : reached'[m] = reached[m]
      /\ reached'[n].node = at.node
  BY <1>3 DEF Discover, Visited
<1>5. PICK far \in [Visited' -> Nat] : /\ far[n] = at.depth + 1
                                     /\ \A m \in Visited : far[m] = dist[m] /\ dist[m] \in Nat
  <2> DEFINE f == [m \in Visited \cup {n} |-> IF m = n THEN at.depth + 1 ELSE dist[m]]
  <2>1. /\ f \in [Visited' -> Nat] /\ f[n] = at.depth + 1
        /\ \A m \in Visited : f[m] = dist[m] /\ dist[m] \in Nat
    BY <1>2, <1>4
  <2> QED
    BY <2>1
<1>6. PICK new \in Waiting : /\ new = [node |-> n, depth |-> at.depth + 1]
                            /\ new.node = n /\ new.depth = at.depth + 1
  <2>1. [node |-> n, depth |-> at.depth + 1] \in Waiting
    BY <1>2, <1>3 DEF Waiting
  <2> QED
    BY <2>1
<1>7. /\ DOMAIN queue \subseteq DOMAIN queue' /\ queue' # <<>>
      /\ Len(queue) + 1 \in DOMAIN queue' /\ queue'[Len(queue) + 1] = new
      /\ \A k \in DOMAIN queue' : \/ k \in DOMAIN queue /\ k < Len(queue) + 1 /\ queue'[k] = queue[k]
                                 \/ k = Len(queue) + 1
      /\ DOMAIN queue' \subseteq Nat /\ Len(queue) \in Nat
  <2>1. queue \in Seq(Waiting)
    BY DEF PathTypes
  <2>2. queue' \in Seq(Waiting) /\ queue' = Append(queue, new)
    BY <1>4, <1>6, <2>1, AppendPlaces
  <2> QED
    BY <2>1, <2>2, AppendPlaces
<1>8. \A k \in DOMAIN queue : k < Len(queue) + 1 /\ queue'[k] = queue[k]
  <2>1. queue \in Seq(Waiting)
    BY DEF PathTypes
  <2> QED
    BY <1>7, <2>1
<1>9. \A m : Queued(m) => Queued(m)'
  BY <1>7, <1>8 DEF Queued
<1>10. Queued(n)'
  BY <1>6, <1>7 DEF Queued
<1>11. Rooted(far)'
  <2>1. request.source \in Visited /\ far[request.source] = 0
    BY <1>5 DEF Rooted
  <2>2. ASSUME NEW m \in Visited', m # request.source
        PROVE  /\ reached'[m].node \in Visited' /\ m \in Steps(reached'[m].node)
               /\ far[m] = far[reached'[m].node] + 1
    <3>1. CASE m = n
      BY <1>2, <1>3, <1>4, <1>5, <3>1
    <3>2. CASE m \in Visited
      BY <1>4, <1>5, <2>2, <3>2 DEF Rooted
    <3> QED
      BY <1>4, <3>1, <3>2
  <2>3. \A m \in Visited' : far[m] <= request.hops
    BY <1>2, <1>4, <1>5 DEF Rooted
  <2> QED
    BY <1>1, <1>4, <2>1, <2>2, <2>3, GraphStays DEF Rooted
<1>12. Lined(far)'
  <2>1. \A k \in DOMAIN queue' : queue'[k].node \in Visited' /\ queue'[k].depth = far[queue'[k].node]
    BY <1>4, <1>5, <1>6, <1>7 DEF Lined
  <2>2. \A k \in DOMAIN queue : at.depth <= queue[k].depth /\ queue[k].depth <= at.depth + 1
    BY <1>1 DEF Lined
  <2>3. \A j, k \in DOMAIN queue' : j < k => queue'[j].depth <= queue'[k].depth
    <3> TAKE j, k \in DOMAIN queue'
    <3>1. CASE k = Len(queue) + 1
      BY <1>2, <1>6, <1>7, <2>2, <3>1
    <3>2. CASE k # Len(queue) + 1
      <4>1. k \in DOMAIN queue /\ k < Len(queue) + 1 /\ j \in Nat /\ k \in Nat
        BY <1>7, <3>2
      <4>2. j < k => j \in DOMAIN queue
        BY <1>7, <4>1
      <4> QED
        BY <1>8, <4>1, <4>2 DEF Lined
    <3> QED
      BY <3>1, <3>2
  <2>4. \A k \in DOMAIN queue' : at.depth <= queue'[k].depth
    BY <1>2, <1>6, <1>7, <2>2
  <2>5. \A m \in Visited' : far[m] <= at.depth + 1
    BY <1>1, <1>2, <1>4, <1>5 DEF Lined
  <2>6. phase' = "expanding" /\ at' = at /\ request' = request /\ far[at.node] = dist[at.node] /\ at.node \in Visited'
    BY <1>1, <1>2, <1>4, <1>5
  <2> QED
    BY <1>2, <2>1, <2>3, <2>4, <2>5, <2>6 DEF Lined
<1>13. Settled(far)'
  <2>1. \A m, d : Near(dist, m, d) => m \in Visited' /\ far[m] <= d + 1
    BY <1>4, <1>5 DEF Near
  <2>2. n \in Visited' /\ far[n] <= at.depth + 1
    BY <1>2, <1>4, <1>5
  <2>3. ASSUME NEW m \in Visited'
        PROVE  \/ Queued(m)'
               \/ phase = "expanding" /\ at.node = m
               \/ cutHops /\ far[m] >= request.hops
               \/ \A s \in Steps(m) : s \in Visited' /\ far[s] <= far[m] + 1
    <3>1. CASE m = n
      BY <1>10, <3>1
    <3>2. CASE m \in Visited
      BY <1>5, <1>9, <2>1, <3>2 DEF Settled
    <3> QED
      BY <1>4, <3>1, <3>2
  <2>4. ASSUME NEW i \in Adjacent(at.node, request.direction) \ left', Keep(i[1])
        PROVE  Neighbor(at.node, i[1]) \in Visited' /\ far[Neighbor(at.node, i[1])] <= at.depth + 1
    <3>1. CASE i = item
      BY <1>3, <2>2, <3>1
    <3>2. CASE i # item
      <4>1. i \in Adjacent(at.node, request.direction) \ left
        BY <3>2
      <4> QED
        BY <1>1, <2>1, <2>4, <4>1 DEF Settled
    <3> QED
      BY <3>1, <3>2
  <2>5. request.target \in Visited' => Queued(request.target)'
    BY <1>1, <1>4, <1>9, <1>10 DEF Settled
  <2>6. \A m \in Visited' : \/ Queued(m)'
                        \/ (phase = "expanding" /\ at.node = m)'
                        \/ (cutHops /\ far[m] >= request.hops)'
                        \/ (\A s \in Steps(m) : Near(far, s, far[m]))'
    BY <1>1, <2>3, GraphStays DEF Near
  <2>7. (\A i \in Adjacent(at.node, request.direction) \ left :
           Keep(i[1]) => Near(far, Neighbor(at.node, i[1]), at.depth))'
    BY <1>1, <2>4, GraphStays DEF Near
  <2> QED
    BY <1>1, <2>5, <2>6, <2>7 DEF Settled
<1> QED
  BY <1>5, <1>11, <1>12, <1>13 DEF BreadthFirst
-----------------------------------------------------------------------------
(* The answers.                                                             *)

LEMMA WithinStays ==
  ASSUME UNCHANGED graph
  PROVE  \A h : Within(h)' = Within(h)
<1>1. net' = net /\ request' = request
  BY DEF graph
<1> QED
  BY <1>1 DEF Within, Steps, Adjacent, Neighbor, Keep

(* A search that has run out of nodes has not missed the target.            *)
LEMMA ExhaustionIsProof ==
  ASSUME PathTypes, NEW dist \in [Visited -> Nat], Rooted(dist), Settled(dist),
         phase = "popping", queue = <<>>
  PROVE  /\ request.target \notin Visited
         /\ request.target \notin Within(request.hops)
         /\ ~cutHops => request.target \notin Within(Cardinality(Nodes))
<1>1. net \in Graphs /\ request \in Requests /\ request.hops \in Nat /\ Cardinality(Nodes) \in Nat
  BY PathAssumption, FS_CardinalityType DEF PathTypes
<1>2. \A n : ~Queued(n)
  BY DEF Queued
<1>3. request.target \notin Visited
  BY <1>2 DEF Settled
<1>4. request.target \notin Within(request.hops)
  <2> DEFINE B == [k \in 0..request.hops |-> {n \in Visited : dist[n] <= k}]
  <2>1. request.source \in B[0]
    BY <1>1 DEF Rooted
  <2>2. ASSUME NEW k \in 0..request.hops, k < request.hops, NEW n \in B[k]
        PROVE  n \in B[k + 1] /\ Steps(n) \subseteq B[k + 1]
    <3>1. n \in Visited /\ dist[n] <= k /\ dist[n] \in Nat
      BY <2>2
    <3>2. \A m \in Steps(n) : Near(dist, m, dist[n])
      BY <1>1, <1>2, <2>2, <3>1 DEF Settled
    <3>3. k + 1 \in 0..request.hops /\ \A m \in Visited : dist[m] \in Nat
      BY <1>1, <2>2
    <3> QED
      BY <2>2, <3>1, <3>2, <3>3 DEF Near
  <2>3. B[request.hops] \subseteq Visited
    BY <1>1
  <2> HIDE DEF B
  <2>4. Within(request.hops) \subseteq B[request.hops]
    BY <1>1, <2>1, <2>2, WithinIsBounded
  <2> QED
    BY <1>3, <2>3, <2>4
<1>5. ASSUME ~cutHops
      PROVE  request.target \notin Within(Cardinality(Nodes))
  <2> DEFINE B == [k \in 0..Cardinality(Nodes) |-> Visited]
  <2>1. request.source \in B[0]
    BY <1>1 DEF Rooted
  <2>2. ASSUME NEW k \in 0..Cardinality(Nodes), k < Cardinality(Nodes), NEW n \in B[k]
        PROVE  n \in B[k + 1] /\ Steps(n) \subseteq B[k + 1]
    <3>1. \A m \in Steps(n) : m \in Visited
      BY <1>2, <1>5, <2>2 DEF Settled, Near
    <3> QED
      BY <1>1, <2>2, <3>1
  <2>3. B[Cardinality(Nodes)] = Visited
    BY <1>1
  <2> HIDE DEF B
  <2>4. Within(Cardinality(Nodes)) \subseteq B[Cardinality(Nodes)]
    BY <1>1, <2>1, <2>2, WithinIsBounded
  <2> QED
    BY <1>3, <2>3, <2>4
<1> QED
  BY <1>3, <1>4, <1>5

(* An absence is claimed only by a search that was exhausted, and a limit   *)
(* on hops is blamed only when nothing within them is the target.           *)
LEMMA AbsenceIsExact ==
  ASSUME PathTypes, BreadthFirst, Exhausted \/ OutOfWork
  PROVE  PathIsExact'
<1>1. PICK dist \in [Visited -> Nat] : Rooted(dist) /\ Lined(dist) /\ Settled(dist)
  BY DEF BreadthFirst
<1>2. UNCHANGED graph /\ UNCHANGED <<net, request, work, cutHops>> /\ phase' = "answered"
  BY DEF Exhausted, OutOfWork, graph
<1>3. answer'.nodes = <<>> /\ answer'.chain = FALSE
  <2>1. CASE Exhausted
    BY <2>1 DEF Exhausted, NotFound
  <2>2. CASE OutOfWork
    BY <2>2 DEF OutOfWork, NotFound
  <2> QED
    BY <2>1, <2>2
<1>4. work \in Nat /\ request.edges \in Nat
  BY PathAssumption DEF PathTypes
<1>5. CASE Exhausted
  <2>1. answer'.stop = StopReason(work >= request.edges) /\ phase = "popping" /\ queue = <<>>
    BY <1>5 DEF Exhausted, NotFound
  <2>2. answer'.stop = "COMPLETE" => ~cutHops
    BY <2>1 DEF StopReason
  <2>3. /\ request.target \notin Within(request.hops)
        /\ ~cutHops => request.target \notin Within(Cardinality(Nodes))
    BY <1>1, <2>1, ExhaustionIsProof
  <2> QED
    BY <1>2, <1>3, <2>2, <2>3, WithinStays
    DEF PathIsExact, FoundIsShortest, NotFoundIsProof, HopCutIsReal, ChainsAreCalls, Answered
<1>6. CASE OutOfWork
  <2>1. answer'.stop = StopReason(TRUE) /\ work >= request.edges
    BY <1>6 DEF OutOfWork, NotFound
  <2>2. answer'.stop # "COMPLETE" /\ ~(work < request.edges)
    BY <1>4, <2>1 DEF StopReason
  <2> QED
    BY <1>2, <1>3, <2>2
    DEF PathIsExact, FoundIsShortest, NotFoundIsProof, HopCutIsReal, ChainsAreCalls, Answered
<1> QED
  BY <1>5, <1>6

(* There is a node at every distance up to that of a node seen, so that no  *)
(* distance reaches the number of nodes.                                    *)
LEMMA DistancesAreShort ==
  ASSUME PathTypes, NEW dist \in [Visited -> Nat], Rooted(dist), NEW n \in Visited
  PROVE  dist[n] < Cardinality(Nodes)
<1> DEFINE d == dist[n]
           T == {k \in 0..d : \E m \in Visited : dist[m] = d - k}
<1>1. d \in Nat /\ IsFiniteSet(Nodes) /\ Cardinality(Nodes) \in Nat
  BY PathAssumption, FS_CardinalityType
<1>2. 0 \in T
  BY <1>1
<1>3. ASSUME NEW k \in 0..d, k < d, k \in T
      PROVE  k + 1 \in T
  <2>1. PICK m \in Visited : dist[m] = d - k
    BY <1>3
  <2>2. m # request.source
    BY <1>1, <1>3, <2>1 DEF Rooted
  <2>3. reached[m].node \in Visited /\ dist[m] = dist[reached[m].node] + 1
    BY <2>2 DEF Rooted
  <2>4. dist[reached[m].node] = d - (k + 1) /\ k + 1 \in 0..d
    <3>1. dist[reached[m].node] \in Nat
      BY <2>3
    <3> QED
      BY <1>1, <1>3, <2>1, <2>3, <3>1
  <2> QED
    BY <2>3, <2>4
<1>4. \A k \in 0..d : k \in T
  <2> HIDE DEF T, d
  <2> QED
    BY <1>1, <1>2, <1>3, BoundedInduction
<1>5. \A j \in 0..d : \E m \in Visited : dist[m] = j
  <2> TAKE j \in 0..d
  <2>1. d - j \in 0..d /\ d - (d - j) = j
    BY <1>1
  <2>2. d - j \in T
    BY <1>4, <2>1
  <2> QED
    BY <2>1, <2>2
<1> DEFINE f == [j \in 0..d |-> CHOOSE m \in Visited : dist[m] = j]
<1> HIDE DEF d
<1>6. \A j \in 0..d : f[j] \in Visited /\ dist[f[j]] = j
  BY <1>5
<1>7. f \in Injection(0..d, Nodes)
  <2>1. f \in [0..d -> Nodes]
    BY <1>6 DEF PathTypes
  <2>2. \A i, j \in 0..d : f[i] = f[j] => i = j
    BY <1>6
  <2> QED
    BY <2>1, <2>2 DEF Injection, IsInjective
<1>8. Cardinality(0..d) <= Cardinality(Nodes)
  BY <1>1, <1>7, FS_Injection
<1>9. Cardinality(0..d) = d + 1
  BY <1>1, FS_Interval
<1> QED
  BY <1>1, <1>8, <1>9 DEF d

(* What the recursion of Rebuilt computes, and that it ends at the source.  *)
LEMMA ChainGrows ==
  ASSUME PathTypes, NEW dist \in [Visited -> Nat], Rooted(dist), request.target \in Visited
  PROVE  \E c : /\ Rebuilt = c[Cardinality(Nodes)] /\ c[0] = <<request.target>>
               /\ \A k \in 1..Cardinality(Nodes) :
                    c[k] = IF Head(c[k - 1]) = request.source THEN c[k - 1]
                           ELSE <<reached[Head(c[k - 1])].node>> \o c[k - 1]
<1> DEFINE N == Cardinality(Nodes)
           S == {path \in Seq(Visited) : path # <<>>}
           start == <<request.target>>
           Longer(path) == IF Head(path) = request.source THEN path
                           ELSE <<reached[Head(path)].node>> \o path
           F == [path \in S |-> Longer(path)]
           Chain(c) == [k \in 0..N |-> IF k = 0 THEN <<request.target>> ELSE Longer(c[k - 1])]
           W == CHOOSE c : c = Chain(c)
<1>1. N \in Nat
  BY PathAssumption, FS_CardinalityType
<1>2. Rebuilt = W[N]
  BY DEF Rebuilt
<1>3. start \in S
  OBVIOUS
<1>4. F \in [S -> S]
  <2>1. ASSUME NEW path \in S
        PROVE  Longer(path) \in S
    <3>1. Head(path) \in Visited
      OBVIOUS
    <3>2. CASE Head(path) # request.source
      <4>1. reached[Head(path)].node \in Visited
        BY <3>1, <3>2 DEF Rooted
      <4> QED
        BY <3>2, <4>1
    <3> QED
      BY <3>2
  <2> QED
    BY <2>1
<1>5. \E c : IsIteration(c, N, S, start, F)
  <2> HIDE DEF N, F, S, start
  <2> QED
    BY <1>1, <1>3, <1>4, IterationExists
<1>6. \E c : c = Chain(c)
  <2>1. PICK c : IsIteration(c, N, S, start, F)
    BY <1>5
  <2>2. \A k \in 1..N : c[k - 1] \in S
    BY <1>1, <2>1 DEF IsIteration
  <2> HIDE DEF Longer
  <2>3. \A k \in 1..N : c[k] = Longer(c[k - 1])
    BY <2>1, <2>2 DEF IsIteration
  <2>4. c \in [0..N -> S] /\ c[0] = <<request.target>>
    BY <2>1 DEF IsIteration
  <2> HIDE DEF S, N
  <2>5. \A k \in 0..N : c[k] = IF k = 0 THEN <<request.target>> ELSE Longer(c[k - 1])
    <3> TAKE k \in 0..N
    <3>1. k = 0 \/ k \in 1..N
      BY <1>1
    <3>2. k \in 1..N => k # 0 /\ c[k] = Longer(c[k - 1])
      BY <1>1, <2>3
    <3> QED
      BY <2>4, <3>1, <3>2
  <2>6. c = Chain(c)
    BY <2>4, <2>5
  <2> QED
    BY <2>6
<1>7. W = Chain(W)
  <2> HIDE DEF Chain
  <2> QED
    BY <1>6
<1> HIDE DEF W, N
<1>8. W[0] = <<request.target>> /\ \A k \in 1..N : W[k] = Longer(W[k - 1])
  <2> HIDE DEF Longer
  <2> QED
    BY <1>1, <1>7
<1> QED
  BY <1>2, <1>8 DEF N

(* A way that leads from a node to the target in as many hops as the target *)
(* is further away than it.                                                 *)
WayBack(path, dist) ==
  /\ path \in Seq(Visited) /\ path # <<>>
  /\ path[Len(path)] = request.target
  /\ \A k \in 1..(Len(path) - 1) : path[k + 1] \in Steps(path[k])
  /\ dist[Head(path)] + Len(path) = dist[request.target] + 1

(* One node more.                                                           *)
LEMMA OneNodeBack ==
  ASSUME PathTypes, NEW dist \in [Visited -> Nat], Rooted(dist), request.target \in Visited,
         NEW path, WayBack(path, dist), Head(path) # request.source
  PROVE  LET longer == <<reached[Head(path)].node>> \o path
         IN  WayBack(longer, dist) /\ Len(longer) = Len(path) + 1
<1> DEFINE longer == <<reached[Head(path)].node>> \o path
<1>1. path \in Seq(Visited) /\ path # <<>> /\ Head(path) = path[1] /\ path[1] \in Visited /\ Len(path) \in Nat
  BY DEF WayBack
<1>2. PICK n \in Visited : /\ n = reached[Head(path)].node /\ path[1] \in Steps(n)
                           /\ dist[Head(path)] = dist[n] + 1
  BY <1>1 DEF Rooted
<1>3. longer = <<n>> \o path
  BY <1>2
<1> HIDE DEF longer
<1>4. /\ longer \in Seq(Visited) /\ longer # <<>> /\ Head(longer) = n /\ Len(longer) = Len(path) + 1
      /\ longer[1] = n /\ \A k \in 1..Len(path) : longer[k + 1] = path[k]
  BY <1>1, <1>3
<1>5. Len(path) >= 1 /\ longer[Len(longer)] = request.target
  BY <1>1, <1>4 DEF WayBack
<1>6. ASSUME NEW k \in 1..(Len(longer) - 1)
      PROVE  longer[k + 1] \in Steps(longer[k])
  <2>1. CASE k = 1
    BY <1>1, <1>2, <1>4, <1>5, <2>1
  <2>2. CASE k # 1
    <3>1. k - 1 \in 1..(Len(path) - 1) /\ k \in 1..Len(path) /\ k - 1 \in 1..Len(path) /\ k - 1 + 1 = k
      BY <1>1, <1>4, <2>2
    <3>2. longer[k + 1] = path[k] /\ longer[k] = path[k - 1]
      BY <1>4, <3>1
    <3>3. path[k] \in Steps(path[k - 1])
      BY <3>1 DEF WayBack
    <3> QED
      BY <3>2, <3>3
  <2> QED
    BY <2>1, <2>2
<1>7. dist[Head(longer)] + Len(longer) = dist[request.target] + 1
  <2>1. dist[Head(path)] + Len(path) = dist[request.target] + 1
    BY DEF WayBack
  <2>2. dist[n] \in Nat /\ dist[request.target] \in Nat
    OBVIOUS
  <2> QED
    BY <1>1, <1>2, <1>4, <2>1, <2>2
<1> QED
  BY <1>4, <1>5, <1>6, <1>7 DEF WayBack, longer

(* What rebuild returns leads from the source to the target, and is as long *)
(* as the target is far away.                                               *)
LEMMA RebuiltIsWay ==
  ASSUME PathTypes, NEW dist \in [Visited -> Nat], Rooted(dist), request.target \in Visited
  PROVE  WayBack(Rebuilt, dist) /\ Head(Rebuilt) = request.source
<1> DEFINE N == Cardinality(Nodes)
<1>1. N \in Nat
  BY PathAssumption, FS_CardinalityType
<1>2. PICK c : /\ Rebuilt = c[N] /\ c[0] = <<request.target>>
               /\ \A k \in 1..N : c[k] = IF Head(c[k - 1]) = request.source THEN c[k - 1]
                                         ELSE <<reached[Head(c[k - 1])].node>> \o c[k - 1]
  BY ChainGrows
<1> HIDE DEF N
<1> DEFINE T == {k \in 0..N : /\ WayBack(c[k], dist)
                              /\ Head(c[k]) = request.source \/ Len(c[k]) = k + 1}
<1>3. 0 \in T
  <2>1. /\ <<request.target>> \in Seq(Visited) /\ <<request.target>> # <<>>
        /\ Head(<<request.target>>) = request.target
        /\ <<request.target>>[1] = request.target /\ Len(<<request.target>>) = 1
    OBVIOUS
  <2>2. WayBack(<<request.target>>, dist)
    BY <2>1 DEF WayBack
  <2> QED
    BY <1>1, <1>2, <2>1, <2>2
<1>4. ASSUME NEW k \in 0..N, k < N, k \in T
      PROVE  k + 1 \in T
  <2>1. k + 1 \in 1..N /\ k + 1 - 1 = k /\ k + 1 \in 0..N
    BY <1>1, <1>4
  <2>2. c[k + 1] = IF Head(c[k]) = request.source THEN c[k]
                   ELSE <<reached[Head(c[k])].node>> \o c[k]
    BY <1>2, <2>1
  <2>3. WayBack(c[k], dist) /\ (Head(c[k]) = request.source \/ Len(c[k]) = k + 1)
    BY <1>4
  <2>4. CASE Head(c[k]) = request.source
    BY <2>1, <2>2, <2>3, <2>4
  <2>5. CASE Head(c[k]) # request.source
    <3>1. WayBack(c[k + 1], dist) /\ Len(c[k + 1]) = Len(c[k]) + 1
      BY <2>2, <2>3, <2>5, OneNodeBack
    <3> QED
      BY <2>1, <2>3, <2>5, <3>1
  <2> QED
    BY <2>4, <2>5
<1>5. N \in T
  <2>1. \A k \in 0..N : k \in T
    <3> HIDE DEF T
    <3> QED
      BY <1>1, <1>3, <1>4, BoundedInduction
  <2> QED
    BY <1>1, <2>1
<1>6. WayBack(Rebuilt, dist) /\ (Head(Rebuilt) = request.source \/ Len(Rebuilt) = N + 1)
  BY <1>2, <1>5
<1>7. Len(Rebuilt) # N + 1 \/ Head(Rebuilt) = request.source
  <2>1. dist[request.target] < N /\ dist[request.target] \in Nat
    BY DistancesAreShort DEF N
  <2>2. dist[Head(Rebuilt)] \in Nat /\ dist[Head(Rebuilt)] + Len(Rebuilt) = dist[request.target] + 1
    <3>1. Rebuilt \in Seq(Visited) /\ Rebuilt # <<>>
      BY <1>6 DEF WayBack
    <3>2. Head(Rebuilt) \in Visited
      BY <3>1
    <3> QED
      BY <1>6, <3>2 DEF WayBack
  <2> QED
    BY <1>1, <2>1, <2>2
<1> QED
  BY <1>6, <1>7

(* What is nearer than the next node was expanded, for no limit can have    *)
(* cut it.                                                                  *)
LEMMA NoShorterWay ==
  ASSUME PathTypes, NEW dist \in [Visited -> Nat], Rooted(dist), Lined(dist), Settled(dist),
         phase = "popping", queue # <<>>, Head(queue).node = request.target,
         NEW d \in Nat, d + 1 = dist[request.target]
  PROVE  request.target \notin Within(d)
<1>1. net \in Graphs /\ request \in Requests /\ request.hops \in Nat
  BY PathAssumption DEF PathTypes
<1>2. queue \in Seq(Waiting) /\ 1 \in DOMAIN queue /\ Head(queue) = queue[1]
  <2>1. queue \in Seq(Waiting)
    BY DEF PathTypes
  <2> QED
    BY <2>1, TailPlaces
<1>3. request.target \in Visited /\ queue[1].depth = d + 1 /\ d + 1 <= request.hops
  BY <1>2 DEF Lined, Rooted
<1>4. ASSUME NEW n \in Visited, dist[n] <= d
      PROVE  \A m \in Steps(n) : m \in Visited /\ dist[m] <= dist[n] + 1
  <2>1. ~Queued(n)
    <3> SUFFICES ASSUME NEW k \in DOMAIN queue, queue[k].node = n
                 PROVE  FALSE
      BY DEF Queued
    <3>1. k \in Nat /\ (k = 1 \/ 1 < k)
      BY <1>2
    <3>2. queue[1].depth <= queue[k].depth
      BY <1>2, <1>3, <3>1 DEF Lined
    <3>3. queue[k].depth = dist[n]
      BY DEF Lined
    <3> QED
      BY <1>3, <1>4, <3>2, <3>3
  <2>2. ~(dist[n] >= request.hops)
    BY <1>1, <1>3, <1>4
  <2> QED
    BY <2>1, <2>2 DEF Settled, Near
<1> DEFINE B == [k \in 0..d |-> {n \in Visited : dist[n] <= k}]
<1>5. request.source \in B[0]
  BY DEF Rooted
<1>6. ASSUME NEW k \in 0..d, k < d, NEW n \in B[k]
      PROVE  n \in B[k + 1] /\ Steps(n) \subseteq B[k + 1]
  <2>1. n \in Visited /\ dist[n] <= k /\ dist[n] <= d /\ dist[n] \in Nat
    BY <1>6
  <2>2. \A m \in Steps(n) : m \in Visited /\ dist[m] <= dist[n] + 1
    BY <1>4, <2>1
  <2>3. k + 1 \in 0..d /\ \A m \in Visited : dist[m] \in Nat
    BY <1>6
  <2> QED
    BY <1>6, <2>1, <2>2, <2>3
<1>7. \A n \in B[d] : dist[n] <= d
  OBVIOUS
<1> HIDE DEF B
<1>8. Within(d) \subseteq B[d]
  BY <1>1, <1>5, <1>6, WithinIsBounded
<1>9. ~(d + 1 <= d)
  OBVIOUS
<1> QED
  BY <1>7, <1>8, <1>9

(* Every hop of a path whose relations are all calls is a call.             *)
LEMMA CallsAllAlong ==
  ASSUME NEW path, \A k \in 1..(Len(path) - 1) : path[k + 1] \in Steps(path[k]),
         Relations(path) = {"calls"}, NEW k \in 1..(Len(path) - 1)
  PROVE  {net[e].kind : e \in Between(path[k], path[k + 1])} = {"calls"}
<1>1. <<path[k], path[k + 1]>> \in Hops(path)
  BY DEF Hops
<1>2. {net[e].kind : e \in Between(path[k], path[k + 1])} \subseteq Relations(path)
  BY <1>1 DEF Relations
<1>3. PICK i \in Adjacent(path[k], request.direction) : Neighbor(path[k], i[1]) = path[k + 1]
  BY DEF Steps
<1>4. /\ i = <<i[1], i[2]>> /\ i[2] \in {"out", "in"} /\ i[1] \in DOMAIN net
      /\ i \in Adjacent(path[k], "both")
  BY <1>3 DEF Adjacent
<1>5. i[1] \in Between(path[k], path[k + 1])
  BY <1>3, <1>4 DEF Between
<1> QED
  BY <1>2, <1>5

LEMMA PathIsFound ==
  ASSUME PathTypes, BreadthFirst, Arrive
  PROVE  PathIsExact'
<1>1. PICK dist \in [Visited -> Nat] : Rooted(dist) /\ Lined(dist) /\ Settled(dist)
  BY DEF BreadthFirst
<1>2. /\ phase = "popping" /\ queue # <<>> /\ Head(queue).node = request.target
      /\ UNCHANGED graph /\ UNCHANGED <<net, request>> /\ phase' = "answered"
  BY DEF Arrive, graph
<1>3. request.target \in Visited
  <2>1. queue \in Seq(Waiting)
    BY DEF PathTypes
  <2>2. 1 \in DOMAIN queue /\ Head(queue) = queue[1]
    BY <1>2, <2>1, TailPlaces
  <2> QED
    BY <1>1, <1>2, <2>2 DEF Lined
<1>4. PICK path : path = Rebuilt
  OBVIOUS
<1>5. answer'.nodes = path /\ answer'.chain = (Relations(path) = {"calls"})
  BY <1>4 DEF Arrive, Found
<1>6. WayBack(path, dist) /\ Head(path) = request.source
  BY <1>1, <1>3, <1>4, RebuiltIsWay
<1>7. /\ path # <<>> /\ Len(path) \in Nat /\ path[Len(path)] = request.target
      /\ \A k \in 1..(Len(path) - 1) : path[k + 1] \in Steps(path[k])
  BY <1>6 DEF WayBack
<1>8. /\ dist[request.target] \in Nat /\ Len(path) = dist[request.target] + 1
      /\ Len(path) - 1 <= request.hops
  <2>1. dist[Head(path)] = 0 /\ dist[Head(path)] + Len(path) = dist[request.target] + 1
    BY <1>1, <1>6 DEF WayBack, Rooted
  <2>2. dist[request.target] \in Nat /\ dist[request.target] <= request.hops
    BY <1>1, <1>3 DEF Rooted
  <2> QED
    BY <1>7, <2>1, <2>2
<1>9. Len(path) > 1 => request.target \notin Within(Len(path) - 2)
  <2> HAVE Len(path) > 1
  <2>1. Len(path) - 2 \in Nat /\ Len(path) - 2 + 1 = dist[request.target]
    BY <1>8
  <2> QED
    BY <1>1, <1>2, <2>1, NoShorterWay
<1>10. FoundIsShortest'
  BY <1>2, <1>5, <1>6, <1>7, <1>8, <1>9, WithinStays, GraphStays DEF FoundIsShortest, Answered
<1>11. (NotFoundIsProof /\ HopCutIsReal)'
  BY <1>2, <1>5, <1>7 DEF NotFoundIsProof, HopCutIsReal, Answered
<1>12. ChainsAreCalls'
  <2>1. answer'.chain => \A k \in 1..(Len(path) - 1) :
          {net[e].kind : e \in Between(path[k], path[k + 1])} = {"calls"}
    BY <1>5, <1>7, CallsAllAlong
  <2>2. \A n, m : {net[e].kind : e \in Between(n, m)}' = {net[e].kind : e \in Between(n, m)}
    BY <1>2, GraphStays DEF Between
  <2>3. answer'.chain => \A k \in 1..(Len(path) - 1) :
          {net[e].kind : e \in Between(path[k], path[k + 1])}' = {"calls"}
    BY <2>1, <2>2
  <2> QED
    BY <1>2, <1>5, <2>3 DEF ChainsAreCalls
<1> QED
  BY <1>10, <1>11, <1>12 DEF PathIsExact

-----------------------------------------------------------------------------
LEMMA SearchStarts == PathInit => PathInv
<1> SUFFICES ASSUME PathInit
             PROVE  PathInv
  OBVIOUS
<1>1. phase = "popping"
  BY DEF PathInit
<1>2. PathIsExact
  BY <1>1 DEF PathIsExact, FoundIsShortest, NotFoundIsProof, HopCutIsReal, ChainsAreCalls, Answered
<1> QED
  BY <1>1, <1>2, TypesStart, BreadthStarts DEF PathInv

LEMMA SearchGoesOn == PathInv /\ [PathNext]_pathVars => PathInv'
<1> SUFFICES ASSUME PathInv, [PathNext]_pathVars
             PROVE  PathInv'
  OBVIOUS
<1>1. PathTypes /\ PathTypes'
  BY TypesStep DEF PathInv
<1>2. ASSUME BreadthFirst', phase' # "answered"
      PROVE  PathInv'
  BY <1>1, <1>2 DEF PathInv, PathIsExact, FoundIsShortest, NotFoundIsProof, HopCutIsReal,
                    ChainsAreCalls, Answered
<1>3. CASE UNCHANGED pathVars
  <2>1. UNCHANGED graph /\ UNCHANGED <<net, request, reached, queue, at, left, cutHops, phase, work, answer>>
    BY <1>3 DEF pathVars, graph
  <2>2. Visited' = Visited
    BY <2>1 DEF Visited
  <2>3. phase # "answered" => BreadthFirst'
    BY <2>1, <2>2, GraphStays DEF PathInv, BreadthFirst, Rooted, Lined, Settled, Near, Queued
  <2>4. PathIsExact'
    <3>1. \A n, m : {net[e].kind : e \in Between(n, m)}' = {net[e].kind : e \in Between(n, m)}
      BY <2>1, GraphStays DEF Between
    <3>2. ChainsAreCalls'
      BY <2>1, <3>1 DEF PathInv, PathIsExact, ChainsAreCalls
    <3>3. (FoundIsShortest /\ NotFoundIsProof /\ HopCutIsReal)'
      BY <2>1, GraphStays, WithinStays
      DEF PathInv, PathIsExact, FoundIsShortest, NotFoundIsProof, HopCutIsReal, Answered
    <3> QED
      BY <3>2, <3>3 DEF PathIsExact
  <2> QED
    BY <1>1, <2>1, <2>3, <2>4 DEF PathInv
<1>4. CASE PathNext
  <2>1. phase # "answered" /\ BreadthFirst
    <3>1. phase # "answered"
      BY <1>4 DEF PathNext, Arrive, Pop, Look, Expanded, OutOfWork, Exhausted
    <3> QED
      BY <3>1 DEF PathInv
  <2>2. PICK dist \in [Visited -> Nat] : Rooted(dist) /\ Lined(dist) /\ Settled(dist)
    BY <2>1 DEF BreadthFirst
  <2>3. CASE Arrive
    <3>1. phase' = "answered"
      BY <2>3 DEF Arrive
    <3> QED
      BY <1>1, <2>1, <2>3, <3>1, PathIsFound DEF PathInv
  <2>4. CASE Pop
    <3>1. phase' # "answered"
      BY <2>4 DEF Pop
    <3> QED
      BY <1>1, <1>2, <2>2, <2>4, <3>1, BreadthPops
  <2>5. CASE Look
    <3>1. phase' # "answered"
      BY <2>5 DEF Look
    <3>2. PICK item \in left :
            /\ left' = left \ {item}
            /\ \/ /\ ~Keep(item[1]) \/ Neighbor(at.node, item[1]) \in Visited
                  /\ UNCHANGED <<reached, queue>>
               \/ /\ Keep(item[1]) /\ Neighbor(at.node, item[1]) \notin Visited
                  /\ Discover(Neighbor(at.node, item[1]), item[1])
      BY <2>5 DEF Look
    <3>3. CASE UNCHANGED <<reached, queue>> /\ (~Keep(item[1]) \/ Neighbor(at.node, item[1]) \in Visited)
      <4>1. BreadthFirst'
        BY <1>1, <2>2, <2>5, <3>2, <3>3, BreadthLooks
      <4> QED
        BY <1>2, <3>1, <4>1
    <3>4. CASE /\ Keep(item[1]) /\ Neighbor(at.node, item[1]) \notin Visited
               /\ Discover(Neighbor(at.node, item[1]), item[1])
      <4>1. BreadthFirst'
        BY <1>1, <2>2, <2>5, <3>2, <3>4, BreadthDiscovers
      <4> QED
        BY <1>2, <3>1, <4>1
    <3> QED
      BY <3>2, <3>3, <3>4
  <2>6. CASE Expanded
    <3>1. phase' # "answered"
      BY <2>6 DEF Expanded
    <3> QED
      BY <1>1, <1>2, <2>2, <2>6, <3>1, BreadthGoesOn
  <2>7. CASE Exhausted \/ OutOfWork
    <3>1. phase' = "answered"
      BY <2>7 DEF Exhausted, OutOfWork
    <3> QED
      BY <1>1, <2>1, <2>7, <3>1, AbsenceIsExact DEF PathInv
  <2> QED
    BY <1>4, <2>3, <2>4, <2>5, <2>6, <2>7 DEF PathNext
<1> QED
  BY <1>3, <1>4

(* Whatever the graph, the request and the limits: a path that is returned  *)
(* is a shortest one, an absence that is claimed is one, a limit that is    *)
(* blamed has cut, and a chain of calls is one.                             *)
THEOREM PathsAreExact == PathSpec => []PathIsExact
<1>1. PathInit => PathInv
  BY SearchStarts
<1>2. PathInv /\ [PathNext]_pathVars => PathInv'
  BY SearchGoesOn
<1>3. PathInv => PathIsExact
  BY DEF PathInv
<1> QED
  BY <1>1, <1>2, <1>3, PTL DEF PathSpec

-----------------------------------------------------------------------------
(* trace_endpoint: what is gathered, what is queued and what the calls      *)
(* reach.                                                                   *)

Entry == [node : Vertices, depth : Nat]

(* The types of the variables, and what is open in which phase. *)
TraceTypes ==
  /\ table \in CallGraphs /\ limit \in Bounds
  /\ roots \in Seq(Handlers(table)) /\ owners \in Seq(Handlers(table))
  /\ ordered \in Seq(Vertices) /\ edges \subseteq DOMAIN table
  /\ seeds \in Seq(Vertices) /\ waiting \in Seq(Entry) /\ omitted \in Nat
  /\ stage \in {"roots", "seeds", "calls", "expanding", "answered"}

Control ==
  /\ \A e \in imports : /\ e \in DOMAIN table /\ table[e].kind = "imports"
                        /\ table[e].from \in Handlers(table) /\ KindOf[table[e].from] = "file"
  /\ \A e \in members : /\ e \in DOMAIN table /\ table[e].kind = "contains"
                        /\ table[e].from \in ImportedFiles \cap Seen
  /\ stage = "roots" => /\ Range(owners) = Handlers(table) /\ imports = {} /\ members = {}
                        /\ seeds = <<>> /\ waiting = <<>> /\ edges = {}
  /\ stage # "roots" => roots = <<>>
  /\ stage \notin {"roots", "seeds"} =>
       owners = <<>> /\ imports = {} /\ members = {} /\ seeds = <<>>
  /\ stage \in {"seeds", "roots"} /\ ~Prepared => waiting = <<>>
  /\ stage = "expanding" => /\ current \in Entry /\ current.node \in Seen /\ current.depth < limit.depth
                            /\ remaining \subseteq From(current.node, "calls")
  /\ stage = "answered" => waiting = <<>>

(* The answer holds no node twice and no more than were asked for, and      *)
(* follows calls from its own nodes only.                                   *)
OrderedIsSound ==
  /\ IsInjective(ordered) /\ Len(ordered) <= limit.nodes
  /\ Endpoint \in Seen
  /\ \A k \in DOMAIN waiting : waiting[k].node \in Seen
  /\ \A e \in edges : table[e].kind = "calls" => table[e].from \in Seen

-----------------------------------------------------------------------------
(* As long as nothing was omitted: *)

Seeded(n) == n \in Range(seeds) \/ \E k \in DOMAIN waiting : waiting[k].node = n

(* Of an imported file every function is in the answer and a seed, or still *)
(* to be added.                                                             *)
FileIsTaken(f) ==
  /\ f \in Seen
  /\ \A m \in From(f, "contains") : \/ m \in members \/ KindOf[table[m].to] # "function"
                                    \/ table[m].to \in Seen /\ Seeded(table[m].to)

(* Every handler is in the answer, and a function among them is a seed;     *)
(* what the files among them import is followed.                            *)
Gathered ==
  /\ \A h \in Handlers(table) : h \in Seen \/ h \in Range(roots)
  /\ stage \in {"roots", "seeds"} =>
       \A h \in Handlers(table) :
         \/ h \in Range(owners)
         \/ /\ KindOf[h] = "function" => Seeded(h)
            /\ KindOf[h] = "file" =>
                 \A e \in From(h, "imports") :
                   \/ e \in imports \/ Structural(table[e].to) \/ FileIsTaken(table[e].to)

(* Nothing is in the answer that does not belong there. *)
SeenBelongs ==
  /\ Seen \subseteq {Endpoint} \cup Handlers(table) \cup ImportedFiles \cup Called(limit.depth)
  /\ stage \in {"roots", "seeds"} => /\ Seen \subseteq Listed \cup Sources
                                     /\ \A n \in Vertices : Seeded(n) => n \in Sources
                                     /\ \A k \in DOMAIN waiting : waiting[k].depth = 0
  /\ stage \notin {"roots", "seeds"} => Listed \cup Sources \subseteq Seen
  /\ \A k \in DOMAIN waiting : waiting[k].node \in Called(waiting[k].depth) \ Listed
  /\ stage = "expanding" => current.node \in Called(current.depth) \ Listed

EdgesJoinSeen == \A e \in edges : table[e].from \in Seen /\ table[e].to \in Seen

(* The nodes calls are followed from, as far as they are in the answer. *)
Met == Seen \ Listed

(* The queue is sorted by distance, and nothing met is more than one call   *)
(* beyond the node being expanded or the next one to be.                    *)
InLine(dist) ==
  /\ \A n \in Sources : dist[n] = 0
  /\ \A k \in DOMAIN waiting : waiting[k].depth = dist[waiting[k].node]
  /\ \A j, k \in DOMAIN waiting : j < k => waiting[j].depth <= waiting[k].depth
  /\ stage = "calls" /\ waiting # <<>> => \A n \in Met : dist[n] <= Head(waiting).depth + 1
  /\ stage = "expanding" =>
       /\ current.depth = dist[current.node]
       /\ \A k \in DOMAIN waiting : current.depth <= waiting[k].depth
       /\ \A n \in Met : dist[n] <= current.depth + 1

(* What is called is there, and no further than one call. *)
Reached(dist, n, d) == n \in Seen /\ (n \in Met => dist[n] <= d + 1)

InQueue(n) == \E k \in DOMAIN waiting : waiting[k].node = n

(* What was taken from the queue is expanded or lies at the depth limit.    *)
Explored(dist) ==
  /\ \A n \in Met : \/ InQueue(n)
                    \/ stage = "expanding" /\ current.node = n
                    \/ dist[n] >= limit.depth
                    \/ \A m \in Callees({n}) : Reached(dist, m, dist[n])
  /\ stage = "expanding" =>
       \A e \in From(current.node, "calls") \ remaining :
         Structural(table[e].to) \/ Reached(dist, table[e].to, current.depth)

LayerByLayer ==
  stage \notin {"roots", "seeds"} => \E dist \in [Met -> Nat] : InLine(dist) /\ Explored(dist)

TraceInv ==
  /\ TraceTypes /\ Control /\ OrderedIsSound
  /\ omitted = 0 => Gathered /\ SeenBelongs /\ EdgesJoinSeen /\ LayerByLayer

-----------------------------------------------------------------------------
(* The graph.                                                               *)

LEMMA GraphTypes ==
  ASSUME table \in CallGraphs
  PROVE  /\ \A e \in DOMAIN table : table[e].from \in Vertices /\ table[e].to \in Vertices
         /\ Handlers(table) \subseteq Vertices /\ ImportedFiles \subseteq Vertices /\ Sources \subseteq Vertices
         /\ \A S : Callees(S) \subseteq Vertices
         /\ Endpoint \in Vertices /\ Endpoint \in Listed /\ Endpoint \notin Sources
         /\ \A n \in Sources : KindOf[n] = "function"
         /\ Listed \cup Sources = {Endpoint} \cup Handlers(table) \cup ImportedFiles \cup Sources
         /\ Listed \cap Sources = {}
<1>1. \A e \in DOMAIN table : table[e] \in [from : Vertices, to : Vertices,
                                            kind : {"exposes", "calls", "imports", "contains"}]
  BY TraceAssumption DEF Range
<1>2. \A e \in DOMAIN table : table[e].from \in Vertices /\ table[e].to \in Vertices
  BY <1>1
<1>3. Handlers(table) \subseteq Vertices /\ ImportedFiles \subseteq Vertices
  BY <1>2 DEF Handlers, ImportedFiles, Targets, From
<1>4. Sources \subseteq Vertices /\ \A n \in Sources : KindOf[n] = "function"
  BY <1>2, <1>3 DEF Sources, Functions, Targets, From
<1>5. \A S : Callees(S) \subseteq Vertices
  BY <1>2 DEF Callees, Targets, From
<1>6. Endpoint \in Vertices /\ KindOf[Endpoint] = "endpoint"
  BY TraceAssumption
<1>7. Endpoint \notin Sources
  BY <1>4, <1>6
<1> QED
  BY <1>2, <1>3, <1>4, <1>5, <1>6, <1>7 DEF Listed

LEMMA AskedStays ==
  ASSUME UNCHANGED asked
  PROVE  /\ table' = table /\ limit' = limit
         /\ \A n, k : From(n, k)' = From(n, k)
         /\ Handlers(table)' = Handlers(table) /\ ImportedFiles' = ImportedFiles
         /\ Sources' = Sources /\ Listed' = Listed
         /\ \A S : Callees(S)' = Callees(S)
         /\ \A d : Called(d)' = Called(d)
<1>1. table' = table /\ limit' = limit
  BY DEF asked
<1>2. /\ \A n, k : From(n, k)' = From(n, k)
      /\ \A n, k : Targets(n, k)' = Targets(n, k)
      /\ Handlers(table)' = Handlers(table)
  BY <1>1 DEF From, Targets, Handlers
<1>3. ImportedFiles' = ImportedFiles
  BY <1>1 DEF ImportedFiles, Targets, From, Handlers
<1>4. Sources' = Sources
  BY <1>1 DEF Sources, ImportedFiles, Functions, Targets, From, Handlers
<1>5. Listed' = Listed
  BY <1>2, <1>3, <1>4 DEF Listed
<1>6. \A S : Callees(S)' = Callees(S)
  BY <1>1, <1>5 DEF Callees, Targets, From
<1>7. \A d : Called(d)' = Called(d)
  BY <1>1 DEF Called, Callees, Listed, Sources, ImportedFiles, Functions, Targets, From, Handlers
<1> QED
  BY <1>1, <1>2, <1>3, <1>4, <1>5, <1>6, <1>7

(* What the recursion of Called computes.                                   *)
IsLayers(c, h) ==
  c[0] = Sources /\ \A k \in 1..h : c[k] = c[k - 1] \cup Callees(c[k - 1])

LEMMA CalledGrows ==
  ASSUME table \in CallGraphs, NEW h \in Nat
  PROVE  \E c : Called(h) = c[h] /\ IsLayers(c, h)
<1> DEFINE S == SUBSET Vertices
           start == Sources
           F == [s \in S |-> s \cup Callees(s)]
           Layers(w) == [k \in 0..h |-> IF k = 0 THEN Sources
                                        ELSE w[k - 1] \cup Callees(w[k - 1])]
           W == CHOOSE w : w = Layers(w)
<1>1. Called(h) = W[h]
  BY DEF Called
<1>2. start \in S /\ F \in [S -> S]
  BY GraphTypes
<1>3. \E c : IsIteration(c, h, S, start, F)
  <2> HIDE DEF F, S, start
  <2> QED
    BY <1>2, IterationExists
<1>4. \E w : w = Layers(w)
  <2>1. PICK c : IsIteration(c, h, S, start, F)
    BY <1>3
  <2> USE DEF IsIteration
  <2> HIDE DEF S
  <2>2. \A k \in 1..h : c[k - 1] \in S
    BY <2>1
  <2>3. \A k \in 1..h : c[k] = c[k - 1] \cup Callees(c[k - 1])
    BY <2>1, <2>2
  <2>4. c = Layers(c)
    BY <2>1, <2>3
  <2> QED
    BY <2>4
<1>5. W = Layers(W)
  <2> HIDE DEF Layers
  <2> QED
    BY <1>4
<1> HIDE DEF W
<1>6. W[0] = Sources /\ \A k \in 1..h : W[k] = W[k - 1] \cup Callees(W[k - 1])
  <2>1. \A k \in 0..h : W[k] = Layers(W)[k]
    <3> HIDE DEF Layers
    <3> QED
      BY <1>5
  <2>2. \A k \in 0..h : W[k] = IF k = 0 THEN Sources ELSE W[k - 1] \cup Callees(W[k - 1])
    BY <2>1
  <2>3. 0 \in 0..h /\ \A k \in 1..h : k \in 0..h /\ k # 0
    OBVIOUS
  <2>4. W[0] = Sources
    BY <2>2, <2>3
  <2>5. ASSUME NEW k \in 1..h
        PROVE  W[k] = W[k - 1] \cup Callees(W[k - 1])
    BY <2>2, <2>3
  <2> QED
    BY <2>4, <2>5
<1> QED
  BY <1>1, <1>6 DEF IsLayers

(* Every bound on the depth counts the same layers.                         *)
LEMMA CalledLayers ==
  ASSUME table \in CallGraphs, NEW h \in Nat
  PROVE  \E c : IsLayers(c, h) /\ \A k \in 0..h : Called(k) = c[k]
<1>1. PICK c : IsLayers(c, h)
  BY CalledGrows
<1>2. ASSUME NEW k \in 0..h
      PROVE  Called(k) = c[k]
  <2>1. PICK b : Called(k) = b[k] /\ IsLayers(b, k)
    BY CalledGrows
  <2> DEFINE T == {j \in 0..k : b[j] = c[j]}
  <2>2. 0 \in T
    BY <1>1, <2>1 DEF IsLayers
  <2>3. ASSUME NEW j \in 0..k, j < k, j \in T
        PROVE  j + 1 \in T
    <3>1. j + 1 \in 1..k /\ j + 1 \in 1..h /\ j + 1 - 1 = j
      BY <2>3
    <3>2. b[j + 1] = b[j] \cup Callees(b[j]) /\ c[j + 1] = c[j] \cup Callees(c[j])
      BY <1>1, <2>1, <3>1 DEF IsLayers
    <3>3. b[j] = c[j] /\ j + 1 \in 0..k
      BY <2>3
    <3>4. b[j + 1] = c[j + 1]
      BY <3>2, <3>3
    <3> QED
      BY <3>3, <3>4
  <2>4. \A j \in 0..k : j \in T
    <3> HIDE DEF T
    <3> QED
      BY <2>2, <2>3, BoundedInduction
  <2> QED
    BY <2>1, <2>4
<1> QED
  BY <1>1, <1>2

(* One call more.                                                           *)
LEMMA CalledNext ==
  ASSUME table \in CallGraphs, NEW d \in Nat
  PROVE  /\ Called(0) = Sources
         /\ Called(d + 1) = Called(d) \cup Callees(Called(d))
         /\ \A n \in Called(d) \ Listed : Callees({n}) \subseteq Called(d + 1)
<1>1. PICK c : IsLayers(c, d + 1) /\ \A k \in 0..(d + 1) : Called(k) = c[k]
  BY CalledLayers
<1>2. Called(0) = Sources /\ Called(d + 1) = Called(d) \cup Callees(Called(d))
  <2>1. d + 1 \in 1..(d + 1) /\ d + 1 - 1 = d /\ 0 \in 0..(d + 1) /\ d \in 0..(d + 1)
    OBVIOUS
  <2> QED
    BY <1>1, <2>1 DEF IsLayers
<1>3. \A n \in Called(d) \ Listed : Callees({n}) \subseteq Callees(Called(d))
  BY DEF Callees
<1> QED
  BY <1>2, <1>3

(* What is called within a depth is called within a larger one. *)
LEMMA CalledIsMonotone ==
  ASSUME table \in CallGraphs, NEW h \in Nat, NEW d \in 0..h
  PROVE  Called(d) \subseteq Called(h)
<1> DEFINE T == {k \in Nat : Called(d) \subseteq Called(d + k)}
<1>1. 0 \in T
  OBVIOUS
<1>2. ASSUME NEW k \in Nat, k \in T
      PROVE  k + 1 \in T
  <2>1. d + k \in Nat /\ d + (k + 1) = d + k + 1
    OBVIOUS
  <2>2. Called(d + k) \subseteq Called(d + k + 1)
    BY <2>1, CalledNext
  <2> QED
    BY <1>2, <2>1, <2>2
<1>3. \A k \in Nat : k \in T
  <2> HIDE DEF T
  <2> QED
    BY <1>1, <1>2, SetInduction
<1>4. h - d \in Nat /\ d + (h - d) = h
  OBVIOUS
<1> QED
  BY <1>3, <1>4

(* What is called within a depth lies in every set that is closed so often. *)
LEMMA CalledIsBounded ==
  ASSUME table \in CallGraphs, NEW h \in Nat, NEW B, Sources \subseteq B[0],
         \A k \in 0..h : k < h => B[k] \cup Callees(B[k]) \subseteq B[k + 1]
  PROVE  Called(h) \subseteq B[h]
<1> DEFINE T == {k \in 0..h : Called(k) \subseteq B[k]}
<1>1. 0 \in T
  BY CalledNext
<1>2. ASSUME NEW k \in 0..h, k < h, k \in T
      PROVE  k + 1 \in T
  <2>1. Called(k + 1) = Called(k) \cup Callees(Called(k))
    BY CalledNext
  <2>2. Called(k) \subseteq B[k]
    BY <1>2
  <2>3. Callees(Called(k)) \subseteq Callees(B[k])
    BY <2>2 DEF Callees
  <2> QED
    BY <1>2, <2>1, <2>2, <2>3
<1>3. \A k \in 0..h : k \in T
  <2> HIDE DEF T
  <2> QED
    BY <1>1, <1>2, BoundedInduction
<1> QED
  BY <1>3

-----------------------------------------------------------------------------
(* The answer.                                                              *)

(* A node is added at the end, is there already, or is counted as omitted.  *)
LEMMA PushAdds ==
  ASSUME TraceTypes, OrderedIsSound, NEW n \in Vertices, Push(n)
  PROVE  /\ ordered' \in Seq(Vertices) /\ IsInjective(ordered') /\ Len(ordered') <= limit.nodes
         /\ Seen \subseteq Seen' /\ Seen' \subseteq Seen \cup {n}
         /\ Held(n) => n \in Seen'
         /\ omitted' \in Nat
         /\ omitted' = 0 => omitted = 0 /\ Held(n) /\ Seen' = Seen \cup {n}
<1>1. /\ ordered \in Seq(Vertices) /\ Len(ordered) \in Nat /\ DOMAIN ordered = 1..Len(ordered)
      /\ limit.nodes \in Nat /\ omitted \in Nat
  BY TraceAssumption DEF TraceTypes
<1>2. CASE n \in Seen \/ Full
  <2>1. ordered' = ordered /\ Seen' = Seen
    BY <1>2 DEF Push, Seen
  <2>2. omitted' = (IF Held(n) THEN omitted ELSE omitted + 1)
    BY DEF Push
  <2>3. Held(n) <=> n \in Seen
    BY <1>2 DEF Held
  <2>4. omitted' \in Nat /\ (omitted' = 0 => omitted = 0 /\ Held(n))
    BY <1>1, <2>2
  <2> QED
    BY <1>1, <2>1, <2>3, <2>4 DEF OrderedIsSound
<1>3. CASE n \notin Seen /\ ~Full
  <2>1. ordered' = Append(ordered, n) /\ omitted' = omitted /\ Held(n)
    BY <1>3 DEF Push, Held
  <2>2. /\ ordered' \in Seq(Vertices) /\ Len(ordered') = Len(ordered) + 1
        /\ DOMAIN ordered' = 1..(Len(ordered) + 1)
        /\ \A k \in DOMAIN ordered : k \in DOMAIN ordered' /\ ordered'[k] = ordered[k]
        /\ ordered'[Len(ordered) + 1] = n
        /\ \A k \in DOMAIN ordered' : k \in DOMAIN ordered \/ k = Len(ordered) + 1
    BY <1>1, <2>1
  <2>3. Seen' = Seen \cup {n}
    BY <1>1, <2>2 DEF Seen, Range
  <2>4. IsInjective(ordered')
    <3> SUFFICES ASSUME NEW j \in DOMAIN ordered', NEW k \in DOMAIN ordered',
                        ordered'[j] = ordered'[k]
                 PROVE  j = k
      BY DEF IsInjective
    <3>1. \A i \in DOMAIN ordered : ordered[i] # n
      BY <1>3 DEF Seen, Range
    <3> QED
      BY <2>2, <3>1 DEF OrderedIsSound, IsInjective
  <2>5. Len(ordered') <= limit.nodes
    BY <1>1, <1>3, <2>2 DEF Full
  <2> QED
    BY <1>1, <2>1, <2>2, <2>3, <2>4, <2>5
<1> QED
  BY <1>2, <1>3

LEMMA BaseStarts == TraceInit => TraceTypes /\ Control /\ OrderedIsSound
<1> SUFFICES ASSUME TraceInit
             PROVE  TraceTypes /\ Control /\ OrderedIsSound
  OBVIOUS
<1>1. table \in CallGraphs /\ limit \in Bounds /\ limit.nodes \in Nat \ {0}
  BY TraceAssumption DEF TraceInit
<1>2. Endpoint \in Vertices
  BY TraceAssumption
<1>3. ordered = <<Endpoint>> /\ ordered \in Seq(Vertices) /\ Seen = {Endpoint} /\ Len(ordered) = 1
  BY <1>2 DEF TraceInit, Seen, Range
<1>4. roots \in Seq(Handlers(table)) /\ Range(owners) = Handlers(table) /\ owners = roots
  <2>1. Range(roots) = Handlers(table) /\ owners = roots
    BY DEF TraceInit
  <2>2. Cardinality(Handlers(table)) \in Nat
    <3>1. IsFiniteSet(Vertices) /\ Handlers(table) \subseteq Vertices
      BY <1>1, GraphTypes, TraceAssumption
    <3> QED
      BY <3>1, FS_Subset, FS_CardinalityType
  <2>3. roots \in [1..Cardinality(Handlers(table)) -> Handlers(table)]
    BY DEF TraceInit
  <2> QED
    BY <2>1, <2>2, <2>3
<1>5. TraceTypes
  BY <1>1, <1>3, <1>4 DEF TraceInit, TraceTypes
<1>6. Control
  BY <1>4 DEF TraceInit, Control, Prepared
<1>7. OrderedIsSound
  BY <1>1, <1>3 DEF TraceInit, OrderedIsSound, IsInjective
<1> QED
  BY <1>5, <1>6, <1>7

Base == TraceTypes /\ Control /\ OrderedIsSound

LEMMA StepStays ==
  ASSUME [TraceNext]_traceVars
  PROVE  UNCHANGED asked
BY DEF TraceNext, traceVars, AddHandler, Expose, TakeOwner, FollowImport, AddMember, QueueSeed, Start, Take,
       Call, Followed, Answer

(* The edges that are followed. *)
LEMMA EdgeEnds ==
  ASSUME Base
  PROVE  /\ \A e \in imports : /\ e \in DOMAIN table /\ table[e].to \in Vertices
                               /\ ~Structural(table[e].to) => table[e].to \in ImportedFiles
                               /\ e \in From(table[e].from, "imports")
         /\ \A e \in members : /\ e \in DOMAIN table /\ table[e].to \in Vertices
                               /\ KindOf[table[e].to] = "function" => table[e].to \in Sources
                               /\ e \in From(table[e].from, "contains")
         /\ stage = "expanding" =>
              \A e \in remaining : e \in DOMAIN table /\ table[e].to \in Vertices /\ table[e].from = current.node
                             /\ table[e].kind = "calls"
<1>1. /\ table \in CallGraphs
      /\ \A e \in DOMAIN table : table[e].from \in Vertices /\ table[e].to \in Vertices
  BY GraphTypes DEF Base, TraceTypes
<1>2. ASSUME NEW e \in imports
      PROVE  /\ e \in DOMAIN table /\ table[e].to \in Vertices
             /\ ~Structural(table[e].to) => table[e].to \in ImportedFiles
             /\ e \in From(table[e].from, "imports")
  <2>1. /\ e \in DOMAIN table /\ table[e].kind = "imports"
        /\ table[e].from \in Handlers(table) /\ KindOf[table[e].from] = "file"
    BY DEF Base, Control
  <2>2. e \in From(table[e].from, "imports")
    BY <2>1 DEF From
  <2>3. table[e].to \in Targets(table[e].from, "imports")
    BY <2>2 DEF Targets
  <2> QED
    BY <1>1, <2>1, <2>2, <2>3 DEF ImportedFiles
<1>3. ASSUME NEW e \in members
      PROVE  /\ e \in DOMAIN table /\ table[e].to \in Vertices
             /\ KindOf[table[e].to] = "function" => table[e].to \in Sources
             /\ e \in From(table[e].from, "contains")
  <2>1. /\ e \in DOMAIN table /\ table[e].kind = "contains" /\ table[e].from \in ImportedFiles
    BY DEF Base, Control
  <2>2. e \in From(table[e].from, "contains")
    BY <2>1 DEF From
  <2>3. table[e].to \in Targets(table[e].from, "contains")
    BY <2>2 DEF Targets
  <2> QED
    BY <1>1, <2>1, <2>2, <2>3 DEF Sources, Functions
<1>4. stage = "expanding" =>
        \A e \in remaining : e \in DOMAIN table /\ table[e].to \in Vertices /\ table[e].from = current.node
                       /\ table[e].kind = "calls"
  BY <1>1 DEF Base, Control, From
<1> QED
  BY <1>2, <1>3, <1>4

LEMMA BaseOfRoots ==
  ASSUME Base, AddHandler \/ Expose
  PROVE  Base'
<1>1. /\ TraceTypes /\ Control /\ OrderedIsSound /\ UNCHANGED asked /\ UNCHANGED <<table, limit>>
      /\ UNCHANGED <<owners, imports, members, seeds, waiting, current, remaining>>
      /\ stage = "roots"
  BY DEF Base, AddHandler, Expose, asked
<1>2. CASE AddHandler
  <2>1. /\ roots \in Seq(Handlers(table)) /\ roots # <<>> /\ roots' = Tail(roots) /\ stage' = stage
        /\ edges' = edges /\ Push(Head(roots))
    BY <1>2 DEF AddHandler, Base, TraceTypes
  <2>2. roots' \in Seq(Handlers(table)) /\ Head(roots) \in Handlers(table)
    BY <2>1, TailPlaces
  <2>3. Head(roots) \in Vertices
    BY <1>1, <2>2, GraphTypes DEF TraceTypes
  <2>4. /\ ordered' \in Seq(Vertices) /\ IsInjective(ordered') /\ Len(ordered') <= limit.nodes
        /\ Seen \subseteq Seen' /\ omitted' \in Nat
    BY <1>1, <2>1, <2>3, PushAdds
  <2>5. TraceTypes'
    BY <1>1, <2>1, <2>2, <2>4, AskedStays DEF TraceTypes
  <2>6. Control'
    BY <1>1, <2>1, AskedStays DEF Control, Prepared
  <2>7. OrderedIsSound'
    BY <1>1, <2>1, <2>4 DEF OrderedIsSound, Control
  <2> QED
    BY <2>5, <2>6, <2>7 DEF Base
<1>3. CASE Expose
  <2>1. /\ roots = <<>> /\ stage' = "seeds" /\ UNCHANGED <<roots, ordered, omitted>>
        /\ edges' \subseteq DOMAIN table /\ \A e \in edges' : table[e].kind = "exposes"
        /\ Seen' = Seen
    BY <1>3 DEF Expose, Seen
  <2>2. TraceTypes'
    BY <1>1, <2>1, AskedStays DEF TraceTypes
  <2>3. Control'
    BY <1>1, <2>1, AskedStays DEF Control, Prepared
  <2>4. OrderedIsSound'
    BY <1>1, <2>1 DEF OrderedIsSound
  <2> QED
    BY <2>2, <2>3, <2>4 DEF Base
<1> QED
  BY <1>2, <1>3

LEMMA BaseOfOwners ==
  ASSUME Base, TakeOwner
  PROVE  Base'
<1>1. /\ TraceTypes /\ Control /\ OrderedIsSound /\ UNCHANGED asked /\ UNCHANGED <<table, limit>>
      /\ UNCHANGED <<roots, members, ordered, edges, waiting, current, remaining, omitted, stage>>
      /\ stage = "seeds" /\ imports = {} /\ members = {} /\ owners # <<>> /\ owners' = Tail(owners)
      /\ Seen' = Seen /\ table \in CallGraphs
  BY DEF Base, TraceTypes, TakeOwner, asked, Seen
<1>2. owners' \in Seq(Handlers(table)) /\ Head(owners) \in Handlers(table)
  BY <1>1, TailPlaces DEF TraceTypes
<1>3. Head(owners) \in Vertices
  BY <1>1, <1>2, GraphTypes
<1>4. seeds' \in Seq(Vertices)
  <2>1. seeds' = seeds \/ seeds' = Append(seeds, Head(owners))
    BY DEF TakeOwner
  <2>2. seeds \in Seq(Vertices)
    BY <1>1 DEF TraceTypes
  <2> QED
    BY <1>3, <2>1, <2>2, AppendPlaces
<1>5. \A e \in imports' : /\ e \in DOMAIN table /\ table[e].kind = "imports"
                          /\ table[e].from \in Handlers(table) /\ KindOf[table[e].from] = "file"
  BY <1>1, <1>2 DEF TakeOwner, From
<1>6. TraceTypes'
  BY <1>1, <1>2, <1>4, AskedStays DEF TraceTypes
<1>7. Control'
  <2>1. waiting = <<>>
    BY <1>1 DEF Control, Prepared
  <2> QED
    BY <1>1, <1>5, <2>1, AskedStays DEF Control
<1>8. OrderedIsSound'
  BY <1>1 DEF OrderedIsSound
<1> QED
  BY <1>6, <1>7, <1>8 DEF Base

LEMMA BaseOfImports ==
  ASSUME Base, FollowImport
  PROVE  Base'
<1>1. /\ TraceTypes /\ Control /\ OrderedIsSound /\ UNCHANGED asked /\ UNCHANGED <<table, limit>>
      /\ UNCHANGED <<roots, owners, seeds, waiting, current, remaining, stage>>
      /\ stage = "seeds" /\ members = {} /\ table \in CallGraphs
  BY DEF Base, TraceTypes, FollowImport, asked
<1>2. PICK e \in imports :
        /\ imports' = imports \ {e}
        /\ IF Structural(table[e].to) THEN UNCHANGED <<ordered, omitted, edges, members>>
           ELSE /\ Push(table[e].to) /\ edges' = edges \cup {e}
                /\ members' = IF Held(table[e].to) THEN From(table[e].to, "contains") ELSE {}
  BY DEF FollowImport
<1>3. /\ e \in DOMAIN table /\ table[e].to \in Vertices /\ table[e].kind = "imports"
      /\ ~Structural(table[e].to) => table[e].to \in ImportedFiles
  BY EdgeEnds DEF From
<1>4. waiting = <<>> /\ stage' = "seeds"
  BY <1>1, <1>2 DEF Control, Prepared
<1>5. /\ ordered' \in Seq(Vertices) /\ IsInjective(ordered') /\ Len(ordered') <= limit.nodes
      /\ Seen \subseteq Seen' /\ omitted' \in Nat
      /\ edges' \subseteq DOMAIN table /\ \A d \in edges' : d \in edges \/ table[d].kind = "imports"
      /\ \A d \in members' : /\ d \in DOMAIN table /\ table[d].kind = "contains"
                             /\ table[d].from \in ImportedFiles \cap Seen'
  <2>1. CASE Structural(table[e].to)
    BY <1>1, <1>2, <2>1 DEF TraceTypes, OrderedIsSound, Seen
  <2>2. CASE ~Structural(table[e].to)
    <3>1. /\ ordered' \in Seq(Vertices) /\ IsInjective(ordered') /\ Len(ordered') <= limit.nodes
          /\ Seen \subseteq Seen' /\ omitted' \in Nat
          /\ Held(table[e].to) => table[e].to \in Seen'
      BY <1>1, <1>2, <1>3, <2>2, PushAdds
    <3>2. \A d \in members' : /\ d \in DOMAIN table /\ table[d].kind = "contains"
                              /\ table[d].from \in ImportedFiles \cap Seen'
      <4>1. members' = IF Held(table[e].to) THEN From(table[e].to, "contains") ELSE {}
        BY <1>2, <2>2
      <4>2. table[e].to \in ImportedFiles
        BY <1>3, <2>2
      <4>3. CASE Held(table[e].to)
        BY <3>1, <4>1, <4>2, <4>3 DEF From
      <4>4. CASE ~Held(table[e].to)
        BY <4>1, <4>4
      <4> QED
        BY <4>3, <4>4
    <3>3. edges' = edges \cup {e} /\ edges \subseteq DOMAIN table
      BY <1>1, <1>2, <2>2 DEF TraceTypes
    <3>4. edges' \subseteq DOMAIN table /\ \A d \in edges' : d \in edges \/ table[d].kind = "imports"
      BY <1>3, <3>3
    <3> QED
      BY <3>1, <3>2, <3>4
  <2> QED
    BY <2>1, <2>2
<1>6. TraceTypes'
  BY <1>1, <1>5, AskedStays DEF TraceTypes
<1>7. Control'
  <2>1. \A d \in imports' : /\ d \in DOMAIN table /\ table[d].kind = "imports"
                           /\ table[d].from \in Handlers(table) /\ KindOf[table[d].from] = "file"
    BY <1>1, <1>2 DEF Control
  <2>2. roots' = <<>>
    BY <1>1 DEF Control
  <2> QED
    BY <1>1, <1>4, <1>5, <2>1, <2>2, AskedStays DEF Control
<1>8. OrderedIsSound'
  BY <1>1, <1>4, <1>5 DEF OrderedIsSound
<1> QED
  BY <1>6, <1>7, <1>8 DEF Base

LEMMA BaseOfMembers ==
  ASSUME Base, AddMember
  PROVE  Base'
<1>1. /\ TraceTypes /\ Control /\ OrderedIsSound /\ UNCHANGED asked /\ UNCHANGED <<table, limit>>
      /\ UNCHANGED <<roots, owners, imports, waiting, current, remaining, stage>>
      /\ stage = "seeds" /\ table \in CallGraphs
  BY DEF Base, TraceTypes, AddMember, asked
<1>2. PICK e \in members :
        /\ members' = members \ {e}
        /\ IF KindOf[table[e].to] # "function" THEN UNCHANGED <<ordered, omitted, edges, seeds>>
           ELSE /\ Push(table[e].to) /\ edges' = edges \cup {e}
                /\ seeds' = IF Held(table[e].to) THEN Append(seeds, table[e].to) ELSE seeds
  BY DEF AddMember
<1>3. e \in DOMAIN table /\ table[e].to \in Vertices /\ table[e].kind = "contains"
  BY EdgeEnds DEF From
<1>4. waiting = <<>> /\ stage' = "seeds"
  BY <1>1, <1>2 DEF Control, Prepared
<1>5. /\ ordered' \in Seq(Vertices) /\ IsInjective(ordered') /\ Len(ordered') <= limit.nodes
      /\ Seen \subseteq Seen' /\ omitted' \in Nat /\ seeds' \in Seq(Vertices)
      /\ edges' \subseteq DOMAIN table /\ \A d \in edges' : d \in edges \/ table[d].kind = "contains"
  <2>1. CASE KindOf[table[e].to] # "function"
    BY <1>1, <1>2, <2>1 DEF TraceTypes, OrderedIsSound, Seen
  <2>2. CASE KindOf[table[e].to] = "function"
    <3>1. /\ ordered' \in Seq(Vertices) /\ IsInjective(ordered') /\ Len(ordered') <= limit.nodes
          /\ Seen \subseteq Seen' /\ omitted' \in Nat
      BY <1>1, <1>2, <1>3, <2>2, PushAdds
    <3>2. seeds \in Seq(Vertices) /\ (seeds' = seeds \/ seeds' = Append(seeds, table[e].to))
      BY <1>1, <1>2, <2>2 DEF TraceTypes
    <3>3. seeds' \in Seq(Vertices)
      BY <1>3, <3>2, AppendPlaces
    <3>4. edges' = edges \cup {e}
      BY <1>2, <2>2
    <3> QED
      BY <1>1, <1>3, <3>1, <3>3, <3>4 DEF TraceTypes
  <2> QED
    BY <2>1, <2>2
<1>6. TraceTypes'
  BY <1>1, <1>5, AskedStays DEF TraceTypes
<1>7. Control'
  <2>1. \A d \in members' : /\ d \in DOMAIN table /\ table[d].kind = "contains"
                           /\ table[d].from \in ImportedFiles \cap Seen'
    BY <1>1, <1>2, <1>5 DEF Control
  <2>2. roots' = <<>>
    BY <1>1 DEF Control
  <2> QED
    BY <1>1, <1>4, <2>1, <2>2, AskedStays DEF Control
<1>8. OrderedIsSound'
  BY <1>1, <1>4, <1>5 DEF OrderedIsSound
<1> QED
  BY <1>6, <1>7, <1>8 DEF Base

LEMMA BaseOfSeeds ==
  ASSUME Base, QueueSeed \/ Start
  PROVE  Base'
<1>1. /\ TraceTypes /\ Control /\ OrderedIsSound /\ UNCHANGED asked /\ UNCHANGED <<table, limit>>
      /\ UNCHANGED <<roots, owners, imports, members, ordered, edges, current, remaining, omitted>>
      /\ Prepared /\ stage = "seeds" /\ Seen' = Seen
  BY DEF Base, QueueSeed, Start, Prepared, asked, Seen
<1>2. CASE QueueSeed
  <2>1. /\ seeds \in Seq(Vertices) /\ seeds # <<>> /\ seeds' = Tail(seeds) /\ stage' = stage
        /\ waiting \in Seq(Entry)
        /\ waiting' = IF Head(seeds) \in Seen THEN Append(waiting, [node |-> Head(seeds), depth |-> 0])
                      ELSE waiting
    BY <1>1, <1>2 DEF QueueSeed, TraceTypes
  <2>2. seeds' \in Seq(Vertices) /\ Head(seeds) \in Vertices
    BY <2>1, TailPlaces
  <2>3. PICK new \in Entry : new = [node |-> Head(seeds), depth |-> 0] /\ new.node = Head(seeds)
    <3>1. [node |-> Head(seeds), depth |-> 0] \in Entry
      BY <2>2 DEF Entry
    <3> QED
      BY <3>1
  <2>4. waiting' \in Seq(Entry) /\ \A k \in DOMAIN waiting' : waiting'[k].node \in Seen
    <3>1. CASE Head(seeds) \in Seen
      <4>1. waiting' = Append(waiting, new)
        BY <2>1, <2>3, <3>1
      <4> QED
        BY <1>1, <2>1, <2>3, <3>1, <4>1, AppendPlaces DEF OrderedIsSound
    <3>2. CASE Head(seeds) \notin Seen
      BY <1>1, <2>1, <3>2 DEF OrderedIsSound
    <3> QED
      BY <3>1, <3>2
  <2>5. TraceTypes'
    BY <1>1, <2>1, <2>2, <2>4, AskedStays DEF TraceTypes
  <2>6. Control'
    BY <1>1, <2>1, AskedStays DEF Control, Prepared
  <2>7. OrderedIsSound'
    BY <1>1, <2>4 DEF OrderedIsSound
  <2> QED
    BY <2>5, <2>6, <2>7 DEF Base
<1>3. CASE Start
  <2>1. seeds = <<>> /\ UNCHANGED <<seeds, waiting>> /\ stage' = "calls"
    BY <1>3 DEF Start
  <2>2. TraceTypes'
    BY <1>1, <2>1, AskedStays DEF TraceTypes
  <2>3. Control'
    BY <1>1, <2>1, AskedStays DEF Control, Prepared
  <2>4. OrderedIsSound'
    BY <1>1, <2>1 DEF OrderedIsSound
  <2> QED
    BY <2>2, <2>3, <2>4 DEF Base
<1> QED
  BY <1>2, <1>3

LEMMA BaseOfCalls ==
  ASSUME Base, Take \/ Call \/ Followed \/ Answer
  PROVE  Base'
<1>1. /\ TraceTypes /\ Control /\ OrderedIsSound /\ UNCHANGED asked /\ UNCHANGED <<table, limit>>
      /\ UNCHANGED <<roots, owners, imports, members, seeds>>
      /\ stage \in {"calls", "expanding"} /\ table \in CallGraphs /\ waiting \in Seq(Entry)
      /\ roots = <<>> /\ owners = <<>> /\ imports = {} /\ members = {} /\ seeds = <<>>
  BY DEF Base, TraceTypes, Control, Take, Call, Followed, Answer, asked
<1>2. CASE Take
  <2>1. /\ waiting # <<>> /\ waiting' = Tail(waiting) /\ UNCHANGED <<ordered, edges, omitted>>
        /\ Seen' = Seen
    BY <1>2 DEF Take, Seen
  <2>2. /\ waiting' \in Seq(Entry) /\ Head(waiting) = waiting[1] /\ 1 \in DOMAIN waiting
        /\ Head(waiting) \in Entry
        /\ \A k \in DOMAIN waiting' : k + 1 \in DOMAIN waiting /\ waiting'[k] = waiting[k + 1]
    BY <1>1, <2>1, TailPlaces
  <2>3. Head(waiting).node \in Seen /\ \A k \in DOMAIN waiting' : waiting'[k].node \in Seen
    BY <1>1, <2>2 DEF OrderedIsSound
  <2>4. \/ stage' = "calls"
        \/ /\ stage' = "expanding" /\ current' = Head(waiting) /\ Head(waiting).depth < limit.depth
           /\ remaining' = From(Head(waiting).node, "calls")
    <3>1. Head(waiting).depth \in Nat /\ limit.depth \in Nat
      BY <1>1, <2>2, TraceAssumption DEF Entry, TraceTypes
    <3>2. stage = "calls"
      BY <1>2 DEF Take
    <3> QED
      BY <1>2, <3>1, <3>2 DEF Take
  <2>5. TraceTypes'
    BY <1>1, <2>1, <2>2, <2>4, AskedStays DEF TraceTypes
  <2>6. Control'
    BY <1>1, <2>1, <2>2, <2>3, <2>4, AskedStays DEF Control
  <2>7. OrderedIsSound'
    BY <1>1, <2>1, <2>3 DEF OrderedIsSound
  <2> QED
    BY <2>5, <2>6, <2>7 DEF Base
<1>3. CASE Call
  <2>1. /\ stage = "expanding" /\ stage' = stage /\ current' = current
        /\ current \in Entry /\ current.node \in Seen /\ current.depth < limit.depth
        /\ remaining \subseteq From(current.node, "calls")
    BY <1>1, <1>3 DEF Call, Control
  <2>2. PICK e \in remaining :
          /\ remaining' = remaining \ {e}
          /\ IF Structural(table[e].to) THEN UNCHANGED <<ordered, omitted, edges, waiting>>
             ELSE /\ edges' = edges \cup {e}
                  /\ Push(table[e].to)
                  /\ waiting' = IF table[e].to \in Seen \/ Full THEN waiting
                                ELSE Append(waiting, [node |-> table[e].to, depth |-> current.depth + 1])
    BY <1>3 DEF Call
  <2>3. e \in DOMAIN table /\ table[e].to \in Vertices /\ table[e].from = current.node
    BY <2>1, EdgeEnds
  <2>4. /\ ordered' \in Seq(Vertices) /\ IsInjective(ordered') /\ Len(ordered') <= limit.nodes
        /\ Seen \subseteq Seen' /\ omitted' \in Nat
        /\ edges' \subseteq DOMAIN table /\ edges' \subseteq edges \cup {e}
        /\ waiting' \in Seq(Entry) /\ \A k \in DOMAIN waiting' : waiting'[k].node \in Seen'
    <3>1. CASE Structural(table[e].to)
      BY <1>1, <2>2, <3>1 DEF TraceTypes, OrderedIsSound, Seen
    <3>2. CASE ~Structural(table[e].to)
      <4>1. Push(table[e].to) /\ edges' = edges \cup {e} /\ edges \subseteq DOMAIN table
        BY <1>1, <2>2, <3>2 DEF TraceTypes
      <4>2. /\ ordered' \in Seq(Vertices) /\ IsInjective(ordered') /\ Len(ordered') <= limit.nodes
            /\ Seen \subseteq Seen' /\ omitted' \in Nat
            /\ Held(table[e].to) => table[e].to \in Seen'
        BY <1>1, <2>3, <4>1, PushAdds
      <4>3. waiting' \in Seq(Entry) /\ \A k \in DOMAIN waiting' : waiting'[k].node \in Seen'
        <5>1. CASE table[e].to \in Seen \/ Full
          <6>1. waiting' = waiting
            BY <2>2, <3>2, <5>1
          <6> QED
            BY <1>1, <4>2, <6>1 DEF OrderedIsSound
        <5>2. CASE ~(table[e].to \in Seen \/ Full)
          <6>1. PICK new \in Entry : /\ new = [node |-> table[e].to, depth |-> current.depth + 1]
                                     /\ new.node = table[e].to
            <7>1. [node |-> table[e].to, depth |-> current.depth + 1] \in Entry
              BY <2>1, <2>3 DEF Entry
            <7> QED
              BY <7>1
          <6>2. waiting' = Append(waiting, new)
            BY <2>2, <3>2, <5>2, <6>1
          <6>3. new.node \in Seen' /\ \A k \in DOMAIN waiting : waiting[k].node \in Seen'
            BY <1>1, <4>2, <5>2, <6>1 DEF Held, OrderedIsSound
          <6> QED
            BY <1>1, <6>2, <6>3, AppendPlaces
        <5> QED
          BY <5>1, <5>2
      <4> QED
        BY <2>3, <4>1, <4>2, <4>3
    <3> QED
      BY <3>1, <3>2
  <2>5. TraceTypes'
    BY <1>1, <2>1, <2>4, AskedStays DEF TraceTypes
  <2>6. Control'
    <3>1. remaining' \subseteq From(current.node, "calls")
      BY <2>1, <2>2
    <3> QED
      BY <1>1, <2>1, <2>4, <3>1, AskedStays DEF Control
  <2>7. OrderedIsSound'
    BY <1>1, <2>1, <2>3, <2>4 DEF OrderedIsSound
  <2> QED
    BY <2>5, <2>6, <2>7 DEF Base
<1>4. CASE Followed \/ Answer
  <2>1. /\ UNCHANGED <<ordered, edges, waiting, omitted>> /\ Seen' = Seen
        /\ stage' = "calls" \/ (stage' = "answered" /\ waiting = <<>>)
    BY <1>4 DEF Followed, Answer, Seen
  <2>2. TraceTypes'
    BY <1>1, <2>1, AskedStays DEF TraceTypes
  <2>3. Control'
    BY <1>1, <2>1, AskedStays DEF Control
  <2>4. OrderedIsSound'
    BY <1>1, <2>1 DEF OrderedIsSound
  <2> QED
    BY <2>2, <2>3, <2>4 DEF Base
<1> QED
  BY <1>2, <1>3, <1>4

LEMMA BaseOfStep ==
  ASSUME Base, [TraceNext]_traceVars
  PROVE  Base'
<1>1. CASE UNCHANGED traceVars
  <2>1. /\ UNCHANGED asked /\ Seen' = Seen
        /\ UNCHANGED <<table, limit, roots, owners, imports, members, ordered, edges, seeds, waiting,
                      current, remaining, omitted, stage>>
    BY <1>1 DEF traceVars, asked, Seen
  <2>2. TraceTypes'
    BY <2>1, AskedStays DEF Base, TraceTypes
  <2>3. Control'
    BY <2>1, AskedStays DEF Base, Control, Prepared
  <2>4. OrderedIsSound'
    BY <2>1 DEF Base, OrderedIsSound
  <2> QED
    BY <2>2, <2>3, <2>4 DEF Base
<1> QED
  BY <1>1, BaseOfRoots, BaseOfOwners, BaseOfImports, BaseOfMembers, BaseOfSeeds, BaseOfCalls DEF TraceNext

-----------------------------------------------------------------------------
(* An answer from which nothing was omitted, while it is gathered.          *)

Whole == Base /\ Gathered /\ SeenBelongs /\ EdgesJoinSeen /\ LayerByLayer

LEMMA HandlersAreThere ==
  ASSUME Base, Gathered, stage # "roots"
  PROVE  Handlers(table) \subseteq Seen
<1>1. Range(roots) = {}
  BY DEF Base, Control, Range
<1> QED
  BY <1>1 DEF Gathered

LEMMA WholeOfRoots ==
  ASSUME Whole, AddHandler, omitted' = 0
  PROVE  Gathered' /\ SeenBelongs' /\ EdgesJoinSeen' /\ LayerByLayer'
<1>1. /\ UNCHANGED asked /\ UNCHANGED <<table, limit, owners, imports, members, edges, seeds, waiting, current, stage>>
      /\ stage = "roots" /\ table \in CallGraphs /\ edges = {} /\ waiting = <<>> /\ seeds = <<>>
      /\ Range(owners) = Handlers(table)
      /\ roots \in Seq(Handlers(table)) /\ roots # <<>> /\ roots' = Tail(roots) /\ Push(Head(roots))
  BY DEF Whole, Base, TraceTypes, Control, AddHandler, asked
<1>2. /\ Head(roots) \in Handlers(table)
      /\ \A k \in DOMAIN roots : k = 1 \/ (k - 1 \in DOMAIN roots' /\ roots'[k - 1] = roots[k])
      /\ roots[1] = Head(roots)
  BY <1>1, TailPlaces
<1>3. Head(roots) \in Vertices /\ Handlers(table) \subseteq Listed \cup Sources
  BY <1>1, <1>2, GraphTypes
<1>4. Seen' = Seen \cup {Head(roots)}
  BY <1>1, <1>3, PushAdds DEF Whole, Base
<1>5. \A h \in Handlers(table) : h \in Seen' \/ h \in Range(roots')
  <2>1. \A h \in Range(roots) : h = Head(roots) \/ h \in Range(roots')
    BY <1>2 DEF Range
  <2> QED
    BY <1>4, <2>1 DEF Whole, Gathered
<1>6. Gathered'
  BY <1>1, <1>5, AskedStays DEF Gathered
<1>7. SeenBelongs'
  <2>1. \A n : ~Seeded(n)'
    BY <1>1 DEF Seeded, Range
  <2> QED
    BY <1>1, <1>2, <1>3, <1>4, <2>1, AskedStays DEF Whole, SeenBelongs
<1>8. EdgesJoinSeen' /\ LayerByLayer'
  BY <1>1 DEF EdgesJoinSeen, LayerByLayer
<1> QED
  BY <1>6, <1>7, <1>8

LEMMA WholeOfExposing ==
  ASSUME Whole, Expose
  PROVE  Gathered' /\ SeenBelongs' /\ EdgesJoinSeen' /\ LayerByLayer'
<1>1. /\ UNCHANGED asked
      /\ UNCHANGED <<table, limit, owners, imports, members, roots, seeds, waiting, current, ordered>>
      /\ stage = "roots" /\ stage' = "seeds" /\ Seen' = Seen /\ waiting = <<>> /\ seeds = <<>>
      /\ Range(owners) = Handlers(table) /\ Range(roots) = {}
      /\ \A e \in edges' : table[e].to = Endpoint /\ table[e].from \in Handlers(table)
  BY DEF Whole, Base, Control, Expose, asked, Seen, Range
<1>2. Handlers(table) \subseteq Seen /\ Endpoint \in Seen
  BY <1>1 DEF Whole, Gathered, Base, OrderedIsSound
<1>3. Gathered'
  BY <1>1, <1>2, AskedStays DEF Gathered
<1>4. SeenBelongs'
  <2>1. \A n : ~Seeded(n)'
    BY <1>1 DEF Seeded, Range
  <2> QED
    BY <1>1, <2>1, AskedStays DEF Whole, SeenBelongs
<1>5. EdgesJoinSeen' /\ LayerByLayer'
  BY <1>1, <1>2 DEF EdgesJoinSeen, LayerByLayer
<1> QED
  BY <1>3, <1>4, <1>5

LEMMA WholeOfOwners ==
  ASSUME Whole, TakeOwner
  PROVE  Gathered' /\ SeenBelongs' /\ EdgesJoinSeen' /\ LayerByLayer'
<1>1. /\ UNCHANGED asked
      /\ UNCHANGED <<table, limit, members, roots, edges, waiting, current, ordered, stage>>
      /\ stage = "seeds" /\ imports = {} /\ members = {} /\ Seen' = Seen
      /\ waiting = <<>> /\ table \in CallGraphs
      /\ owners \in Seq(Handlers(table)) /\ owners # <<>> /\ owners' = Tail(owners)
      /\ seeds \in Seq(Vertices) /\ Handlers(table) \subseteq Vertices
  BY GraphTypes DEF Whole, Base, TraceTypes, Control, Prepared, TakeOwner, asked, Seen
<1>2. PICK owner \in Handlers(table) :
        /\ owner = Head(owners)
        /\ \A h \in Range(owners) : h = owner \/ h \in Range(owners')
  <2>1. /\ Head(owners) \in Handlers(table) /\ Head(owners) = owners[1]
        /\ \A k \in DOMAIN owners : k = 1 \/ (k - 1 \in DOMAIN owners' /\ owners'[k - 1] = owners[k])
    BY <1>1, TailPlaces
  <2> QED
    BY <2>1 DEF Range
<1>3. /\ Range(seeds) \subseteq Range(seeds')
      /\ \A n \in Range(seeds') : n \in Range(seeds) \/ (n = owner /\ KindOf[owner] = "function")
      /\ KindOf[owner] = "function" => owner \in Range(seeds')
      /\ KindOf[owner] = "file" => imports' = From(owner, "imports")
  <2>1. CASE KindOf[owner] = "function"
    <3>1. seeds' = Append(seeds, owner) /\ owner \in Vertices
      BY <1>1, <1>2, <2>1 DEF TakeOwner
    <3> QED
      BY <1>1, <2>1, <3>1, AppendPlaces DEF Range
  <2>2. CASE KindOf[owner] # "function"
    BY <1>2, <2>2 DEF TakeOwner
  <2> QED
    BY <2>1, <2>2
<1>4. \A n : /\ Seeded(n) => Seeded(n)'
             /\ Seeded(n)' => Seeded(n) \/ (n = owner /\ KindOf[owner] = "function")
             /\ n = owner /\ KindOf[owner] = "function" => Seeded(n)'
  BY <1>1, <1>3 DEF Seeded
<1>5. \A f : FileIsTaken(f) => FileIsTaken(f)'
  BY <1>1, <1>4, AskedStays DEF FileIsTaken
<1>6. Gathered'
  <2>1. ASSUME NEW h \in Handlers(table), h \notin Range(owners')
        PROVE  /\ KindOf[h] = "function" => Seeded(h)'
               /\ KindOf[h] = "file" =>
                    \A e \in From(h, "imports") :
                      e \in imports' \/ Structural(table[e].to) \/ FileIsTaken(table[e].to)'
    <3>1. CASE h = owner
      BY <1>3, <1>4, <3>1
    <3>2. CASE h # owner
      BY <1>1, <1>2, <1>4, <1>5, <2>1, <3>2 DEF Whole, Gathered
    <3> QED
      BY <3>1, <3>2
  <2>2. \A h \in Handlers(table) : h \in Seen' \/ h \in Range(roots')
    BY <1>1 DEF Whole, Gathered
  <2>3. Structural(Endpoint)' = Structural(Endpoint) /\ \A n : Structural(n)' = Structural(n)
    BY DEF Structural
  <2> QED
    BY <1>1, <2>1, <2>2, <2>3, AskedStays DEF Gathered
<1>7. SeenBelongs'
  <2>1. KindOf[owner] = "function" => owner \in Sources
    BY DEF Sources, Functions
  <2>2. \A n \in Vertices : Seeded(n)' => n \in Sources
    BY <1>1, <1>4, <2>1 DEF Whole, SeenBelongs
  <2> QED
    BY <1>1, <2>2, AskedStays DEF Whole, SeenBelongs
<1>8. EdgesJoinSeen' /\ LayerByLayer'
  BY <1>1 DEF Whole, EdgesJoinSeen, LayerByLayer
<1> QED
  BY <1>6, <1>7, <1>8

LEMMA WholeOfImports ==
  ASSUME Whole, FollowImport, omitted' = 0
  PROVE  Gathered' /\ SeenBelongs' /\ EdgesJoinSeen' /\ LayerByLayer'
<1>1. /\ UNCHANGED asked /\ UNCHANGED <<table, limit, roots, owners, seeds, waiting, current, stage>>
      /\ stage = "seeds" /\ members = {} /\ table \in CallGraphs /\ waiting = <<>> /\ imports # {}
  BY DEF Whole, Base, TraceTypes, Control, Prepared, FollowImport, asked
<1>2. PICK e \in imports :
        /\ imports' = imports \ {e}
        /\ IF Structural(table[e].to) THEN UNCHANGED <<ordered, omitted, edges, members>>
           ELSE /\ Push(table[e].to) /\ edges' = edges \cup {e}
                /\ members' = IF Held(table[e].to) THEN From(table[e].to, "contains") ELSE {}
  BY DEF FollowImport
<1>3. /\ table[e].to \in Vertices /\ table[e].from \in Handlers(table)
      /\ ~Structural(table[e].to) => table[e].to \in ImportedFiles
  BY EdgeEnds DEF Whole, Base, Control
<1>4. Handlers(table) \subseteq Seen
  BY <1>1, HandlersAreThere DEF Whole
<1>5. \A n : Seeded(n)' = Seeded(n)
  BY <1>1 DEF Seeded
<1>6. CASE Structural(table[e].to)
  <2>1. UNCHANGED <<ordered, edges, members>> /\ Seen' = Seen
    BY <1>2, <1>6 DEF Seen
  <2>2. \A f : FileIsTaken(f) => FileIsTaken(f)'
    BY <1>1, <1>5, <2>1, AskedStays DEF FileIsTaken
  <2>3. Gathered'
    BY <1>1, <1>2, <1>5, <1>6, <2>1, <2>2, AskedStays DEF Whole, Gathered, Structural
  <2>4. SeenBelongs' /\ EdgesJoinSeen' /\ LayerByLayer'
    BY <1>1, <1>5, <2>1, AskedStays DEF Whole, SeenBelongs, EdgesJoinSeen, LayerByLayer
  <2> QED
    BY <2>3, <2>4
<1>7. CASE ~Structural(table[e].to)
  <2>1. PICK file \in ImportedFiles : file = table[e].to
    BY <1>3, <1>7
  <2>2. /\ Push(file) /\ edges' = edges \cup {e} /\ file \in Vertices
        /\ members' = IF Held(file) THEN From(file, "contains") ELSE {}
    BY <1>2, <1>3, <1>7, <2>1
  <2>3. Seen' = Seen \cup {file} /\ members' = From(file, "contains")
    BY <2>2, PushAdds DEF Whole, Base
  <2>4. \A f : FileIsTaken(f) => FileIsTaken(f)'
    BY <1>1, <1>5, <2>3, AskedStays DEF FileIsTaken
  <2>5. FileIsTaken(file)'
    BY <1>1, <2>3, AskedStays DEF FileIsTaken
  <2>6. Gathered'
    BY <1>1, <1>2, <1>5, <2>1, <2>3, <2>4, <2>5, AskedStays DEF Whole, Gathered, Structural
  <2>7. SeenBelongs'
    <3>1. file \in Listed \cup Sources
      BY <1>1, GraphTypes
    <3> QED
      BY <1>1, <1>5, <2>3, <3>1, AskedStays DEF Whole, SeenBelongs
  <2>8. EdgesJoinSeen' /\ LayerByLayer'
    BY <1>1, <1>3, <1>4, <2>1, <2>2, <2>3 DEF Whole, EdgesJoinSeen, LayerByLayer
  <2> QED
    BY <2>6, <2>7, <2>8
<1> QED
  BY <1>6, <1>7

LEMMA WholeOfMembers ==
  ASSUME Whole, AddMember, omitted' = 0
  PROVE  Gathered' /\ SeenBelongs' /\ EdgesJoinSeen' /\ LayerByLayer'
<1>1. /\ UNCHANGED asked /\ UNCHANGED <<table, limit, roots, owners, imports, waiting, current, stage>>
      /\ stage = "seeds" /\ table \in CallGraphs /\ waiting = <<>> /\ seeds \in Seq(Vertices)
  BY DEF Whole, Base, TraceTypes, Control, Prepared, AddMember, asked
<1>2. PICK e \in members :
        /\ members' = members \ {e}
        /\ IF KindOf[table[e].to] # "function" THEN UNCHANGED <<ordered, omitted, edges, seeds>>
           ELSE /\ Push(table[e].to) /\ edges' = edges \cup {e}
                /\ seeds' = IF Held(table[e].to) THEN Append(seeds, table[e].to) ELSE seeds
  BY DEF AddMember
<1>3. /\ table[e].to \in Vertices /\ table[e].from \in Seen
      /\ KindOf[table[e].to] = "function" => table[e].to \in Sources
  BY EdgeEnds DEF Whole, Base, Control
<1>4. CASE KindOf[table[e].to] # "function"
  <2>1. UNCHANGED <<ordered, edges, seeds>> /\ Seen' = Seen
    BY <1>2, <1>4 DEF Seen
  <2>2. \A n : Seeded(n)' = Seeded(n)
    BY <1>1, <2>1 DEF Seeded
  <2>3. \A f : FileIsTaken(f) => FileIsTaken(f)'
    BY <1>1, <1>2, <1>4, <2>1, <2>2, AskedStays DEF FileIsTaken
  <2>4. Gathered'
    BY <1>1, <2>1, <2>2, <2>3, AskedStays DEF Whole, Gathered, Structural
  <2>5. SeenBelongs' /\ EdgesJoinSeen' /\ LayerByLayer'
    BY <1>1, <2>1, <2>2, AskedStays DEF Whole, SeenBelongs, EdgesJoinSeen, LayerByLayer
  <2> QED
    BY <2>4, <2>5
<1>5. CASE KindOf[table[e].to] = "function"
  <2>1. PICK source \in Sources : source = table[e].to
    BY <1>3, <1>5
  <2>2. /\ Push(source) /\ edges' = edges \cup {e} /\ source \in Vertices
        /\ seeds' = IF Held(source) THEN Append(seeds, source) ELSE seeds
    BY <1>2, <1>3, <1>5, <2>1
  <2>3. Seen' = Seen \cup {source} /\ seeds' = Append(seeds, source)
    BY <2>2, PushAdds DEF Whole, Base
  <2>4. Range(seeds') = Range(seeds) \cup {source}
    <3>1. seeds' \in Seq(Vertices) /\ Len(seeds') = Len(seeds) + 1 /\ seeds'[Len(seeds) + 1] = source
          /\ DOMAIN seeds = 1..Len(seeds) /\ DOMAIN seeds' = 1..(Len(seeds) + 1) /\ Len(seeds) \in Nat
          /\ \A k \in 1..Len(seeds) : seeds'[k] = seeds[k]
      BY <1>1, <2>2, <2>3
    <3> QED
      BY <3>1 DEF Range
  <2>5. \A n : Seeded(n)' <=> Seeded(n) \/ n = source
    BY <1>1, <2>4 DEF Seeded
  <2>6. \A f : FileIsTaken(f) => FileIsTaken(f)'
    BY <1>1, <1>2, <2>1, <2>3, <2>5, AskedStays DEF FileIsTaken
  <2>7. Gathered'
    BY <1>1, <2>3, <2>5, <2>6, AskedStays DEF Whole, Gathered, Structural
  <2>8. SeenBelongs'
    <3>1. source \in {Endpoint} \cup Handlers(table) \cup ImportedFiles \cup Called(limit.depth)
      <4>1. limit.depth \in Nat
        BY TraceAssumption DEF Whole, Base, TraceTypes
      <4>2. Called(0) \subseteq Called(limit.depth) /\ Called(0) = Sources
        BY <1>1, <4>1, CalledIsMonotone, CalledNext
      <4> QED
        BY <4>2
    <3> QED
      BY <1>1, <2>3, <2>5, <3>1, AskedStays DEF Whole, SeenBelongs
  <2>9. EdgesJoinSeen' /\ LayerByLayer'
    BY <1>1, <1>3, <2>1, <2>2, <2>3 DEF Whole, EdgesJoinSeen, LayerByLayer
  <2> QED
    BY <2>7, <2>8, <2>9
<1> QED
  BY <1>4, <1>5

LEMMA WholeOfSeeds ==
  ASSUME Whole, QueueSeed
  PROVE  Gathered' /\ SeenBelongs' /\ EdgesJoinSeen' /\ LayerByLayer'
<1>1. /\ UNCHANGED asked
      /\ UNCHANGED <<table, limit, roots, owners, imports, members, ordered, edges, current, stage>>
      /\ stage = "seeds" /\ table \in CallGraphs /\ waiting \in Seq(Entry) /\ Seen' = Seen
      /\ members = {} /\ owners = <<>> /\ imports = {}
      /\ seeds \in Seq(Vertices) /\ seeds # <<>> /\ seeds' = Tail(seeds)
      /\ waiting' = IF Head(seeds) \in Seen THEN Append(waiting, [node |-> Head(seeds), depth |-> 0])
                    ELSE waiting
  BY DEF Whole, Base, TraceTypes, Prepared, QueueSeed, asked, Seen
<1>2. PICK seed \in Vertices :
        /\ seed = Head(seeds) /\ seed \in Range(seeds)
        /\ Range(seeds') \subseteq Range(seeds)
        /\ \A n \in Range(seeds) : n = seed \/ n \in Range(seeds')
  <2>1. /\ Head(seeds) \in Vertices /\ Head(seeds) = seeds[1] /\ 1 \in DOMAIN seeds
        /\ \A k \in DOMAIN seeds : k = 1 \/ (k - 1 \in DOMAIN seeds' /\ seeds'[k - 1] = seeds[k])
        /\ \A k \in DOMAIN seeds' : k + 1 \in DOMAIN seeds /\ seeds'[k] = seeds[k + 1]
    BY <1>1, TailPlaces
  <2> QED
    BY <2>1 DEF Range
<1>3. PICK new \in Entry : new = [node |-> seed, depth |-> 0] /\ new.node = seed /\ new.depth = 0
  <2>1. [node |-> seed, depth |-> 0] \in Entry
    BY DEF Entry
  <2> QED
    BY <2>1
<1>4. /\ \A k \in DOMAIN waiting : k \in DOMAIN waiting' /\ waiting'[k] = waiting[k]
      /\ \A k \in DOMAIN waiting' : k \in DOMAIN waiting \/ waiting'[k] = new
      /\ seed \in Seen => \E k \in DOMAIN waiting' : waiting'[k] = new
  <2>1. CASE seed \in Seen
    <3>1. waiting' = Append(waiting, new)
      BY <1>1, <1>2, <1>3, <2>1
    <3>2. DOMAIN waiting = 1..Len(waiting) /\ Len(waiting) \in Nat
      BY <1>1
    <3> QED
      BY <1>1, <3>1, <3>2
  <2>2. CASE seed \notin Seen
    BY <1>1, <1>2, <2>2
  <2> QED
    BY <2>1, <2>2
<1>5. seed \in Sources
  BY <1>1, <1>2 DEF Whole, SeenBelongs, Seeded
<1>6. \A n : Seeded(n)' => Seeded(n)
  BY <1>2, <1>3, <1>4 DEF Seeded
<1>7. \A n \in Seen : Seeded(n) => Seeded(n)'
  BY <1>2, <1>3, <1>4 DEF Seeded
<1>8. \A f : FileIsTaken(f) => FileIsTaken(f)'
  BY <1>1, <1>7, AskedStays DEF FileIsTaken
<1>9. Gathered'
  <2>1. Handlers(table) \subseteq Seen
    BY <1>1, HandlersAreThere DEF Whole
  <2> QED
    BY <1>1, <1>7, <1>8, <2>1, AskedStays DEF Whole, Gathered, Structural
<1>10. SeenBelongs'
  <2>1. \A n \in Vertices : Seeded(n)' => n \in Sources
    BY <1>1, <1>6 DEF Whole, SeenBelongs
  <2>2. new.node \in Called(new.depth) \ Listed
    BY <1>1, <1>3, <1>5, CalledNext, GraphTypes
  <2>3. \A k \in DOMAIN waiting' : /\ waiting'[k].depth = 0
                                   /\ waiting'[k].node \in Called(waiting'[k].depth) \ Listed
    BY <1>1, <1>3, <1>4, <2>2 DEF Whole, SeenBelongs
  <2> QED
    BY <1>1, <2>1, <2>3, AskedStays DEF Whole, SeenBelongs
<1>11. EdgesJoinSeen' /\ LayerByLayer'
  BY <1>1 DEF Whole, EdgesJoinSeen, LayerByLayer
<1> QED
  BY <1>9, <1>10, <1>11

(* Everything that is gathered is there, and what calls are followed from   *)
(* is queued.                                                               *)
LEMMA SourcesAreQueued ==
  ASSUME Whole, Start
  PROVE  Listed \cup Sources \subseteq Seen /\ Met = Sources /\ \A n \in Sources : InQueue(n)
<1>1. /\ stage = "seeds" /\ owners = <<>> /\ imports = {} /\ members = {} /\ seeds = <<>>
      /\ Range(owners) = {} /\ Range(seeds) = {} /\ table \in CallGraphs
  BY DEF Whole, Base, TraceTypes, Start, Prepared, Range
<1>2. Handlers(table) \subseteq Seen /\ Endpoint \in Seen
  BY <1>1, HandlersAreThere DEF Whole, Base, OrderedIsSound
<1>3. \A n : Seeded(n) => InQueue(n)
  BY <1>1 DEF Seeded, InQueue
<1>4. \A f \in ImportedFiles : FileIsTaken(f)
  <2> TAKE f \in ImportedFiles
  <2>1. PICK h \in Handlers(table) : KindOf[h] = "file" /\ f \in Targets(h, "imports") /\ ~Structural(f)
    BY DEF ImportedFiles
  <2>2. PICK e \in From(h, "imports") : f = table[e].to
    BY <2>1 DEF Targets
  <2> QED
    BY <1>1, <2>1, <2>2 DEF Whole, Gathered
<1>5. ImportedFiles \subseteq Seen
  BY <1>4 DEF FileIsTaken
<1>6. \A n \in Sources : n \in Seen /\ InQueue(n)
  <2> TAKE n \in Sources
  <2>1. CASE n \in Handlers(table)
    <3>1. KindOf[n] = "function"
      BY <1>1, GraphTypes
    <3> QED
      BY <1>1, <1>2, <1>3, <2>1, <3>1 DEF Whole, Gathered
  <2>2. CASE n \notin Handlers(table)
    <3>1. PICK f \in ImportedFiles : n \in Targets(f, "contains") /\ KindOf[n] = "function"
      BY <2>2 DEF Sources, Functions
    <3>2. PICK m \in From(f, "contains") : n = table[m].to
      BY <3>1 DEF Targets
    <3> QED
      BY <1>1, <1>3, <1>4, <3>1, <3>2 DEF FileIsTaken
  <2> QED
    BY <2>1, <2>2
<1>7. Listed \cup Sources \subseteq Seen
  BY <1>2, <1>5, <1>6 DEF Listed
<1>8. Seen \subseteq Listed \cup Sources /\ Listed \cap Sources = {}
  BY <1>1, GraphTypes DEF Whole, SeenBelongs
<1> QED
  BY <1>6, <1>7, <1>8 DEF Met

LEMMA WholeOfStart ==
  ASSUME Whole, Start
  PROVE  Gathered' /\ SeenBelongs' /\ EdgesJoinSeen' /\ LayerByLayer'
<1>1. /\ UNCHANGED asked
      /\ UNCHANGED <<table, limit, roots, owners, imports, members, ordered, edges, seeds, waiting, current>>
      /\ stage = "seeds" /\ stage' = "calls" /\ table \in CallGraphs /\ Seen' = Seen /\ waiting \in Seq(Entry)
  BY DEF Whole, Base, TraceTypes, Prepared, Start, asked, Seen
<1>2. Listed \cup Sources \subseteq Seen /\ Met = Sources /\ \A n \in Sources : InQueue(n)
  BY SourcesAreQueued
<1>3. Gathered' /\ EdgesJoinSeen'
  BY <1>1, AskedStays DEF Whole, Gathered, EdgesJoinSeen
<1>4. SeenBelongs'
  BY <1>1, <1>2, AskedStays DEF Whole, SeenBelongs
<1>5. Met' = Met
  BY <1>1, AskedStays DEF Met
<1>6. PICK dist \in [Met -> Nat] : \A n \in Met : dist[n] = 0
  <2>1. [n \in Met |-> 0] \in [Met -> Nat]
    OBVIOUS
  <2> QED
    BY <2>1
<1>7. \A k \in DOMAIN waiting : waiting[k].depth = 0 /\ waiting[k].node \in Met
  <2>1. Called(0) = Sources
    BY <1>1, CalledNext
  <2> QED
    BY <1>1, <1>2, <2>1 DEF Whole, SeenBelongs
<1>8. InLine(dist)'
  <2>1. waiting # <<>> => Head(waiting).depth = 0
    <3>1. waiting # <<>> => 1 \in DOMAIN waiting /\ Head(waiting) = waiting[1]
      BY <1>1, TailPlaces
    <3> QED
      BY <1>7, <3>1
  <2> QED
    BY <1>1, <1>2, <1>5, <1>6, <1>7, <2>1, AskedStays DEF InLine
<1>9. Explored(dist)'
  BY <1>1, <1>2, <1>5 DEF Explored, InQueue
<1> QED
  BY <1>3, <1>4, <1>5, <1>6, <1>8, <1>9 DEF LayerByLayer

-----------------------------------------------------------------------------
(* The calls, breadth first.                                                *)

LEMMA WholeOfTake ==
  ASSUME Whole, Take
  PROVE  Gathered' /\ SeenBelongs' /\ EdgesJoinSeen' /\ LayerByLayer'
<1>1. /\ UNCHANGED asked
      /\ UNCHANGED <<table, limit, roots, owners, imports, members, ordered, edges, seeds>>
      /\ stage = "calls" /\ stage' \in {"calls", "expanding"} /\ table \in CallGraphs /\ Seen' = Seen
      /\ waiting \in Seq(Entry) /\ waiting # <<>> /\ waiting' = Tail(waiting)
  BY DEF Whole, Base, TraceTypes, Take, asked, Seen
<1>2. /\ 1 \in DOMAIN waiting /\ Head(waiting) = waiting[1] /\ waiting[1] \in Entry
      /\ \A k \in DOMAIN waiting' : k + 1 \in DOMAIN waiting /\ waiting'[k] = waiting[k + 1]
      /\ \A k \in DOMAIN waiting : k # 1 => k - 1 \in DOMAIN waiting' /\ waiting'[k - 1] = waiting[k]
      /\ waiting' # <<>> => 2 \in DOMAIN waiting /\ Head(waiting') = waiting[2]
      /\ DOMAIN waiting \subseteq Nat /\ DOMAIN waiting' \subseteq Nat
  BY <1>1, TailPlaces
<1>3. PICK head \in Entry : head = waiting[1] /\ head = Head(waiting) /\ head.depth \in Nat
  BY <1>2 DEF Entry
<1>4. PICK dist \in [Met -> Nat] : InLine(dist) /\ Explored(dist)
  BY <1>1 DEF Whole, LayerByLayer
<1>5. Met' = Met
  BY <1>1, AskedStays DEF Met
<1>6. /\ \A k \in DOMAIN waiting : waiting[k].node \in Met
      /\ head.node \in Called(head.depth) \ Listed
      /\ \A k \in DOMAIN waiting' : waiting'[k].node \in Called(waiting'[k].depth) \ Listed
  BY <1>2, <1>3 DEF Whole, SeenBelongs, Base, OrderedIsSound, Met
<1>7. /\ \A n \in Sources : dist[n] = 0
      /\ head.depth = dist[head.node] /\ \A n \in Met : dist[n] <= head.depth + 1
      /\ \A k \in DOMAIN waiting' : waiting'[k].depth = dist[waiting'[k].node]
      /\ \A k \in DOMAIN waiting' : head.depth <= waiting'[k].depth
      /\ \A j, k \in DOMAIN waiting' : j < k => waiting'[j].depth <= waiting'[k].depth
  BY <1>1, <1>2, <1>3, <1>4 DEF InLine
<1>8. \A n : InQueue(n) => n = head.node \/ InQueue(n)'
  BY <1>2, <1>3 DEF InQueue
<1>9. Gathered' /\ EdgesJoinSeen'
  BY <1>1, AskedStays DEF Whole, Gathered, EdgesJoinSeen
<1>10. CASE head.depth >= limit.depth
  <2>1. stage' = "calls"
    BY <1>1, <1>3, <1>10 DEF Take
  <2>2. SeenBelongs'
    BY <1>1, <1>6, <2>1, AskedStays DEF Whole, SeenBelongs
  <2>3. waiting' # <<>> => \A n \in Met : dist[n] <= Head(waiting').depth + 1
    <3>1. waiting' # <<>> => 1 \in DOMAIN waiting' /\ Head(waiting') = waiting'[1] /\ waiting[2] \in Entry
                             /\ Head(waiting') = waiting[2]
      BY <1>1, <1>2
    <3>2. waiting' # <<>> => Head(waiting').depth \in Nat /\ head.depth <= Head(waiting').depth
      BY <1>7, <3>1 DEF Entry
    <3> QED
      BY <1>3, <1>7, <3>2
  <2>4. InLine(dist)'
    BY <1>1, <1>5, <1>7, <2>1, <2>3, AskedStays DEF InLine
  <2>5. Explored(dist)'
    BY <1>1, <1>4, <1>5, <1>7, <1>8, <1>10, <2>1, AskedStays DEF Explored, Reached
  <2> QED
    BY <1>5, <1>9, <2>2, <2>4, <2>5 DEF LayerByLayer
<1>11. CASE ~(head.depth >= limit.depth)
  <2>1. stage' = "expanding" /\ current' = head /\ remaining' = From(head.node, "calls")
    BY <1>1, <1>3, <1>11 DEF Take
  <2>2. SeenBelongs'
    BY <1>1, <1>6, <2>1, AskedStays DEF Whole, SeenBelongs
  <2>3. InLine(dist)'
    BY <1>1, <1>5, <1>7, <2>1, AskedStays DEF InLine
  <2>4. Explored(dist)'
    BY <1>1, <1>4, <1>5, <1>8, <2>1, AskedStays DEF Explored, Reached
  <2> QED
    BY <1>5, <1>9, <2>2, <2>3, <2>4 DEF LayerByLayer
<1> QED
  BY <1>10, <1>11

LEMMA WholeOfFollowed ==
  ASSUME Whole, Followed
  PROVE  Gathered' /\ SeenBelongs' /\ EdgesJoinSeen' /\ LayerByLayer'
<1>1. /\ UNCHANGED asked
      /\ UNCHANGED <<table, limit, roots, owners, imports, members, ordered, edges, seeds, waiting>>
      /\ stage = "expanding" /\ stage' = "calls" /\ table \in CallGraphs /\ Seen' = Seen /\ remaining = {}
      /\ waiting \in Seq(Entry) /\ current \in Entry /\ current.depth \in Nat
  BY DEF Whole, Base, TraceTypes, Control, Followed, asked, Seen, Entry
<1>2. PICK dist \in [Met -> Nat] : InLine(dist) /\ Explored(dist)
  BY <1>1 DEF Whole, LayerByLayer
<1>3. Met' = Met
  BY <1>1, AskedStays DEF Met
<1>4. (Gathered /\ SeenBelongs /\ EdgesJoinSeen)'
  BY <1>1, AskedStays DEF Whole, Gathered, SeenBelongs, EdgesJoinSeen
<1>5. InLine(dist)'
  <2>1. waiting # <<>> => 1 \in DOMAIN waiting /\ Head(waiting) = waiting[1] /\ waiting[1] \in Entry
    BY <1>1, TailPlaces
  <2>2. waiting # <<>> => Head(waiting).depth \in Nat /\ current.depth <= Head(waiting).depth
    BY <1>1, <1>2, <2>1 DEF Entry, InLine
  <2>3. waiting # <<>> => \A n \in Met : dist[n] <= Head(waiting).depth + 1
    BY <1>1, <1>2, <2>2 DEF InLine
  <2> QED
    BY <1>1, <1>2, <1>3, <2>3, AskedStays DEF InLine
<1>6. Explored(dist)'
  <2>1. \A m \in Callees({current.node}) : Reached(dist, m, dist[current.node])
    <3> TAKE m \in Callees({current.node})
    <3>1. ~Structural(m) /\ m \in Targets(current.node, "calls")
      BY DEF Callees
    <3>2. PICK e \in From(current.node, "calls") : m = table[e].to
      BY <3>1 DEF Targets
    <3> QED
      BY <1>1, <1>2, <3>1, <3>2 DEF Explored, InLine
  <2> QED
    BY <1>1, <1>2, <1>3, <2>1, AskedStays DEF Explored, Reached, InQueue
<1> QED
  BY <1>3, <1>4, <1>5, <1>6 DEF LayerByLayer

(* The end of the queue.                                                    *)
LEMMA WholeOfAnswer ==
  ASSUME Whole, Answer
  PROVE  Gathered' /\ SeenBelongs' /\ EdgesJoinSeen' /\ LayerByLayer'
<1>1. /\ UNCHANGED asked
      /\ UNCHANGED <<table, limit, roots, owners, imports, members, ordered, edges, seeds, waiting>>
      /\ stage = "calls" /\ stage' = "answered" /\ Seen' = Seen
  BY DEF Answer, asked, Seen
<1>2. PICK dist \in [Met -> Nat] : InLine(dist) /\ Explored(dist)
  BY <1>1 DEF Whole, LayerByLayer
<1>3. Met' = Met
  BY <1>1, AskedStays DEF Met
<1>4. (Gathered /\ SeenBelongs /\ EdgesJoinSeen)'
  BY <1>1, AskedStays DEF Whole, Gathered, SeenBelongs, EdgesJoinSeen
<1>5. InLine(dist)'
  BY <1>1, <1>2, <1>3, AskedStays DEF InLine
<1>6. Explored(dist)'
  BY <1>1, <1>2, <1>3, AskedStays DEF Explored, Reached, InQueue
<1> QED
  BY <1>3, <1>4, <1>5, <1>6 DEF LayerByLayer

(* A call that leads to nothing new.                                        *)
LEMMA WholeOfKnownCall ==
  ASSUME Whole, stage = "expanding", NEW e \in remaining, remaining' = remaining \ {e},
         UNCHANGED asked, UNCHANGED <<roots, owners, imports, members, ordered, seeds, waiting, current, stage>>,
         Structural(table[e].to) \/ table[e].to \in Seen,
         edges' = edges \/ (edges' = edges \cup {e} /\ table[e].to \in Seen)
  PROVE  Gathered' /\ SeenBelongs' /\ EdgesJoinSeen' /\ LayerByLayer'
<1>1. /\ UNCHANGED <<table, limit>> /\ Seen' = Seen /\ current.node \in Seen /\ table[e].from = current.node
      /\ current.depth \in Nat
  BY EdgeEnds DEF Whole, Base, Control, asked, Seen, Entry
<1>2. PICK dist \in [Met -> Nat] : InLine(dist) /\ Explored(dist)
  BY DEF Whole, LayerByLayer
<1>3. Met' = Met
  BY <1>1, AskedStays DEF Met
<1>4. (Gathered /\ SeenBelongs)'
  BY <1>1, AskedStays DEF Whole, Gathered, SeenBelongs
<1>5. EdgesJoinSeen'
  BY <1>1 DEF Whole, EdgesJoinSeen
<1>6. InLine(dist)'
  BY <1>1, <1>2, <1>3, AskedStays DEF InLine
<1>7. Explored(dist)'
  <2>1. Structural(table[e].to) \/ Reached(dist, table[e].to, current.depth)
    BY <1>2 DEF Reached, InLine
  <2> QED
    BY <1>1, <1>2, <1>3, <2>1, AskedStays DEF Explored, Reached, InQueue
<1> QED
  BY <1>3, <1>4, <1>5, <1>6, <1>7 DEF LayerByLayer

(* A call that leads to a function that was not met before, which is put at *)
(* the end of the queue.                                                    *)
LEMMA WholeOfNewCall ==
  ASSUME Whole, stage = "expanding", NEW e \in remaining, remaining' = remaining \ {e},
         UNCHANGED asked, UNCHANGED <<roots, owners, imports, members, seeds, current, stage>>,
         ~Structural(table[e].to), table[e].to \notin Seen, Seen' = Seen \cup {table[e].to},
         edges' = edges \cup {e},
         waiting' = Append(waiting, [node |-> table[e].to, depth |-> current.depth + 1])
  PROVE  Gathered' /\ SeenBelongs' /\ EdgesJoinSeen' /\ LayerByLayer'
<1>1. /\ UNCHANGED <<table, limit>> /\ table \in CallGraphs /\ limit.depth \in Nat
      /\ current.node \in Seen /\ current \in Entry /\ current.depth \in Nat /\ current.depth < limit.depth
      /\ waiting \in Seq(Entry) /\ remaining \subseteq From(current.node, "calls")
      /\ current.node \in Called(current.depth) \ Listed
  BY TraceAssumption DEF Whole, Base, TraceTypes, Control, SeenBelongs, asked, Entry
<1>2. PICK n \in Vertices : /\ n = table[e].to /\ n \in Callees({current.node}) /\ n \notin Seen
                            /\ table[e].from = current.node
  <2>1. table[e].to \in Vertices /\ table[e].from = current.node /\ e \in From(current.node, "calls")
    BY <1>1, EdgeEnds DEF Whole
  <2>2. table[e].to \in Targets(current.node, "calls")
    BY <2>1 DEF Targets
  <2> QED
    BY <1>1, <2>1, <2>2 DEF Callees
<1>3. Seen' = Seen \cup {n} /\ waiting' = Append(waiting, [node |-> n, depth |-> current.depth + 1])
  BY <1>2
<1>4. n \in Called(current.depth + 1) \ Listed /\ n \notin Sources
  <2>1. n \in Called(current.depth + 1)
    BY <1>1, <1>2, CalledNext
  <2> QED
    BY <1>2, <2>1 DEF Whole, SeenBelongs
<1>5. Met' = Met \cup {n} /\ n \notin Met
  BY <1>2, <1>3, <1>4, AskedStays DEF Met
<1>6. PICK dist \in [Met -> Nat] : InLine(dist) /\ Explored(dist)
  BY DEF Whole, LayerByLayer
<1>7. PICK far \in [Met' -> Nat] : /\ far[n] = current.depth + 1
                                  /\ \A m \in Met : far[m] = dist[m] /\ dist[m] \in Nat
  <2> DEFINE f == [m \in Met \cup {n} |-> IF m = n THEN current.depth + 1 ELSE dist[m]]
  <2>1. f \in [Met' -> Nat] /\ f[n] = current.depth + 1 /\ \A m \in Met : f[m] = dist[m] /\ dist[m] \in Nat
    BY <1>1, <1>5
  <2> QED
    BY <2>1
<1>8. PICK new \in Entry : /\ new = [node |-> n, depth |-> current.depth + 1]
                            /\ new.node = n /\ new.depth = current.depth + 1
  <2>1. [node |-> n, depth |-> current.depth + 1] \in Entry
    BY <1>1 DEF Entry
  <2> QED
    BY <2>1
<1>9. /\ waiting' # <<>> /\ Len(waiting) \in Nat
      /\ Len(waiting) + 1 \in DOMAIN waiting' /\ waiting'[Len(waiting) + 1] = new
      /\ \A k \in DOMAIN waiting : k \in DOMAIN waiting' /\ k < Len(waiting) + 1 /\ waiting'[k] = waiting[k]
      /\ \A k \in DOMAIN waiting' : \/ k \in DOMAIN waiting /\ k < Len(waiting) + 1 /\ waiting'[k] = waiting[k]
                                 \/ k = Len(waiting) + 1
      /\ DOMAIN waiting' \subseteq Nat
  <2>1. waiting' = Append(waiting, new) /\ waiting' \in Seq(Entry)
    BY <1>1, <1>3, <1>8, AppendPlaces
  <2>2. \A k \in DOMAIN waiting : k < Len(waiting) + 1
    BY <1>1
  <2>3. \A k \in DOMAIN waiting' : \/ k \in DOMAIN waiting /\ k < Len(waiting) + 1 /\ waiting'[k] = waiting[k]
                                   \/ k = Len(waiting) + 1
    BY <1>1, <2>1, AppendPlaces
  <2>4. /\ DOMAIN waiting \subseteq DOMAIN waiting' /\ waiting' # <<>>
        /\ Len(waiting) + 1 \in DOMAIN waiting' /\ waiting'[Len(waiting) + 1] = new
    BY <1>1, <2>1, AppendPlaces
  <2>5. Len(waiting) \in Nat /\ DOMAIN waiting' \subseteq Nat
    BY <1>1, <2>1
  <2>6. \A k \in DOMAIN waiting : k \in DOMAIN waiting' /\ k < Len(waiting) + 1 /\ waiting'[k] = waiting[k]
    <3> TAKE k \in DOMAIN waiting
    <3>1. k \in DOMAIN waiting' /\ k < Len(waiting) + 1 /\ k \in Nat
      BY <2>2, <2>4, <2>5
    <3> QED
      BY <2>3, <2>5, <3>1
  <2> QED
    BY <2>3, <2>4, <2>5, <2>6
<1>10. (\A m : InQueue(m) => InQueue(m)') /\ InQueue(n)'
  BY <1>8, <1>9 DEF InQueue
<1>11. Gathered' /\ EdgesJoinSeen'
  BY <1>1, <1>2, <1>3, AskedStays DEF Whole, Gathered, EdgesJoinSeen
<1>12. SeenBelongs'
  <2>1. \A k \in DOMAIN waiting' : waiting'[k].node \in Called(waiting'[k].depth) \ Listed
    BY <1>4, <1>8, <1>9 DEF Whole, SeenBelongs
  <2>2. n \in Called(limit.depth)
    <3>1. current.depth + 1 \in 0..limit.depth
      BY <1>1
    <3> QED
      BY <1>1, <1>4, <3>1, CalledIsMonotone
  <2> QED
    BY <1>1, <1>3, <2>1, <2>2, AskedStays DEF Whole, SeenBelongs
<1>13. InLine(far)'
  <2>1. \A k \in DOMAIN waiting : waiting[k].node \in Met
    BY DEF Whole, SeenBelongs, Base, OrderedIsSound, Met
  <2>2. \A k \in DOMAIN waiting' : waiting'[k].depth = far[waiting'[k].node]
    <3> TAKE k \in DOMAIN waiting'
    <3>1. CASE k = Len(waiting) + 1
      BY <1>7, <1>8, <1>9, <3>1
    <3>2. CASE k # Len(waiting) + 1
      BY <1>6, <1>7, <1>9, <2>1, <3>2 DEF InLine
    <3> QED
      BY <3>1, <3>2
  <2>3. \A k \in DOMAIN waiting : current.depth <= waiting[k].depth /\ waiting[k].depth <= current.depth + 1
    BY <1>6, <2>1 DEF InLine
  <2>4. \A j, k \in DOMAIN waiting' : j < k => waiting'[j].depth <= waiting'[k].depth
    <3> TAKE j, k \in DOMAIN waiting'
    <3>1. CASE k = Len(waiting) + 1
      BY <1>1, <1>8, <1>9, <2>3, <3>1
    <3>2. CASE k # Len(waiting) + 1
      <4>1. k \in DOMAIN waiting /\ k < Len(waiting) + 1 /\ j \in Nat /\ k \in Nat
        BY <1>9, <3>2
      <4>2. j < k => j \in DOMAIN waiting
        BY <1>9, <4>1
      <4> QED
        BY <1>6, <1>9, <4>1, <4>2 DEF InLine
    <3> QED
      BY <3>1, <3>2
  <2>5. \A k \in DOMAIN waiting' : current.depth <= waiting'[k].depth
    BY <1>1, <1>8, <1>9, <2>3
  <2>6. \A m \in Met' : far[m] <= current.depth + 1
    BY <1>1, <1>5, <1>6, <1>7 DEF InLine
  <2>7. current.depth = far[current.node]
    BY <1>1, <1>6, <1>7 DEF InLine, Met
  <2>8. \A m \in Sources : far[m] = 0
    <3>1. Sources \subseteq Met
      BY <1>1, GraphTypes DEF Whole, SeenBelongs, Met
    <3> QED
      BY <1>6, <1>7, <3>1 DEF InLine
  <2> QED
    BY <1>1, <2>2, <2>4, <2>5, <2>6, <2>7, <2>8, AskedStays DEF InLine
<1>14. Explored(far)'
  <2>1. \A m, d : Reached(dist, m, d) => Reached(far, m, d)'
    BY <1>3, <1>5, <1>7 DEF Reached, Met
  <2>2. Reached(far, n, current.depth)'
    BY <1>1, <1>3, <1>7 DEF Reached
  <2>3. ASSUME NEW m \in Met'
        PROVE  \/ InQueue(m)'
               \/ current.node = m
               \/ far[m] >= limit.depth
               \/ \A s \in Callees({m}) : Reached(far, s, far[m])'
    <3>1. CASE m = n
      BY <1>10, <3>1
    <3>2. CASE m \in Met
      BY <1>6, <1>7, <1>10, <2>1, <3>2 DEF Explored
    <3> QED
      BY <1>5, <3>1, <3>2
  <2>4. ASSUME NEW d \in From(current.node, "calls") \ remaining'
        PROVE  Structural(table[d].to) \/ Reached(far, table[d].to, current.depth)'
    <3>1. CASE d = e
      BY <1>1, <1>2, <2>2, <3>1 DEF Reached
    <3>2. CASE d # e
      <4>1. Structural(table[d].to) \/ Reached(dist, table[d].to, current.depth)
        BY <1>6, <3>2 DEF Explored
      <4> QED
        BY <1>1, <2>1, <4>1 DEF Reached
    <3> QED
      BY <3>1, <3>2
  <2> QED
    BY <1>1, <2>3, <2>4, AskedStays DEF Explored
<1> QED
  BY <1>11, <1>12, <1>13, <1>14 DEF LayerByLayer

LEMMA WholeOfCall ==
  ASSUME Whole, Call, omitted' = 0
  PROVE  Gathered' /\ SeenBelongs' /\ EdgesJoinSeen' /\ LayerByLayer'
<1>1. /\ stage = "expanding" /\ UNCHANGED asked
      /\ UNCHANGED <<roots, owners, imports, members, seeds, current, stage>>
  BY DEF Call, asked
<1>2. PICK e \in remaining :
        /\ remaining' = remaining \ {e}
        /\ IF Structural(table[e].to) THEN UNCHANGED <<ordered, omitted, edges, waiting>>
           ELSE /\ edges' = edges \cup {e}
                /\ Push(table[e].to)
                /\ waiting' = IF table[e].to \in Seen \/ Full THEN waiting
                              ELSE Append(waiting, [node |-> table[e].to, depth |-> current.depth + 1])
  BY DEF Call
<1>3. table[e].to \in Vertices
  BY <1>1, EdgeEnds DEF Whole
<1>4. CASE Structural(table[e].to)
  BY <1>1, <1>2, <1>4, WholeOfKnownCall
<1>5. CASE ~Structural(table[e].to) /\ table[e].to \in Seen
  <2>1. edges' = edges \cup {e} /\ UNCHANGED <<ordered, waiting>>
    BY <1>2, <1>5 DEF Push
  <2> QED
    BY <1>1, <1>2, <1>5, <2>1, WholeOfKnownCall
<1>6. CASE ~Structural(table[e].to) /\ table[e].to \notin Seen
  <2>1. Push(table[e].to) /\ edges' = edges \cup {e}
    BY <1>2, <1>6
  <2>2. Held(table[e].to) /\ Seen' = Seen \cup {table[e].to}
    BY <1>3, <2>1, PushAdds DEF Whole, Base
  <2>3. waiting' = Append(waiting, [node |-> table[e].to, depth |-> current.depth + 1])
    BY <1>2, <1>6, <2>2 DEF Held
  <2> QED
    BY <1>1, <1>2, <1>6, <2>1, <2>2, <2>3, WholeOfNewCall
<1> QED
  BY <1>4, <1>5, <1>6

-----------------------------------------------------------------------------
(* Everything called within the depth limit was met when the queue is       *)
(* empty.                                                                   *)
LEMMA TraceIsWhole ==
  ASSUME Whole, stage = "answered"
  PROVE  Seen = {Endpoint} \cup Handlers(table) \cup ImportedFiles \cup Called(limit.depth)
<1>1. table \in CallGraphs /\ limit.depth \in Nat /\ waiting = <<>>
  BY TraceAssumption DEF Whole, Base, TraceTypes, Control
<1>2. PICK dist \in [Met -> Nat] : InLine(dist) /\ Explored(dist)
  BY <1>1 DEF Whole, LayerByLayer
<1>3. Listed \cup Sources \subseteq Seen /\ Listed \cap Sources = {} /\ \A n \in Sources : dist[n] = 0
  BY <1>1, <1>2, GraphTypes DEF Whole, SeenBelongs, InLine
<1> DEFINE B == [k \in 0..limit.depth |-> {n \in Seen : n \in Listed \/ dist[n] <= k}]
<1>4. Sources \subseteq B[0]
  BY <1>1, <1>3
<1>5. ASSUME NEW k \in 0..limit.depth, k < limit.depth
      PROVE  B[k] \cup Callees(B[k]) \subseteq B[k + 1]
  <2>1. k + 1 \in 0..limit.depth /\ k \in Nat
    BY <1>1, <1>5
  <2>2. B[k] = {n \in Seen : n \in Listed \/ dist[n] <= k}
    OBVIOUS
  <2>3. B[k + 1] = {n \in Seen : n \in Listed \/ dist[n] <= k + 1}
    BY <2>1
  <2> HIDE DEF B
  <2>4. \A n \in Met : dist[n] \in Nat
    OBVIOUS
  <2>5. B[k] \subseteq B[k + 1]
    BY <2>1, <2>2, <2>3, <2>4 DEF Met
  <2>6. ASSUME NEW m \in Callees(B[k])
        PROVE  m \in B[k + 1]
    <3>1. PICK n \in B[k] \ Listed : m \in Targets(n, "calls") /\ ~Structural(m)
      BY DEF Callees
    <3>2. m \in Callees({n}) /\ n \in Met /\ dist[n] <= k /\ dist[n] \in Nat
      BY <2>2, <2>4, <3>1 DEF Callees, Met
    <3>3. ~InQueue(n)
      BY <1>1 DEF InQueue
    <3>4. ~(dist[n] >= limit.depth)
      BY <1>1, <1>5, <2>1, <3>2
    <3>5. Reached(dist, m, dist[n])
      BY <1>2, <3>2, <3>3, <3>4 DEF Explored
    <3> QED
      BY <2>1, <2>3, <2>4, <3>2, <3>5 DEF Reached, Met
  <2> QED
    BY <2>5, <2>6
<1>6. B[limit.depth] \subseteq Seen
  BY <1>1
<1> HIDE DEF B
<1>7. Called(limit.depth) \subseteq Seen
  BY <1>1, <1>4, <1>5, <1>6, CalledIsBounded
<1>8. Seen \subseteq {Endpoint} \cup Handlers(table) \cup ImportedFiles \cup Called(limit.depth)
  BY DEF Whole, SeenBelongs
<1>9. {Endpoint} \cup Handlers(table) \cup ImportedFiles \subseteq Listed \cup Sources
  BY <1>1, GraphTypes
<1> QED
  BY <1>3, <1>7, <1>8, <1>9

LEMMA TraceStarts == TraceInit => TraceInv
<1> SUFFICES ASSUME TraceInit
             PROVE  TraceInv
  OBVIOUS
<1>1. TraceTypes /\ Control /\ OrderedIsSound
  BY BaseStarts
<1>2. /\ stage = "roots" /\ waiting = <<>> /\ seeds = <<>> /\ edges = {} /\ Seen = {Endpoint}
      /\ Range(owners) = Handlers(table) /\ Range(roots) = Handlers(table) /\ table \in CallGraphs
  BY DEF TraceInit, Seen, Range
<1>3. Gathered
  BY <1>2 DEF Gathered
<1>4. SeenBelongs
  <2>1. \A n : ~Seeded(n)
    BY <1>2 DEF Seeded, Range
  <2>2. Endpoint \in Listed
    BY <1>2, GraphTypes
  <2> QED
    BY <1>2, <2>1, <2>2 DEF SeenBelongs
<1>5. EdgesJoinSeen /\ LayerByLayer
  BY <1>2 DEF EdgesJoinSeen, LayerByLayer
<1> QED
  BY <1>1, <1>3, <1>4, <1>5 DEF TraceInv

LEMMA TraceGoesOn == TraceInv /\ [TraceNext]_traceVars => TraceInv'
<1> SUFFICES ASSUME TraceInv, [TraceNext]_traceVars
             PROVE  TraceInv'
  OBVIOUS
<1>1. Base /\ Base'
  BY BaseOfStep DEF TraceInv, Base
<1>2. SUFFICES ASSUME omitted' = 0
               PROVE  Gathered' /\ SeenBelongs' /\ EdgesJoinSeen' /\ LayerByLayer'
  BY <1>1 DEF TraceInv, Base
<1>3. omitted = 0
  <2>1. \A n : Push(n) => omitted = 0
    <3>1. omitted \in Nat
      BY <1>1 DEF Base, TraceTypes
    <3> QED
      BY <1>2, <3>1 DEF Push
  <2> QED
    BY <1>2, <2>1 DEF TraceNext, traceVars, AddHandler, Expose, TakeOwner, FollowImport, AddMember, QueueSeed,
                      Start, Take, Call, Followed, Answer
<1>4. Whole
  BY <1>1, <1>3 DEF TraceInv, Whole
<1>5. CASE UNCHANGED traceVars
  <2>1. /\ UNCHANGED asked /\ Seen' = Seen
        /\ UNCHANGED <<table, limit, roots, owners, imports, members, ordered, edges, seeds, waiting,
                      current, remaining, omitted, stage>>
    BY <1>5 DEF traceVars, asked, Seen
  <2>2. \A n : Seeded(n)' = Seeded(n)
    BY <2>1 DEF Seeded
  <2>3. \A f : FileIsTaken(f)' = FileIsTaken(f)
    BY <2>1, <2>2, AskedStays DEF FileIsTaken
  <2>4. (Gathered /\ SeenBelongs /\ EdgesJoinSeen)'
    BY <1>4, <2>1, <2>2, <2>3, AskedStays DEF Whole, Gathered, Structural, SeenBelongs, EdgesJoinSeen
  <2>5. LayerByLayer'
    <3>1. Met' = Met
      BY <2>1, AskedStays DEF Met
    <3>2. \A dist : InLine(dist) /\ Explored(dist) => InLine(dist)' /\ Explored(dist)'
      BY <2>1, <3>1, AskedStays DEF InLine, Explored, Reached, InQueue
    <3> QED
      BY <1>4, <2>1, <3>1, <3>2 DEF Whole, LayerByLayer
  <2> QED
    BY <2>4, <2>5
<1> QED
  BY <1>2, <1>4, <1>5, WholeOfRoots, WholeOfExposing, WholeOfOwners, WholeOfImports, WholeOfMembers,
     WholeOfSeeds, WholeOfStart, WholeOfTake, WholeOfCall, WholeOfFollowed, WholeOfAnswer DEF TraceNext

(* Whatever the graph, its handlers, the order of the edges and the limits: *)
(* a complete trace has exactly the nodes within the depth asked for, and   *)
(* every trace hangs together.                                              *)
THEOREM TracesAreExact == TraceSpec => []TraceIsExact
<1>1. TraceInit => TraceInv
  BY TraceStarts
<1>2. TraceInv /\ [TraceNext]_traceVars => TraceInv'
  BY TraceGoesOn
<1>3. TraceInv => TraceIsExact
  <2> SUFFICES ASSUME TraceInv
               PROVE  TraceIsExact
    OBVIOUS
  <2>1. CompleteIsExact
    BY TraceIsWhole DEF CompleteIsExact, Complete, TraceInv, Whole, Base
  <2>2. AnswerHangsTogether
    BY DEF AnswerHangsTogether, Complete, TraceInv, OrderedIsSound, EdgesJoinSeen
  <2> QED
    BY <2>1, <2>2 DEF TraceIsExact
<1> QED
  BY <1>1, <1>2, <1>3, PTL DEF TraceSpec

-----------------------------------------------------------------------------
(* Transport contracts: what the two passes have established so far, and    *)
(* what an answer is made of.                                               *)

TypedSoFar ==
  Typed =>
    /\ DOMAIN contracts = matched
    /\ \A k \in matched : contracts[k] = [signature |-> LabelOf(k), matched |-> Callers(k) # {}]
    /\ \A c \in DOMAIN integration.clients : c < client =>
         \A label \in Unprovided(c) : Mismatch(c, label) \in mismatches
    /\ \A m \in mismatches : \E c \in DOMAIN integration.clients :
         \E label \in Unprovided(c) : m = Mismatch(c, label)
    /\ \A c \in DOMAIN integration.clients : c < client =>
         \A label \in Evidence(c) : <<c, label>> \in usedLabels
    /\ \A pair \in usedLabels : pair[2] \in Evidence(pair[1])

HttpSoFar ==
  ~Typed =>
    /\ DOMAIN contracts \subseteq matched /\ unmatched \in Nat
    /\ \A k \in DOMAIN contracts :
         contracts[k] = [endpoint |-> integration.backend[k],
                         callsites |-> Sites(integration.backend[k])]
    /\ Cardinality(DOMAIN contracts) + unmatched = Cardinality(matched)

ApiAnswered ==
  verdict # Absent =>
    /\ matched = Providers
    /\ Typed =>
         /\ client > Len(integration.clients)
         /\ verdict = IF integration.broken # {} THEN [status |-> "ERROR"]
                      ELSE [status |-> "COMPLETE", bounded |-> BoundReached,
                            contracts |-> contracts, mismatches |-> mismatches,
                            unmatched |-> unmatched, used |-> usedLabels]
    /\ ~Typed => verdict = [status |-> "COMPLETE", contracts |-> contracts, unmatched |-> unmatched]

ApiInv ==
  /\ integration \in Integrations /\ client \in Nat \ {0} /\ matched \subseteq Providers
  /\ TypedSoFar /\ HttpSoFar /\ ApiAnswered

(* A question never changes, nor what is asked by it.                       *)
LEMMA SameQuestion ==
  ASSUME UNCHANGED integration
  PROVE  /\ Typed' = Typed /\ Providers' = Providers /\ BoundReached' = BoundReached
         /\ \A k : LabelOf(k)' = LabelOf(k) /\ Callers(k)' = Callers(k)
         /\ \A c : Evidence(c)' = Evidence(c) /\ Unprovided(c)' = Unprovided(c)
         /\ \A c, label : Mismatch(c, label)' = Mismatch(c, label)
         /\ \A endpoint : Sites(endpoint)' = Sites(endpoint)
<1>1. Typed' = Typed
  BY DEF Typed
<1>2. Exposed' = Exposed
  BY DEF Exposed, AskedFor, Typed
<1>3. Providers' = Providers
  BY <1>2 DEF Providers
<1>4. BoundReached' = BoundReached
  BY <1>2 DEF BoundReached
<1>5. \A k : LabelOf(k)' = LabelOf(k)
  BY DEF LabelOf
<1>6. \A c : Evidence(c)' = Evidence(c)
  BY DEF Evidence, UseRelations
<1>7. \A k : Callers(k)' = Callers(k)
  BY <1>5, <1>6 DEF Callers
<1>8. \A c : Unprovided(c)' = Unprovided(c)
  BY <1>3, <1>5, <1>6 DEF Unprovided
<1>9. \A c, label : Mismatch(c, label)' = Mismatch(c, label)
  BY <1>3, <1>5 DEF Mismatch
<1>10. \A c : CallsOf(c)' = CallsOf(c)
  BY DEF CallsOf
<1>11. \A c, line, route : ProvenCalls(c, line, route)' = ProvenCalls(c, line, route)
  BY <1>10 DEF ProvenCalls
<1>12. \A c, line, route : Callsite(c, line, route)' = Callsite(c, line, route)
  BY <1>11 DEF Callsite
<1>13. \A c, route : Nominated(c, route)' = Nominated(c, route)
  BY <1>10 DEF Nominated
<1>14. \A endpoint : Sites(endpoint)' = Sites(endpoint)
  <2>1. \A c, line, endpoint : SitesAt(c, line, endpoint)' = SitesAt(c, line, endpoint)
    BY <1>10, <1>12 DEF SitesAt
  <2>2. \A c, endpoint : SitesOf(c, endpoint)' = SitesOf(c, endpoint)
    BY <2>1, <1>13 DEF SitesOf
  <2> QED
    BY <2>2 DEF Sites
<1> QED
  BY <1>1, <1>3, <1>4, <1>5, <1>6, <1>7, <1>8, <1>9, <1>14

(* The places of what is asked about are finitely many numbers.             *)
LEMMA ProvidersAreFinite ==
  ASSUME integration \in Integrations
  PROVE  /\ Exposed \subseteq Nat /\ IsFiniteSet(Exposed) /\ Cardinality(Exposed) \in Nat
         /\ Providers \subseteq Exposed /\ IsFiniteSet(Providers)
         /\ Len(integration.clients) \in Nat /\ integration.maxEndpoints \in Nat
         /\ DOMAIN integration.clients = 1..Len(integration.clients)
<1>1. IsIntegration(integration)
  BY IntegrationsAssumption DEF IntegrationsAssumption
<1>2. Exposed \in SUBSET DOMAIN integration.backend /\ Providers \in SUBSET Exposed
  BY DEF Exposed, Providers
<1>3. IsFiniteSet(Exposed)
  BY <1>1, <1>2, FS_Subset DEF IsIntegration
<1>4. IsFiniteSet(Providers) /\ Cardinality(Exposed) \in Nat
  BY <1>2, <1>3, FS_Subset, FS_CardinalityType
<1> QED
  BY <1>1, <1>2, <1>3, <1>4 DEF IsIntegration

(* An answer that says nothing was cut is about every endpoint asked about. *)
LEMMA NothingIsCut ==
  ASSUME integration \in Integrations, ~BoundReached
  PROVE  Providers = Exposed
<1>1. ASSUME NEW k \in Exposed
      PROVE  Cardinality({j \in Exposed : j <= k}) <= integration.maxEndpoints
  <2> DEFINE Before == {j \in Exposed : j <= k}
  <2>1. Before \in SUBSET Exposed
    OBVIOUS
  <2> HIDE DEF Before
  <2>2. IsFiniteSet(Before) /\ Cardinality(Before) <= Cardinality(Exposed)
    BY <2>1, ProvidersAreFinite, FS_Subset
  <2>3. Cardinality(Before) \in Nat
    BY <2>2, FS_CardinalityType
  <2>4. Cardinality(Exposed) <= integration.maxEndpoints
    BY ProvidersAreFinite DEF BoundReached
  <2> QED
    BY <2>2, <2>3, <2>4, ProvidersAreFinite DEF Before
<1> QED
  BY <1>1 DEF Providers

(* Giving a provider a contract leaves the contracts of the others.         *)
LEMMA ContractAdded ==
  ASSUME NEW k, NEW contract, WithContract(k, contract)
  PROVE  /\ DOMAIN contracts' = DOMAIN contracts \cup {k} /\ contracts'[k] = contract
         /\ \A j \in DOMAIN contracts : j # k => contracts'[j] = contracts[j]
BY DEF WithContract

LEMMA ApiStarts == ApiInit => ApiInv
<1> SUFFICES ASSUME ApiInit
             PROVE  ApiInv
  OBVIOUS
<1>1. DOMAIN contracts = {}
  BY DEF ApiInit
<1>2. TypedSoFar
  BY <1>1, ProvidersAreFinite DEF ApiInit, TypedSoFar
<1>3. HttpSoFar
  BY <1>1, FS_EmptySet DEF ApiInit, HttpSoFar
<1> QED
  BY <1>2, <1>3 DEF ApiInit, ApiInv, ApiAnswered

(* A provider with the clients that have its label.                         *)
LEMMA ProviderIsMatched ==
  ASSUME ApiInv, MatchProvider
  PROVE  ApiInv'
<1> USE DEF ApiInv
<1> PICK k \in Providers :
      /\ IsNext(k)
      /\ matched' = matched \cup {k}
      /\ WithContract(k, [signature |-> LabelOf(k), matched |-> Callers(k) # {}])
      /\ unmatched' = unmatched + (IF Callers(k) = {} THEN 1 ELSE 0)
      /\ usedLabels' = usedLabels \cup (Callers(k) \X {LabelOf(k)})
  BY DEF MatchProvider
<1>1. /\ Typed /\ verdict = Absent
      /\ UNCHANGED <<integration, client, mismatches, verdict>>
  BY DEF MatchProvider
<1>2. Typed'
  BY <1>1, SameQuestion
<1>3. TypedSoFar'
  <2>1. DOMAIN contracts' = matched'
    BY <1>1, ContractAdded DEF TypedSoFar
  <2>2. \A j \in matched' : contracts'[j] = [signature |-> LabelOf(j), matched |-> Callers(j) # {}]
    BY <1>1, ContractAdded DEF TypedSoFar
  <2>3. \A pair \in usedLabels' : pair[2] \in Evidence(pair[1])
    BY <1>1 DEF TypedSoFar, Callers
  <2>4. \A c \in DOMAIN integration.clients : c < client =>
          \A label \in Evidence(c) : <<c, label>> \in usedLabels'
    BY <1>1 DEF TypedSoFar
  <2>5. /\ \A c \in DOMAIN integration.clients : c < client =>
             \A label \in Unprovided(c) : Mismatch(c, label) \in mismatches
        /\ \A m \in mismatches : \E c \in DOMAIN integration.clients :
             \E label \in Unprovided(c) : m = Mismatch(c, label)
    BY <1>1 DEF TypedSoFar
  <2> QED
    BY <1>1, <2>1, <2>2, <2>3, <2>4, <2>5, SameQuestion DEF TypedSoFar
<1>4. HttpSoFar' /\ ApiAnswered'
  BY <1>1, <1>2 DEF HttpSoFar, ApiAnswered
<1> QED
  BY <1>1, <1>3, <1>4, SameQuestion

(* A client: what the backend has none of, and that all of it is used.      *)
LEMMA ClientIsMatched ==
  ASSUME ApiInv, MatchClient
  PROVE  ApiInv'
<1> USE DEF ApiInv
<1>1. /\ Typed /\ matched = Providers /\ client \in DOMAIN integration.clients
      /\ client' = client + 1
      /\ usedLabels' = usedLabels \cup ({client} \X Evidence(client))
      /\ mismatches' = mismatches \cup {Mismatch(client, label) : label \in Unprovided(client)}
      /\ UNCHANGED <<integration, matched, contracts, unmatched, verdict>>
  BY DEF MatchClient
<1>2. \A c \in DOMAIN integration.clients : c < client' => c < client \/ c = client
  BY <1>1, ProvidersAreFinite
<1>3. TypedSoFar'
  <2>1. \A c \in DOMAIN integration.clients : c < client' =>
          \A label \in Unprovided(c) : Mismatch(c, label) \in mismatches'
    BY <1>1, <1>2 DEF TypedSoFar
  <2>2. \A m \in mismatches' : \E c \in DOMAIN integration.clients :
          \E label \in Unprovided(c) : m = Mismatch(c, label)
    BY <1>1 DEF TypedSoFar
  <2>3. \A c \in DOMAIN integration.clients : c < client' =>
          \A label \in Evidence(c) : <<c, label>> \in usedLabels'
    BY <1>1, <1>2 DEF TypedSoFar
  <2>4. \A pair \in usedLabels' : pair[2] \in Evidence(pair[1])
    BY <1>1 DEF TypedSoFar
  <2>5. /\ DOMAIN contracts' = matched'
        /\ \A k \in matched' :
             contracts'[k] = [signature |-> LabelOf(k), matched |-> Callers(k) # {}]
    BY <1>1 DEF TypedSoFar
  <2> QED
    BY <1>1, <2>1, <2>2, <2>3, <2>4, <2>5, SameQuestion DEF TypedSoFar
<1>4. HttpSoFar'
  BY <1>1, SameQuestion DEF HttpSoFar
<1>5. verdict = Absent
  BY <1>1, ProvidersAreFinite DEF ApiAnswered
<1> QED
  BY <1>1, <1>3, <1>4, <1>5, SameQuestion, ProvidersAreFinite DEF ApiAnswered

(* What was established depends on nothing that an answer changes.          *)
LEMMA NothingElseChanges ==
  ASSUME ApiInv,
         UNCHANGED <<integration, matched, contracts, unmatched, usedLabels, client, mismatches>>
  PROVE  /\ integration' \in Integrations /\ client' \in Nat \ {0} /\ matched' \subseteq Providers'
         /\ TypedSoFar' /\ HttpSoFar'
<1>1. ASSUME Typed
      PROVE  TypedSoFar'
  <2>1. /\ DOMAIN contracts' = matched'
        /\ \A k \in matched' :
             contracts'[k] = [signature |-> LabelOf(k), matched |-> Callers(k) # {}]
    BY <1>1 DEF ApiInv, TypedSoFar
  <2>2. /\ \A c \in DOMAIN integration.clients : c < client' =>
             \A label \in Unprovided(c) : Mismatch(c, label) \in mismatches'
        /\ \A m \in mismatches' : \E c \in DOMAIN integration.clients :
             \E label \in Unprovided(c) : m = Mismatch(c, label)
    BY <1>1 DEF ApiInv, TypedSoFar
  <2>3. /\ \A c \in DOMAIN integration.clients : c < client' =>
             \A label \in Evidence(c) : <<c, label>> \in usedLabels'
        /\ \A pair \in usedLabels' : pair[2] \in Evidence(pair[1])
    BY <1>1 DEF ApiInv, TypedSoFar
  <2> QED
    BY <2>1, <2>2, <2>3, SameQuestion DEF TypedSoFar
<1>2. HttpSoFar'
  BY SameQuestion DEF ApiInv, HttpSoFar
<1> QED
  BY <1>1, <1>2, SameQuestion DEF ApiInv, TypedSoFar

LEMMA TypedIsAnswered ==
  ASSUME ApiInv, FinishTyped
  PROVE  ApiInv'
<1>1. /\ Typed /\ matched = Providers /\ client > Len(integration.clients)
      /\ verdict' = IF integration.broken # {} THEN [status |-> "ERROR"]
                    ELSE [status |-> "COMPLETE", bounded |-> BoundReached, contracts |-> contracts,
                          mismatches |-> mismatches, unmatched |-> unmatched, used |-> usedLabels]
      /\ UNCHANGED <<integration, matched, contracts, unmatched, usedLabels, client, mismatches>>
  BY DEF FinishTyped
<1>2. ApiAnswered'
  BY <1>1, SameQuestion DEF ApiAnswered
<1> QED
  BY <1>1, <1>2, NothingElseChanges DEF ApiInv

LEMMA HttpIsAnswered ==
  ASSUME ApiInv, FinishHttp
  PROVE  ApiInv'
<1>1. /\ ~Typed /\ matched = Providers
      /\ verdict' = [status |-> "COMPLETE", contracts |-> contracts, unmatched |-> unmatched]
      /\ UNCHANGED <<integration, matched, contracts, unmatched, usedLabels, client, mismatches>>
  BY DEF FinishHttp
<1>2. ApiAnswered'
  BY <1>1, SameQuestion DEF ApiAnswered
<1> QED
  BY <1>1, <1>2, NothingElseChanges DEF ApiInv

(* An endpoint gets its callsites, or is counted.                           *)
LEMMA EndpointIsMatched ==
  ASSUME ApiInv, MatchEndpoint
  PROVE  ApiInv'
<1>1. /\ ~Typed /\ verdict = Absent
      /\ UNCHANGED <<integration, usedLabels, client, mismatches, verdict>>
  BY DEF MatchEndpoint
<1> DEFINE found(k) == [endpoint |-> integration.backend[k],
                        callsites |-> Sites(integration.backend[k])]
<1>2. PICK k \in Providers :
        /\ k \notin matched /\ matched' = matched \cup {k}
        /\ \/ WithContract(k, found(k)) /\ UNCHANGED unmatched
           \/ unmatched' = unmatched + 1 /\ UNCHANGED contracts
  BY DEF MatchEndpoint, IsNext
<1>3. /\ DOMAIN contracts \subseteq matched /\ unmatched \in Nat
      /\ \A j \in DOMAIN contracts : contracts[j] = found(j)
      /\ Cardinality(DOMAIN contracts) + unmatched = Cardinality(matched)
  BY <1>1 DEF ApiInv, HttpSoFar
<1>4. DOMAIN contracts \in SUBSET matched /\ matched \in SUBSET Providers
  BY <1>3 DEF ApiInv
<1>5. IsFiniteSet(Providers) /\ integration \in Integrations
  BY ProvidersAreFinite DEF ApiInv
<1>6. IsFiniteSet(matched)
  BY <1>4, <1>5, FS_Subset
<1>7. IsFiniteSet(DOMAIN contracts)
  BY <1>4, <1>6, FS_Subset
<1>8. Cardinality(matched) \in Nat /\ Cardinality(DOMAIN contracts) \in Nat
  BY <1>6, <1>7, FS_CardinalityType
<1>9. Cardinality(matched \cup {k}) = Cardinality(matched) + 1
  BY <1>2, <1>6, FS_AddElement
<1>10. Cardinality(DOMAIN contracts \cup {k}) = Cardinality(DOMAIN contracts) + 1
  BY <1>2, <1>3, <1>7, FS_AddElement
<1> DEFINE soFar == /\ DOMAIN contracts' \subseteq matched' /\ unmatched' \in Nat
                    /\ \A j \in DOMAIN contracts' : contracts'[j] = found(j)
                    /\ Cardinality(DOMAIN contracts') + unmatched' = Cardinality(matched')
<1>11. ASSUME WithContract(k, found(k)) /\ UNCHANGED unmatched
       PROVE  soFar
  <2> HIDE DEF found
  <2>1. /\ DOMAIN contracts' = DOMAIN contracts \cup {k} /\ contracts'[k] = found(k)
        /\ \A j \in DOMAIN contracts : j # k => contracts'[j] = contracts[j]
    BY <1>11, ContractAdded
  <2>2. \A j \in DOMAIN contracts' : contracts'[j] = found(j)
    BY <2>1, <1>3
  <2>3. Cardinality(DOMAIN contracts') + unmatched' = Cardinality(matched')
    BY <2>1, <1>2, <1>3, <1>8, <1>9, <1>10, <1>11
  <2> QED
    BY <2>1, <2>2, <2>3, <1>2, <1>3, <1>11
<1>12. ASSUME unmatched' = unmatched + 1 /\ UNCHANGED contracts
       PROVE  soFar
  <2> HIDE DEF found
  <2>1. Cardinality(DOMAIN contracts') + unmatched' = Cardinality(matched')
    BY <1>2, <1>3, <1>8, <1>9, <1>12
  <2> QED
    BY <2>1, <1>2, <1>3, <1>12
<1>13. soFar
  BY <1>2, <1>11, <1>12
<1>14. HttpSoFar'
  BY <1>13, <1>1, SameQuestion DEF HttpSoFar
<1>15. TypedSoFar' /\ ApiAnswered'
  BY <1>1, SameQuestion DEF TypedSoFar, ApiAnswered
<1> QED
  BY <1>1, <1>2, <1>14, <1>15, SameQuestion DEF ApiInv

LEMMA ApiStays == ApiInv /\ [ApiNext]_apiVars => ApiInv'
<1> SUFFICES ASSUME ApiInv, [ApiNext]_apiVars
             PROVE  ApiInv'
  OBVIOUS
<1>1. CASE UNCHANGED apiVars
  BY <1>1, NothingElseChanges, SameQuestion DEF apiVars, ApiInv, ApiAnswered
<1> QED
  BY <1>1, ProviderIsMatched, ClientIsMatched, TypedIsAnswered, EndpointIsMatched, HttpIsAnswered
     DEF ApiNext

(* An operation of a client is a contract's signature or one mismatch.      *)
LEMMA OperationsAreAccounted ==
  ASSUME Typed, TypedSoFar, matched = Providers,
         NEW c \in DOMAIN integration.clients, c < client, NEW label \in Evidence(c)
  PROVE  LET accounts == {m \in mismatches : m.client = c /\ m.actual = label}
         IN  IF [signature |-> label, matched |-> TRUE] \in Range(contracts)
             THEN accounts = {} ELSE Cardinality(accounts) = 1
<1> DEFINE accounts == {m \in mismatches : m.client = c /\ m.actual = label}
           signature == [signature |-> label, matched |-> TRUE]
<1>1. \A d, other : Mismatch(d, other).client = d /\ Mismatch(d, other).actual = other
  BY DEF Mismatch
<1>2. \A m \in accounts : label \in Unprovided(c) /\ m = Mismatch(c, label)
  BY <1>1 DEF TypedSoFar
<1>3. CASE \E k \in Providers : LabelOf(k) = label
  <2>1. PICK k \in Providers : LabelOf(k) = label
    BY <1>3
  <2>2. c \in Callers(k)
    BY <2>1 DEF Callers
  <2>3. k \in DOMAIN contracts /\ contracts[k] = [signature |-> label, matched |-> TRUE]
    BY <2>1, <2>2 DEF TypedSoFar
  <2>4. signature \in Range(contracts)
    BY <2>3 DEF Range
  <2>5. label \notin Unprovided(c)
    BY <2>1 DEF Unprovided
  <2> QED
    BY <2>4, <2>5, <1>2
<1>4. CASE ~\E k \in Providers : LabelOf(k) = label
  <2>1. label \in Unprovided(c)
    BY <1>4 DEF Unprovided
  <2>2. Mismatch(c, label) \in accounts
    BY <2>1, <1>1 DEF TypedSoFar
  <2>3. accounts = {Mismatch(c, label)}
    BY <2>2, <1>2
  <2>4. \A k \in DOMAIN contracts : contracts[k].signature = LabelOf(k)
    BY DEF TypedSoFar
  <2>5. signature \notin Range(contracts)
    BY <2>4, <1>4 DEF Range, TypedSoFar
  <2> HIDE DEF accounts
  <2>6. Cardinality(accounts) = 1
    BY <2>3, FS_Singleton
  <2> QED
    BY <2>5, <2>6 DEF accounts
<1> QED
  BY <1>3, <1>4

(* What a mismatch says of the backend.                                     *)
LEMMA MismatchesAreTrue ==
  ASSUME integration \in Integrations, NEW c, NEW label
  PROVE  LET m == Mismatch(c, label)
             same == {p \in Exposed : LabelOf(p).identity = m.actual.identity}
         IN  IF m.kind = "MISSING_PROVIDER" THEN same = {} \/ BoundReached
             ELSE m.expected # {} /\ m.expected \subseteq {LabelOf(p) : p \in same}
<1> DEFINE of == {p \in Providers : LabelOf(p).identity = label.identity}
           forms == {LabelOf(k) : k \in of}
           m == Mismatch(c, label)
<1>1. /\ m.kind = IF forms = {} THEN "MISSING_PROVIDER" ELSE "FORM_MISMATCH"
      /\ m.actual = label /\ m.expected = forms
  BY DEF Mismatch
<1>2. Providers \subseteq Exposed
  BY ProvidersAreFinite
<1>3. CASE forms = {}
  <2>1. of = {}
    BY <1>3
  <2>2. m.kind = "MISSING_PROVIDER"
    BY <1>1, <1>3
  <2>3. ~BoundReached => Providers = Exposed
    BY NothingIsCut
  <2> QED
    BY <1>1, <2>1, <2>2, <2>3
<1>4. CASE forms # {}
  <2>1. m.kind # "MISSING_PROVIDER" /\ m.expected # {}
    BY <1>1, <1>4
  <2>2. forms \subseteq {LabelOf(p) : p \in {q \in Exposed : LabelOf(q).identity = label.identity}}
    BY <1>2
  <2> HIDE DEF forms, m
  <2> QED
    BY <1>1, <2>1, <2>2 DEF m
<1> QED
  BY <1>3, <1>4

LEMMA TypedAnswersAgree ==
  ASSUME ApiInv, Typed, verdict # Absent, verdict.status = "COMPLETE"
  PROVE  TypedAgree
<1>1. /\ matched = Providers /\ client > Len(integration.clients)
      /\ verdict = IF integration.broken # {} THEN [status |-> "ERROR"]
                   ELSE [status |-> "COMPLETE", bounded |-> BoundReached, contracts |-> contracts,
                         mismatches |-> mismatches, unmatched |-> unmatched, used |-> usedLabels]
  BY DEF ApiInv, ApiAnswered
<1>2. integration.broken = {}
  BY <1>1
<1>3. /\ verdict.mismatches = mismatches /\ verdict.contracts = contracts
      /\ verdict.bounded = BoundReached /\ verdict.used = usedLabels
  BY <1>1, <1>2
<1>4. \A c \in DOMAIN integration.clients : c < client
  BY <1>1, ProvidersAreFinite DEF ApiInv
<1>5. TypedSoFar /\ integration \in Integrations
  BY DEF ApiInv
<1>6. \A c \in DOMAIN integration.clients : \A label \in Evidence(c) :
        LET accounts == {m \in verdict.mismatches : m.client = c /\ m.actual = label}
        IN  IF [signature |-> label, matched |-> TRUE] \in Range(verdict.contracts)
            THEN accounts = {} ELSE Cardinality(accounts) = 1
  BY <1>1, <1>3, <1>4, <1>5, OperationsAreAccounted
<1>7. ASSUME NEW m \in verdict.mismatches
      PROVE  LET same == {p \in Exposed : LabelOf(p).identity = m.actual.identity}
             IN  IF m.kind = "MISSING_PROVIDER" THEN same = {} \/ verdict.bounded
                 ELSE m.expected # {} /\ m.expected \subseteq {LabelOf(p) : p \in same}
  <2>1. PICK c \in DOMAIN integration.clients : \E label \in Unprovided(c) : m = Mismatch(c, label)
    BY <1>3, <1>5 DEF TypedSoFar
  <2>2. PICK label : m = Mismatch(c, label)
    BY <2>1
  <2> QED
    BY <2>2, <1>3, <1>5, MismatchesAreTrue
<1>8. \A c \in DOMAIN integration.clients,
         label \in UNION {Evidence(d) : d \in DOMAIN integration.clients} :
        <<c, label>> \in verdict.used <=> label \in Evidence(c)
  BY <1>3, <1>4, <1>5 DEF TypedSoFar
<1> QED
  BY <1>2, <1>6, <1>7, <1>8 DEF TypedAgree

(* A literal that may be a route has the static parts of the route.         *)
LEMMA StaticPartsOccur ==
  ASSUME NEW route, NEW literal, IsRoute(route), IsRoute(literal), RouteMatches(route, literal)
  PROVE  \A segment \in Range(route) : Static(segment) => segment \in Range(literal)
<1>1. CASE Includes(literal, route)
  <2>1. PICK k \in 0..(Len(literal) - Len(route)) : \A j \in DOMAIN route : literal[k + j] = route[j]
    BY <1>1 DEF Includes
  <2>2. \A j \in DOMAIN route : k + j \in DOMAIN literal
    BY <2>1 DEF IsRoute
  <2> QED
    BY <2>1, <2>2 DEF Range
<1>2. CASE ~Includes(literal, route)
  BY <1>2 DEF RouteMatches, Range
<1> QED
  BY <1>1, <1>2

(* A method that is resolved is given by the call.                          *)
LEMMA MethodIsGiven ==
  ASSUME NEW call, ResolveMethod(call) # "UNRESOLVED"
  PROVE  LET method == ResolveMethod(call)
         IN  call.name = method \/ call.method = method
             \/ (call.name \in Defaulting /\ ~call.options /\ method = "get")
<1>1. CASE call.name \in Verbs
  BY <1>1 DEF ResolveMethod
<1>2. CASE call.name \notin Verbs /\ call.method \in Verbs
  BY <1>2 DEF ResolveMethod
<1>3. CASE /\ ~(call.name \notin Verbs /\ call.method \in Verbs) /\ call.name \notin Verbs
           /\ call.method = Absent /\ ~call.options /\ call.name \in Defaulting
  BY <1>3 DEF ResolveMethod
<1> QED
  BY <1>1, <1>2, <1>3 DEF ResolveMethod

(* A callsite of an endpoint is a call of a client.                         *)
LEMMA SitesAreCalls ==
  ASSUME integration \in Integrations, ~Typed, NEW e \in Providers,
         NEW site \in Sites(integration.backend[e])
  PROVE  LET endpoint == integration.backend[e]
         IN  \E call \in Range(CallsOf(site.client)) :
               /\ LooksLikeHttp(call)
               /\ \E l \in Range(call.literals) : /\ l.line = site.line
                    /\ \A segment \in Range(endpoint.route) :
                         Static(segment) => segment \in Range(l.segments)
               /\ site.mismatch =>
                    /\ endpoint.method # "any" /\ site.method # endpoint.method
                    /\ call.name = site.method \/ call.method = site.method
                       \/ (call.name \in Defaulting /\ ~call.options /\ site.method = "get")
<1> DEFINE endpoint == integration.backend[e]
<1>1. PICK c \in DOMAIN integration.clients : site \in SitesOf(c, endpoint)
  BY DEF Sites
<1>2. PICK line \in Nominated(c, endpoint.route) : site \in SitesAt(c, line, endpoint)
  BY <1>1 DEF SitesOf
<1>3. PICK k \in Callsite(c, line, endpoint.route) : site = Site(c, line, CallsOf(c)[k], endpoint)
  BY <1>2 DEF SitesAt
<1> DEFINE call == CallsOf(c)[k]
<1>4. /\ site.client = c /\ site.line = line /\ site.method = ResolveMethod(call)
      /\ site.mismatch = Disagrees(ResolveMethod(call), endpoint)
  BY <1>3 DEF Site
<1>5. /\ k \in DOMAIN CallsOf(c) /\ LooksLikeHttp(call)
      /\ \E l \in Range(call.literals) : l.line = line /\ RouteMatches(endpoint.route, l.segments)
  BY <1>3 DEF Callsite, ProvenCalls
<1>6. PICK l \in Range(call.literals) : l.line = line /\ RouteMatches(endpoint.route, l.segments)
  BY <1>5
<1>7. IsIntegration(integration) /\ integration.transport \notin {"graphql", "grpc"}
  BY IntegrationsAssumption DEF IntegrationsAssumption, Typed
<1>8. e \in DOMAIN integration.backend
  BY ProvidersAreFinite DEF Exposed
<1>9. IsRoute(endpoint.route)
  BY <1>7, <1>8 DEF IsIntegration
<1>10. IsRoute(l.segments)
  <2>1. PICK n \in DOMAIN call.literals : l = call.literals[n]
    BY <1>6 DEF Range
  <2> QED
    BY <2>1, <1>1, <1>5, <1>7 DEF IsIntegration, CallsOf
<1>11. \A segment \in Range(endpoint.route) : Static(segment) => segment \in Range(l.segments)
  <2> HIDE DEF endpoint
  <2> QED
    BY <1>6, <1>9, <1>10, StaticPartsOccur
<1>12. call \in Range(CallsOf(site.client))
  BY <1>4, <1>5 DEF Range
<1>13. site.mismatch =>
         /\ endpoint.method # "any" /\ site.method # endpoint.method
         /\ call.name = site.method \/ call.method = site.method
            \/ (call.name \in Defaulting /\ ~call.options /\ site.method = "get")
  BY <1>4, MethodIsGiven DEF Disagrees
<1> HIDE DEF call, endpoint
<1> QED
  BY <1>4, <1>5, <1>6, <1>11, <1>12, <1>13 DEF endpoint

LEMMA HttpAnswersAgree ==
  ASSUME ApiInv, ~Typed, verdict # Absent
  PROVE  HttpAgree
<1>1. /\ matched = Providers
      /\ verdict = [status |-> "COMPLETE", contracts |-> contracts, unmatched |-> unmatched]
  BY DEF ApiInv, ApiAnswered
<1>2. /\ DOMAIN contracts \subseteq matched /\ integration \in Integrations
      /\ \A k \in DOMAIN contracts :
           contracts[k] = [endpoint |-> integration.backend[k],
                           callsites |-> Sites(integration.backend[k])]
      /\ Cardinality(DOMAIN contracts) + unmatched = Cardinality(matched)
  BY DEF ApiInv, HttpSoFar
<1>3. verdict.contracts = contracts /\ verdict.unmatched = unmatched
  BY <1>1
<1>4. ASSUME NEW contract \in Range(contracts), NEW site \in contract.callsites
      PROVE  \E call \in Range(CallsOf(site.client)) :
               /\ LooksLikeHttp(call)
               /\ \E l \in Range(call.literals) : /\ l.line = site.line
                    /\ \A segment \in Range(contract.endpoint.route) :
                         Static(segment) => segment \in Range(l.segments)
               /\ site.mismatch =>
                    /\ contract.endpoint.method # "any" /\ site.method # contract.endpoint.method
                    /\ call.name = site.method \/ call.method = site.method
                       \/ (call.name \in Defaulting /\ ~call.options /\ site.method = "get")
  <2>1. PICK k \in DOMAIN contracts : contract = contracts[k]
    BY DEF Range
  <2>2. /\ k \in Providers /\ contract.endpoint = integration.backend[k]
        /\ site \in Sites(integration.backend[k])
    BY <2>1, <1>1, <1>2
  <2> QED
    BY <2>2, <1>2, SitesAreCalls
<1> QED
  BY <1>1, <1>2, <1>3, <1>4 DEF HttpAgree

(* Both directions of a comparison agree, whatever the backend, its clients,*)
(* the limits and the filter are (typed_api_contracts, http_contracts).     *)
THEOREM ContractsAreCompared == ApiSpec => []ContractsAgree
<1>1. ApiInv => ContractsAgree
  BY TypedAnswersAgree, HttpAnswersAgree DEF ContractsAgree
<1> QED
  BY <1>1, ApiStarts, ApiStays, PTL DEF ApiSpec
=============================================================================
