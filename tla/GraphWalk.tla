----------------------------- MODULE GraphWalk -----------------------------
(***************************************************************************)
(* The bounded traversal behind query_graph and get_dependents              *)
(* (src/operations/graph/walk.rs, query.rs): breadth or depth first from    *)
(* some seeds along the edges a relation filter keeps, bounded in depth, in *)
(* nodes and in edges looked at, and reported as complete or cut.           *)
(*                                                                         *)
(* The order in which a node's edges are listed is left open: nothing that  *)
(* is promised about a walk depends on it.                                  *)
(***************************************************************************)
EXTENDS Integers, Sequences, FiniteSets, Functions

CONSTANTS
  Nodes,        \* node indices
  EdgeIds,      \* edge indices
  Hubs,         \* repository and package nodes
  WorkPerNode,  \* edges looked at per node allowed (32)
  WorkFloor,    \* edges looked at always allowed (64)
  Graphs,       \* graphs walked, by their edge tables
  Hideable,     \* sets of nodes the visibility rules may keep out of an answer
  Requests,     \* what is asked
  SeedLists,    \* the seeds a request names, resolved to nodes
  Nothing       \* no node

ASSUME WalkAssumption ==
  /\ IsFiniteSet(Nodes) /\ IsFiniteSet(EdgeIds) /\ Hubs \subseteq Nodes
  /\ WorkPerNode \in Nat /\ WorkFloor \in Nat
  /\ Graphs \subseteq [EdgeIds -> [from : Nodes, to : Nodes, kept : BOOLEAN]]
  /\ Hideable \subseteq SUBSET Nodes
  /\ \A q \in Requests :
       /\ q.direction \in {"out", "in", "both"} /\ q.dfs \in BOOLEAN
       /\ q.depth \in Nat /\ q.nodes \in Nat
       /\ q.op \in {"query", "dependents"}
       /\ q.op = "dependents" =>
            q.direction = "in" /\ ~q.dfs /\ q.nodes > 0
  /\ SeedLists \subseteq Seq(Nodes)
  /\ Nothing \notin Nodes

VARIABLES
  net,       \* the graph: both ends of every edge, and whether the filter keeps it
  hidden,    \* nodes the visibility rules keep out of the answer
  request,   \* what was asked
  pending,   \* seeds not looked at yet
  distance,  \* the depth of every node seen
  queue,     \* nodes seen and not expanded
  at,        \* the node being expanded
  left,      \* its edges still to look at
  edges,     \* edges of the answer
  frontier,  \* hops to nodes beyond the node limit
  work,      \* edges looked at
  stop,      \* the stop reason so far
  phase,     \* seeding, popping, expanding, walked or answered
  answer     \* the answer

graph == <<net, hidden, request>>
vars == <<graph, pending, distance, queue, at, left, edges, frontier, work, stop,
          phase, answer>>

Seen == DOMAIN distance

(* The relation filter of a request drops an edge, or keeps it. *)
Keep(e) == net[e].kept

(* adjacent(): outgoing and incoming edges; a loop is listed on both sides. *)
Adjacent(n) ==
  {item \in EdgeIds \X {"out", "in"} :
     /\ request.direction \in {item[2], "both"}
     /\ n = IF item[2] = "out" THEN net[item[1]].from ELSE net[item[1]].to}

Neighbor(n, e) == IF net[e].from = n THEN net[e].to ELSE net[e].from

KeptAdjacent(n) == {e \in EdgeIds : Keep(e) /\ \E side \in {"out", "in"} : <<e, side>> \in Adjacent(n)}

(* A hub conducts only where the walk starts. *)
Conducts(n) == distance[n] = 0 \/ n \notin Hubs

(* traverse(): max_nodes * 32, at least 64 *)
MaxWork ==
  LET scaled == request.nodes * WorkPerNode
  IN  IF scaled < WorkFloor THEN WorkFloor ELSE scaled

(* The first reason to stop is kept. *)
Prefer(next) == IF stop = "COMPLETE" THEN next ELSE stop

Complete == stop = "COMPLETE" /\ frontier = {}

Init ==
  /\ net \in Graphs /\ hidden \in Hideable /\ request \in Requests
  /\ pending \in SeedLists
  /\ request.op = "dependents" => Len(pending) = 1 /\ hidden = {}
  /\ distance = [n \in {} |-> 0] /\ queue = <<>>
  /\ at = Nothing /\ left = {}
  /\ edges = {} /\ frontier = {} /\ work = 0
  /\ stop = "COMPLETE" /\ phase = "seeding" /\ answer = Nothing

-----------------------------------------------------------------------------
(* The walk *)

Discover(n, depth) ==
  /\ distance' = [k \in Seen \cup {n} |-> IF k = n THEN depth ELSE distance[k]]
  /\ queue' = Append(queue, n)

(* The seeds, until there are as many as nodes are allowed. *)
Seed ==
  /\ phase = "seeding"
  /\ IF pending = <<>> \/ Cardinality(Seen) >= request.nodes
     THEN /\ stop' = IF pending = <<>> THEN stop ELSE "MAX_NODES"
          /\ phase' = "popping" /\ pending' = <<>>
          /\ UNCHANGED <<distance, queue>>
     ELSE /\ pending' = Tail(pending)
          /\ IF Head(pending) \in Seen THEN UNCHANGED <<distance, queue>>
             ELSE Discover(Head(pending), 0)
          /\ UNCHANGED <<stop, phase>>
  /\ UNCHANGED <<graph, at, left, edges, frontier, work, answer>>

(* pop(): depth first takes the node queued last. *)
TakesLast == request.dfs

Popped == IF TakesLast THEN queue[Len(queue)] ELSE Head(queue)

Rest == IF TakesLast THEN SubSeq(queue, 1, Len(queue) - 1) ELSE Tail(queue)

(* Mutant of Pop: a depth cut is not reported. *)
PopCuttingSilently ==
  /\ phase = "popping" /\ queue # <<>> /\ work < MaxWork
  /\ queue' = Rest
  /\ IF distance[Popped] >= request.depth \/ ~Conducts(Popped)
     THEN UNCHANGED <<stop, at, left, phase>>
     ELSE /\ at' = Popped /\ left' = Adjacent(Popped) /\ phase' = "expanding"
          /\ UNCHANGED stop
  /\ UNCHANGED <<graph, pending, distance, edges, frontier, work, answer>>

(* The next node; at the depth limit it is only checked for edges the       *)
(* filter keeps, and a hub is not expanded.                                 *)
Pop ==
  /\ phase = "popping" /\ queue # <<>> /\ work < MaxWork
  /\ queue' = Rest
  /\ IF distance[Popped] >= request.depth \/ ~Conducts(Popped)
     THEN /\ stop' = IF distance[Popped] >= request.depth /\ KeptAdjacent(Popped) # {}
                     THEN Prefer("MAX_DEPTH") ELSE stop
          /\ UNCHANGED <<at, left, phase>>
     ELSE /\ at' = Popped /\ left' = Adjacent(Popped) /\ phase' = "expanding"
          /\ UNCHANGED stop
  /\ UNCHANGED <<graph, pending, distance, edges, frontier, work, answer>>

(* The walk is over: nothing is queued, or the work limit is reached.       *)
Stop ==
  /\ phase = "popping" /\ (queue = <<>> \/ work >= MaxWork)
  /\ stop' = IF queue # <<>> THEN "MAX_WORK"
             ELSE IF frontier # {} THEN Prefer("MAX_NODES") ELSE stop
  /\ phase' = "walked"
  /\ UNCHANGED <<graph, pending, distance, queue, at, left, edges, frontier, work, answer>>

(* Mutant of Look: the edge to a node beyond the limit is returned too.     *)
LookBeyond ==
  /\ phase = "expanding" /\ left # {} /\ work < MaxWork
  /\ \E item \in left :
       LET e == item[1]
           next == Neighbor(at, e)
       IN  /\ left' = left \ {item}
           /\ work' = work + 1
           /\ edges' = IF Keep(e) THEN edges \cup {e} ELSE edges
           /\ IF ~Keep(e) \/ next \in Seen
              THEN UNCHANGED <<distance, queue, frontier, stop>>
              ELSE IF Cardinality(Seen) >= request.nodes
              THEN /\ frontier' = frontier \cup {[from |-> at, edge |-> e, to |-> next]}
                   /\ stop' = Prefer("MAX_NODES")
                   /\ UNCHANGED <<distance, queue>>
              ELSE Discover(next, distance[at] + 1) /\ UNCHANGED <<frontier, stop>>
  /\ UNCHANGED <<graph, pending, at, phase, answer>>

(* expand(): one edge of the node. *)
Look ==
  /\ phase = "expanding" /\ left # {} /\ work < MaxWork
  /\ \E item \in left :
       LET e == item[1]
           next == Neighbor(at, e)
       IN  /\ left' = left \ {item}
           /\ work' = work + 1
           /\ \/ /\ ~Keep(e)
                 /\ UNCHANGED <<distance, queue, edges, frontier, stop>>
              \/ /\ Keep(e) /\ next \in Seen
                 /\ edges' = edges \cup {e}
                 /\ UNCHANGED <<distance, queue, frontier, stop>>
              \/ /\ Keep(e) /\ next \notin Seen /\ Cardinality(Seen) >= request.nodes
                 /\ frontier' = frontier \cup {[from |-> at, edge |-> e, to |-> next]}
                 /\ stop' = Prefer("MAX_NODES")
                 /\ UNCHANGED <<distance, queue, edges>>
              \/ /\ Keep(e) /\ next \notin Seen /\ Cardinality(Seen) < request.nodes
                 /\ Discover(next, distance[at] + 1)
                 /\ edges' = edges \cup {e}
                 /\ UNCHANGED <<frontier, stop>>
  /\ UNCHANGED <<graph, pending, at, phase, answer>>

(* expand() returns: no edge is left, or the work limit is reached first.   *)
Expanded ==
  /\ phase = "expanding" /\ (left = {} \/ work >= MaxWork)
  /\ stop' = IF left = {} THEN stop ELSE Prefer("MAX_WORK")
  /\ at' = Nothing /\ left' = {} /\ phase' = "popping"
  /\ UNCHANGED <<graph, pending, distance, queue, edges, frontier, work, answer>>

-----------------------------------------------------------------------------
(* The answers *)

(* query(): the visible nodes and all the edges; a token budget then cuts   *)
(* edges, and nodes once no edge is left.                                   *)
Query ==
  /\ phase = "walked" /\ request.op = "query"
  /\ \E shownEdges \in SUBSET edges, shownNodes \in SUBSET (Seen \ hidden) :
       /\ shownNodes # Seen \ hidden => shownEdges = {}
       /\ answer' = [nodes |-> shownNodes, edges |-> shownEdges, frontier |-> frontier,
                     truncated |-> ~Complete \/ shownEdges # edges
                                             \/ shownNodes # Seen \ hidden]
  /\ phase' = "answered"
  /\ UNCHANGED <<graph, pending, distance, queue, at, left, edges, frontier, work, stop>>

(* Mutant of Dependents: the seed is counted against the caller's limit.    *)
DependentsCountingSeed ==
  /\ phase = "walked" /\ request.op = "dependents"
  /\ LET others == {n \in Seen : distance[n] > 0}
     IN  \E shown \in SUBSET others :
           /\ Cardinality(shown) = IF Cardinality(others) <= request.nodes - 2
                                   THEN Cardinality(others) ELSE request.nodes - 2
           /\ answer' = [nodes |-> shown, edges |-> {}, frontier |-> frontier,
                         truncated |-> ~Complete]
  /\ phase' = "answered"
  /\ UNCHANGED <<graph, pending, distance, queue, at, left, edges, frontier, work, stop>>

(* dependents(): all but the seed, at most one less than the walk may see.  *)
Dependents ==
  /\ phase = "walked" /\ request.op = "dependents"
  /\ LET others == {n \in Seen : distance[n] > 0}
     IN  \E shown \in SUBSET others :
           /\ Cardinality(shown) = IF Cardinality(others) <= request.nodes - 1
                                   THEN Cardinality(others) ELSE request.nodes - 1
           /\ answer' = [nodes |-> shown, edges |-> {}, frontier |-> frontier,
                         truncated |-> ~Complete]
  /\ phase' = "answered"
  /\ UNCHANGED <<graph, pending, distance, queue, at, left, edges, frontier, work, stop>>

Next == Seed \/ Pop \/ Stop \/ Look \/ Expanded \/ Query \/ Dependents

Spec == Init /\ [][Next]_vars

-----------------------------------------------------------------------------
(* Properties *)

(* The types of the variables. *)
TypeOK ==
  /\ net \in Graphs /\ hidden \subseteq Nodes /\ request \in Requests
  /\ pending \in Seq(Nodes)
  /\ Seen \subseteq Nodes /\ distance \in [Seen -> Nat]
  /\ queue \in Seq(Nodes) /\ \A k \in DOMAIN queue : queue[k] \in Seen
  /\ at \in Nodes \cup {Nothing} /\ left \subseteq EdgeIds \X {"out", "in"}
  /\ edges \subseteq EdgeIds
  /\ frontier \subseteq [from : Nodes, edge : EdgeIds, to : Nodes]
  /\ work \in Nat
  /\ stop \in {"COMPLETE", "MAX_NODES", "MAX_DEPTH", "MAX_WORK"}
  /\ phase \in {"seeding", "popping", "expanding", "walked", "answered"}

(* A walk that calls itself complete has followed every kept edge of every  *)
(* node it may be conducted through: whatever the order, the three limits   *)
(* and the mode, nothing that is reachable is missing without the answer    *)
(* saying so (WalkResult::evidence_complete).                               *)
CompleteIsClosed ==
  phase \in {"walked", "answered"} /\ Complete =>
    \A n \in Seen : Conducts(n) =>
      \A e \in KeptAdjacent(n) : e \in edges /\ Neighbor(n, e) \in Seen

(* Every edge the walk returns joins two nodes it has seen, in the middle   *)
(* of the walk too, so that wherever a limit cuts it, it leaves a witness   *)
(* subgraph.                                                                *)
EdgesJoinSeenNodes == \A e \in edges : net[e].from \in Seen /\ net[e].to \in Seen

(* Every node but a seed was reached over a kept edge from a node that      *)
(* conducts and is one nearer.                                              *)
SeenIsReachable ==
  \A n \in Seen : distance[n] > 0 =>
    \E m \in Seen, e \in edges :
      /\ Conducts(m) /\ distance[n] = distance[m] + 1
      /\ e \in KeptAdjacent(m) /\ Neighbor(m, e) = n

(* Wherever a limit cuts it, a walk is a witness: a part of the graph, all  *)
(* of it reached from the seeds.                                            *)
WalkIsWitness == EdgesJoinSeenNodes /\ SeenIsReachable

(* A breadth-first walk reports shortest distances, also when it is cut: no *)
(* edge between two nodes it expanded or saw gives a shorter way.           *)
DistancesAreShortest ==
  phase \in {"walked", "answered"} /\ ~request.dfs =>
    \A n \in Seen : Conducts(n) /\ distance[n] < request.depth =>
      \A e \in KeptAdjacent(n) :
        Neighbor(n, e) \in Seen => distance[Neighbor(n, e)] <= distance[n] + 1

(* No limit is exceeded: neither nodes, depth nor edges looked at, and      *)
(* get_dependents answers with no more nodes than were asked for.           *)
LimitsAreKept ==
  /\ Cardinality(Seen) <= request.nodes /\ work <= MaxWork
  /\ \A n \in Seen : distance[n] <= request.depth

(* An answer that does not call itself truncated is the whole one: every    *)
(* visible node of the closure (for get_dependents, every one but the seed) *)
(* and every edge are in it, through the node limit with its extra one for  *)
(* the seed, the budget's cuts and the visibility filter.                   *)
UntruncatedIsWhole ==
  phase = "answered" /\ ~answer.truncated =>
    /\ \A n \in Seen \ hidden :
         n \in answer.nodes \/ (request.op = "dependents" /\ distance[n] = 0)
    /\ \A n \in Seen : Conducts(n) =>
         \A e \in KeptAdjacent(n) : Neighbor(n, e) \in Seen

(* What an answer says of distance and of being whole is true.              *)
ClaimsAreTrue == DistancesAreShortest /\ UntruncatedIsWhole
=============================================================================
