---------------------------- MODULE BoundedPath ----------------------------
(* shortest_path (src/operations/graph/path.rs): a breadth-first search for *)
(* one path between two nodes, bounded in hops and in edges looked at, and  *)
(* the claims made about its result: that the path is a shortest one, that  *)
(* there is none, that it is a chain of calls.                              *)
EXTENDS Integers, Sequences, FiniteSets, Functions

CONSTANTS
  Nodes,     \* node indices
  Graphs,    \* graphs searched, by their edge tables
  Requests,  \* what is asked
  Nothing    \* no node, no edge, no answer

Kinds == {"calls", "imports", "configures"}

ASSUME PathAssumption ==
  /\ IsFiniteSet(Nodes)
  /\ \A g \in Graphs : Range(g) \subseteq [from : Nodes, to : Nodes, kind : Kinds]
  /\ Requests \subseteq [source : Nodes, target : Nodes, direction : {"out", "in", "both"},
                         relations : SUBSET Kinds, hops : Nat, edges : Nat \ {0}]

VARIABLES
  net,      \* the graph: both ends of every edge, and its relation
  request,  \* what was asked
  reached,  \* for every node seen, the node and the edge it was reached by
  queue,    \* nodes to expand, with their depths
  at,       \* the node being expanded, and its depth
  left,     \* its edges still to look at
  work,     \* edges looked at
  cutHops,  \* the hop limit has cut the search
  phase,    \* popping, expanding or answered
  answer    \* the answer

graph == <<net, request>>
pathVars == <<graph, reached, queue, at, left, work, cutHops, phase, answer>>

Visited == DOMAIN reached

Keep(e) == net[e].kind \in request.relations

(* adjacent(): a loop is listed on both sides. *)
Adjacent(n, direction) ==
  {item \in (DOMAIN net) \X {"out", "in"} :
     /\ direction \in {item[2], "both"}
     /\ n = IF item[2] = "out" THEN net[item[1]].from ELSE net[item[1]].to}

Neighbor(n, e) == IF net[e].from = n THEN net[e].to ELSE net[e].from

(* hop_json(): every edge between the two nodes, whatever its direction. *)
Between(n, m) == {e \in DOMAIN net : \E side \in {"out", "in"} :
                    <<e, side>> \in Adjacent(n, "both") /\ Neighbor(n, e) = m}

Hops(path) == {<<path[k], path[k + 1]>> : k \in 1..(Len(path) - 1)}

(* classify(): the relations of every edge along the path. *)
Relations(path) ==
  UNION {{net[e].kind : e \in Between(hop[1], hop[2])} : hop \in Hops(path)}

(* rebuild(): from the target back to the source. *)
Rebuilt ==
  LET chain[k \in 0..Cardinality(Nodes)] ==
        IF k = 0 THEN <<request.target>>
        ELSE IF Head(chain[k - 1]) = request.source THEN chain[k - 1]
        ELSE <<reached[Head(chain[k - 1])].node>> \o chain[k - 1]
  IN  chain[Cardinality(Nodes)]

StopReason(cutWork) == IF cutHops THEN "MAX_HOPS" ELSE IF cutWork THEN "MAX_EDGES" ELSE "COMPLETE"

Found(path) == [nodes |-> path, stop |-> "COMPLETE",
                chain |-> Relations(path) = {"calls"}]

NotFound(cutWork) == [nodes |-> <<>>, stop |-> StopReason(cutWork), chain |-> FALSE]

PathInit ==
  /\ net \in Graphs /\ request \in Requests
  /\ reached = [n \in {request.source} |-> [node |-> Nothing, edge |-> Nothing]]
  /\ queue = <<[node |-> request.source, depth |-> 0]>>
  /\ at = Nothing /\ left = {} /\ work = 0 /\ cutHops = FALSE
  /\ phase = "popping" /\ answer = Nothing

(* The target is next: the answer is the way it was reached.                *)
Arrive ==
  /\ phase = "popping" /\ queue # <<>> /\ Head(queue).node = request.target
  /\ answer' = Found(Rebuilt) /\ phase' = "answered"
  /\ UNCHANGED <<graph, reached, queue, at, left, work, cutHops>>

(* The next node, which is expanded or cut by the hop limit.                *)
Pop ==
  /\ phase = "popping" /\ queue # <<>> /\ Head(queue).node # request.target
  /\ queue' = Tail(queue)
  /\ IF Head(queue).depth >= request.hops
     THEN cutHops' = TRUE /\ UNCHANGED <<at, left, phase>>
     ELSE /\ at' = Head(queue) /\ phase' = "expanding"
          /\ left' = Adjacent(Head(queue).node, request.direction)
          /\ UNCHANGED cutHops
  /\ UNCHANGED <<graph, reached, work, answer>>

(* Mutant of Discover: what has just been reached is expanded next. *)
DiscoverFirst(n, e) ==
  /\ reached' = [m \in Visited \cup {n} |->
                  IF m = n THEN [node |-> at.node, edge |-> e] ELSE reached[m]]
  /\ queue' = <<[node |-> n, depth |-> at.depth + 1]>> \o queue

Discover(n, e) ==
  /\ reached' = [m \in Visited \cup {n} |->
                  IF m = n THEN [node |-> at.node, edge |-> e] ELSE reached[m]]
  /\ queue' = Append(queue, [node |-> n, depth |-> at.depth + 1])

(* expand(): one edge of the node. *)
Look ==
  /\ phase = "expanding" /\ work < request.edges
  /\ \E item \in left :
       LET e == item[1]
           next == Neighbor(at.node, e)
       IN  /\ left' = left \ {item}
           /\ \/ /\ ~Keep(e) \/ next \in Visited
                 /\ UNCHANGED <<reached, queue>>
              \/ /\ Keep(e) /\ next \notin Visited
                 /\ Discover(next, e)
  /\ work' = work + 1
  /\ UNCHANGED <<graph, at, cutHops, phase, answer>>

Expanded ==
  /\ phase = "expanding" /\ left = {}
  /\ at' = Nothing /\ phase' = "popping"
  /\ UNCHANGED <<graph, reached, queue, left, work, cutHops, answer>>

(* expand() gives up in the middle of a node: the search is over.           *)
OutOfWork ==
  /\ phase = "expanding" /\ left # {} /\ work >= request.edges
  /\ answer' = NotFound(TRUE) /\ phase' = "answered"
  /\ UNCHANGED <<graph, reached, queue, at, left, work, cutHops>>

(* Nothing is left to expand. *)
Exhausted ==
  /\ phase = "popping" /\ queue = <<>>
  /\ answer' = NotFound(work >= request.edges) /\ phase' = "answered"
  /\ UNCHANGED <<graph, reached, queue, at, left, work, cutHops>>

PathNext == Arrive \/ Pop \/ Look \/ Expanded \/ OutOfWork \/ Exhausted

PathSpec == PathInit /\ [][PathNext]_pathVars

-----------------------------------------------------------------------------
(* Properties *)

(* One hop of the search from a node. *)
Steps(n) == {Neighbor(n, item[1]) : item \in {i \in Adjacent(n, request.direction) : Keep(i[1])}}

(* The nodes within so many hops of the source. *)
Within(hops) ==
  LET within[k \in 0..hops] ==
        IF k = 0 THEN {request.source}
        ELSE within[k - 1] \cup UNION {Steps(n) : n \in within[k - 1]}
  IN  within[hops]

Answered(found) == phase = "answered" /\ (answer.nodes # <<>> <=> found)

(* A path that is returned leads from the source to the target along edges  *)
(* the filter keeps, in the direction asked for, within the hop limit, and  *)
(* there is no shorter one: also when the work limit was nearly used up.    *)
FoundIsShortest ==
  Answered(TRUE) =>
    LET path == answer.nodes
    IN  /\ Head(path) = request.source /\ path[Len(path)] = request.target
        /\ \A k \in 1..(Len(path) - 1) : path[k + 1] \in Steps(path[k])
        /\ Len(path) - 1 <= request.hops
        /\ Len(path) > 1 => request.target \notin Within(Len(path) - 2)

(* No path and COMPLETE: there is none, of any length. No limit lets an     *)
(* absence be claimed that the search has not established.                  *)
NotFoundIsProof ==
  Answered(FALSE) /\ answer.stop = "COMPLETE" =>
    request.target \notin Within(Cardinality(Nodes))

(* MAX_HOPS is reported for a target the search could not have reached      *)
(* within the hops allowed, unless the work limit cut it as well.           *)
HopCutIsReal ==
  Answered(FALSE) /\ work < request.edges => request.target \notin Within(request.hops)

(* An execution chain is one along which every hop is a call and nothing    *)
(* else relates the two nodes.                                              *)
ChainsAreCalls ==
  phase = "answered" /\ answer.chain =>
    \A k \in 1..(Len(answer.nodes) - 1) :
      {net[e].kind : e \in Between(answer.nodes[k], answer.nodes[k + 1])} = {"calls"}

(* The answer is the one asked for: a shortest path, a proof that there is  *)
(* none, or the name of the limit that kept the search from knowing; and it *)
(* is called a chain of calls only if it is one.                            *)
PathIsExact == FoundIsShortest /\ NotFoundIsProof /\ HopCutIsReal /\ ChainsAreCalls
=============================================================================
