----------------------------- MODULE DomainWalk -----------------------------
(* The walks of one domain (src/operations/domain_walk): data flow between  *)
(* agents, nodes of workflows or contracts, which are owners with ports.    *)
(* For each relation in turn a breadth-first walk over its edges; whoever   *)
(* reaches an owner or one of its ports stands on all of them. The steps    *)
(* of each relation are then searched for a cycle of owners.                *)
EXTENDS Integers, Sequences, FiniteSets, SequencesExt

CONSTANTS
  Nodes,       \* ids, numbered in their order
  Ports,       \* nodes of the port kind
  Owners,      \* nodes of an owner kind
  Graphs,      \* contains edges in their order, and the other edges
  Requests,    \* what is asked
  MaxVisited,  \* DEFAULT_MAX_VISITED
  MaxEdges,    \* DEFAULT_MAX_EDGES, or eight pages if that is more
  Nothing      \* no node

DomainAssumption ==
  /\ Nodes \subseteq Nat /\ IsFiniteSet(Nodes) /\ Nothing \notin Nodes
  /\ Ports \subseteq Nodes /\ Owners \subseteq Nodes \ Ports
  /\ \A g \in Graphs :
       /\ \A k \in DOMAIN g.contains : g.contains[k] \in [from : Nodes, to : Nodes]
       /\ g.edges \subseteq [from : Nodes, to : Nodes, relation : STRING]
  /\ \A r \in Requests : /\ r.start \in Nodes /\ r.depth \in Nat \ {0} /\ r.incoming \in BOOLEAN
                         /\ r.relations \in Seq(STRING) /\ IsInjective(r.relations)
  /\ MaxVisited \in Nat /\ MaxEdges \in Nat

VARIABLES
  net, request,  \* what was asked
  turn,          \* which relation is walked
  expanded,      \* nodes expanded for it
  queue,         \* nodes to expand, with their hops
  at, left,      \* the node being expanded, and its edges still to look at
  steps,         \* edges found, with the hop they were found at
  reasons,       \* why something may be missing
  cycle,         \* a cycle was found
  phase

ask == <<net, request>>
vars == <<ask, turn, expanded, queue, at, left, steps, reasons, cycle, phase>>

Children(owner) == {net.contains[k].to : k \in {j \in DOMAIN net.contains :
                                                  net.contains[j].from = owner}}

(* The container of a node: the last one that is an owner, or else the      *)
(* first one.                                                               *)
Containers(node) == SelectSeq(net.contains, LAMBDA c : c.to = node)

Parent(node) ==
  LET owning == SelectSeq(Containers(node), LAMBDA c : c.from \in Owners)
  IN  CASE Containers(node) = <<>> -> Nothing
        [] owning # <<>>           -> Last(owning).from
        [] OTHER                   -> Containers(node)[1].from

(* Whoever stands on an owner stands on its ports, and on a port on its     *)
(* owner and the other ports.                                               *)
Expand(node) ==
  {node}
  \cup (IF node \in Owners THEN Children(node) \cap Ports ELSE {})
  \cup (IF node \in Ports /\ Parent(node) \in Owners
        THEN {Parent(node)} \cup (Children(Parent(node)) \cap Ports) ELSE {})

Queued(nodes, hop) ==
  LET sorted == SetToSortSeq(nodes, LAMBDA a, b : a < b)
  IN  [k \in DOMAIN sorted |-> [node |-> sorted[k], hop |-> hop]]

Init ==
  /\ net \in Graphs /\ request \in Requests
  /\ turn = 1 /\ expanded = {} /\ queue = Queued(Expand(request.start), 0)
  /\ at = Nothing /\ left = {} /\ steps = <<>> /\ reasons = {} /\ cycle = FALSE
  /\ phase = "walking"

Relation == request.relations[turn]

Near(e) == IF request.incoming THEN e.to ELSE e.from
Far(e) == IF request.incoming THEN e.from ELSE e.to

EdgesAt(node) == {e \in net.edges : Near(e) = node /\ e.relation = Relation}

(* A node at the depth asked for is not expanded, and that is a reason; one *)
(* that was expanded for this relation is passed over.                      *)
Pop ==
  /\ phase = "walking" /\ queue # <<>>
  /\ LET item == Head(queue)
     IN  /\ item.hop < request.depth => Cardinality(expanded) < MaxVisited
         /\ queue' = Tail(queue)
         /\ reasons' = IF item.hop >= request.depth THEN reasons \cup {"depth"} ELSE reasons
         /\ IF item.hop >= request.depth \/ item.node \in expanded
            THEN UNCHANGED <<expanded, at, left, phase>>
            ELSE /\ expanded' = expanded \cup {item.node}
                 /\ at' = item /\ left' = EdgesAt(item.node) /\ phase' = "expanding"
  /\ UNCHANGED <<ask, turn, steps, cycle>>

VisitedEnough ==
  /\ phase = "walking" /\ queue # <<>> /\ Head(queue).hop < request.depth
  /\ Cardinality(expanded) >= MaxVisited
  /\ reasons' = reasons \cup {"max_visited"} /\ queue' = <<>>
  /\ UNCHANGED <<ask, turn, expanded, at, left, steps, cycle, phase>>

Witnessed(e) == \E k \in DOMAIN steps : steps[k].edge = e

(* An edge is a step, once; at the depth asked for nothing beyond it is     *)
(* queued, and that is a reason, whatever lies there.                       *)
Look ==
  /\ phase = "expanding"
  /\ \E e \in left :
       /\ Witnessed(e) \/ Len(steps) < MaxEdges
       /\ left' = left \ {e}
       /\ steps' = IF Witnessed(e) THEN steps
                   ELSE Append(steps, [edge |-> e, hop |-> at.hop + 1])
       /\ IF at.hop + 1 >= request.depth
          THEN reasons' = reasons \cup {"depth"} /\ UNCHANGED queue
          ELSE /\ queue' = queue \o Queued(Expand(Far(e)) \ expanded, at.hop + 1)
               /\ UNCHANGED reasons
  /\ UNCHANGED <<ask, turn, expanded, at, cycle, phase>>

Expanded ==
  /\ phase = "expanding" /\ left = {}
  /\ at' = Nothing /\ phase' = "walking"
  /\ UNCHANGED <<ask, turn, expanded, queue, left, steps, reasons, cycle>>

(* The edges of all relations together fill the limit.                      *)
EdgesEnough ==
  /\ phase = "expanding" /\ Len(steps) >= MaxEdges /\ \E e \in left : ~Witnessed(e)
  /\ reasons' = reasons \cup {"max_edges"}
  /\ queue' = <<>> /\ at' = Nothing /\ left' = {} /\ phase' = "walking"
  /\ UNCHANGED <<ask, turn, expanded, steps, cycle>>

-----------------------------------------------------------------------------
(* relation_has_cycle() *)

(* The owner of a port, past the ports and others it is contained in.       *)
Projected(node) ==
  LET climb[k \in 0..Cardinality(Nodes)] ==
        IF k = 0 THEN node
        ELSE LET current == climb[k - 1]
             IN  IF current \in Ports /\ Parent(current) # Nothing THEN Parent(current) ELSE current
      top == climb[Cardinality(Nodes)]
  IN  IF top \in Owners THEN top ELSE node

Projection ==
  {<<Projected(steps[k].edge.from), Projected(steps[k].edge.to)>> :
     k \in {j \in DOMAIN steps : steps[j].edge.relation = Relation}}

Ascending(nodes) == SetToSortSeq(nodes, LAMBDA a, b : a < b)

(* A node that was searched without a cycle is not on the way any more.     *)
Left(search, node) == [search EXCEPT !.grey = @ \ {node}, !.black = @ \cup {node}]

(* dfs(): the nodes on the way are grey, those searched black.              *)
RECURSIVE Searched(_, _, _)
Searched(pairs, node, before) ==
  LET Entered(search, next) ==
        IF search.found \/ next \in search.black THEN search
        ELSE IF next \in search.grey THEN [search EXCEPT !.found = TRUE]
        ELSE Searched(pairs, next, search)
      after == FoldLeft(Entered, [before EXCEPT !.grey = @ \cup {node}],
                        Ascending({pair[2] : pair \in {p \in pairs : p[1] = node}}))
  IN  IF after.found THEN after ELSE Left(after, node)

HasCycle(pairs) ==
  FoldLeft(LAMBDA search, node : IF search.found \/ node \in search.grey \cup search.black
                                 THEN search ELSE Searched(pairs, node, search),
           [found |-> FALSE, grey |-> {}, black |-> {}],
           Ascending({pair[1] : pair \in pairs})).found

-----------------------------------------------------------------------------

(* Mutant of Over: what was expanded for a relation is not expanded again.  *)
OverKeeping ==
  /\ phase = "walking" /\ queue = <<>>
  /\ cycle' = (cycle \/ HasCycle(Projection))
  /\ IF turn < Len(request.relations)
     THEN turn' = turn + 1 /\ queue' = Queued(Expand(request.start), 0) /\ UNCHANGED phase
     ELSE phase' = "answered" /\ UNCHANGED <<turn, queue>>
  /\ UNCHANGED <<ask, expanded, at, left, steps, reasons>>

(* The walk of a relation is over: a cycle is looked for, and the next      *)
(* relation is walked from the start.                                       *)
Over ==
  /\ phase = "walking" /\ queue = <<>>
  /\ cycle' = (cycle \/ HasCycle(Projection))
  /\ IF turn < Len(request.relations)
     THEN /\ turn' = turn + 1 /\ expanded' = {}
          /\ queue' = Queued(Expand(request.start), 0) /\ UNCHANGED phase
     ELSE phase' = "answered" /\ UNCHANGED <<turn, expanded, queue>>
  /\ UNCHANGED <<ask, at, left, steps, reasons>>

Next == Pop \/ VisitedEnough \/ Look \/ Expanded \/ EdgesEnough \/ Over

Spec == Init /\ [][Next]_vars

-----------------------------------------------------------------------------
(* Properties *)

(* Nodes that stand for a node of the start after so many hops.             *)
Standing(relation, hops) ==
  LET standing[k \in 0..hops] ==
        IF k = 0 THEN Expand(request.start)
        ELSE LET before == standing[k - 1]
             IN  before \cup UNION {Expand(Far(e)) : e \in
                    {d \in net.edges : d.relation = relation /\ Near(d) \in before}}
  IN  standing[hops]

(* An answer no reason is given for is whole: every edge of the relations   *)
(* that can be reached over owners and ports is a step, though all          *)
(* relations share one limit and one list.                                  *)
UncutIsWhole ==
  phase = "answered" /\ reasons = {} =>
    {steps[k].edge : k \in DOMAIN steps} =
      {e \in net.edges : \E j \in DOMAIN request.relations :
         /\ e.relation = request.relations[j]
         /\ Near(e) \in Standing(e.relation, Cardinality(Nodes))}

(* The hop of a step is the smallest number of hops its far side is away:   *)
(* standing on an owner at once takes no hop.                               *)
HopsAreShortest ==
  \A k \in DOMAIN steps :
    LET step == steps[k]
    IN  /\ step.hop \in 1..request.depth
        /\ Near(step.edge) \in Standing(step.edge.relation, step.hop - 1)
        /\ step.hop > 1 => Near(step.edge) \notin Standing(step.edge.relation, step.hop - 2)

(* A cycle is claimed exactly when owners lead back to themselves over      *)
(* steps of one relation that were found.                                   *)
CycleIsReal ==
  phase = "answered" =>
    cycle = \E j \in DOMAIN request.relations :
              LET pairs == {<<Projected(steps[k].edge.from), Projected(steps[k].edge.to)>> :
                              k \in {i \in DOMAIN steps :
                                       steps[i].edge.relation = request.relations[j]}}
                  Onward(nodes, ignored) == {p[2] : p \in {q \in pairs : q[1] \in nodes}}
              IN  FoldLeft(Onward, Nodes, [n \in 1..Cardinality(Nodes) |-> n]) # {}

(* The steps of a walk are the edges that can be reached, with their hops,  *)
(* and its cycle is one of owners.                                          *)
WalkIsExact == UncutIsWhole /\ HopsAreShortest /\ CycleIsReal
=============================================================================
