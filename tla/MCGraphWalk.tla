---------------------------- MODULE MCGraphWalk ----------------------------
(* Small graphs for GraphWalk: three edges over three nodes, one a hub.     *)
EXTENDS GraphWalk

MCEdge == [from : 1..3, to : 1..3, kept : BOOLEAN]

(* An edge as a number, to take each multiset of edges once. *)
Code(edge) == 6 * edge.from + 2 * edge.to + (IF edge.kept THEN 1 ELSE 0)

Plain(from, to) == [from |-> from, to |-> to, kept |-> TRUE]

(* A short way to 4 from one seed and a long one from another. *)
TwoWays == [e \in EdgeIds |-> CASE e = 11 -> Plain(1, 4) [] e = 12 -> Plain(2, 5) [] e = 13 -> Plain(5, 4)]

(* Any three edges, at most one of which the filter drops. *)
MCGraphs ==
  {TwoWays} \cup
  {table \in [EdgeIds -> MCEdge] :
     /\ \A d, e \in EdgeIds : d < e => Code(table[d]) <= Code(table[e])
     /\ Cardinality({e \in EdgeIds : ~table[e].kept}) <= 1}

MCHideable == {{}, {2}}

MCRequests ==
  [op : {"query"}, direction : {"out", "both"}, dfs : BOOLEAN, depth : 1..2, nodes : {2, 4}]
  \cup [op : {"dependents"}, direction : {"in"}, dfs : {FALSE}, depth : {2}, nodes : 2..3]

(* From a plain node, from the hub, and the same seed twice. *)
MCSeedLists == {<<1>>, <<3>>, <<1, 1, 2>>}
=============================================================================
