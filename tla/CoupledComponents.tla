------------------------- MODULE CoupledComponents -------------------------
(* coupled_components (src/engine/repository_state.rs): the communities of  *)
(* a graph. Union-find with path compression over the edges that couple two *)
(* nodes, edge by edge; then the groups of more than one node, the largest  *)
(* first.                                                                   *)
EXTENDS Integers, Sequences, FiniteSets, Functions, SequencesExt

CONSTANTS
  Count,     \* number of nodes; nodes are 0 .. Count - 1
  Couplings  \* edges, listed by their source, and package nodes

Indices == 0..(Count - 1)

ASSUME ComponentsAssumption ==
  /\ Count \in Nat
  /\ \A g \in Couplings :
       /\ Range(g.table) \subseteq [from : Indices, to : Indices, kind : {"calls", "contains", "method"}]
       /\ g.packages \subseteq Indices

VARIABLES
  coupling,    \* the graph
  unread,      \* edges not looked at yet
  parent,      \* the forest
  components,  \* the answer
  done

unionVars == <<coupling, unread, parent, components, done>>

UnionInit ==
  /\ coupling \in Couplings /\ unread = DOMAIN coupling.table
  /\ parent = [n \in Indices |-> n]
  /\ components = <<>> /\ done = FALSE

(* The nodes from one up to its root, as find() climbs them. *)
Chain(forest, node) ==
  LET climb[k \in 0..Count] ==
        IF k = 0 THEN <<node>>
        ELSE LET path == climb[k - 1]
             IN  IF forest[Last(path)] = Last(path) THEN path
                 ELSE Append(path, forest[Last(path)])
  IN  climb[Count]

Root(forest, node) == Last(Chain(forest, node))

(* find() lets every node it climbs point to the root. *)
Compressed(forest, node) ==
  LET chain == Chain(forest, node)
      root == Last(chain)
  IN  [n \in Indices |-> IF \E k \in DOMAIN chain : chain[k] = n THEN root ELSE forest[n]]

(* Containment, method membership and packages do not couple. *)
Couples(e) ==
  /\ coupling.table[e].kind \notin {"contains", "method"}
  /\ coupling.table[e].from \notin coupling.packages /\ coupling.table[e].to \notin coupling.packages

(* Mutant of Linked: the node is linked, not its root. *)
LinkedAtNode(forest, a, b) == [forest EXCEPT ![a] = Root(forest, b)]

(* The larger root is linked to the smaller one. *)
Linked(forest, a, b) ==
  LET one == Root(forest, a)
      other == Root(forest, b)
  IN  IF one < other THEN [forest EXCEPT ![other] = one] ELSE [forest EXCEPT ![one] = other]

Union ==
  \E e \in unread :
    /\ \A d \in unread : coupling.table[d].from >= coupling.table[e].from
    /\ unread' = unread \ {e}
    /\ LET a == coupling.table[e].from
           b == coupling.table[e].to
           found == Compressed(parent, a)
       IN  parent' = IF Couples(e) THEN Linked(Compressed(found, b), a, b) ELSE parent
    /\ UNCHANGED <<coupling, components, done>>

Members(root) == {n \in Indices : Root(parent, n) = root}

(* A set as a list: before every item are those that `order` puts there.    *)
Ranked(S, order) ==
  [k \in 1..Cardinality(S) |->
     CHOOSE x \in S : Cardinality({y \in S : <<y, x>> \in order}) = k - 1]

(* The nodes of a group in their order. *)
Ascending(S) == Ranked(S, {pair \in S \X S : pair[1] < pair[2]})

(* The larger group comes first, then the one with the first node. *)
Precedence(groups) ==
  {pair \in groups \X groups :
     \/ Cardinality(pair[1]) > Cardinality(pair[2])
     \/ /\ Cardinality(pair[1]) = Cardinality(pair[2])
        /\ Ascending(pair[1])[1] < Ascending(pair[2])[1]}

(* The groups of more than one node, in their order. *)
Group ==
  /\ unread = {} /\ ~done
  /\ LET groups == {g \in {Members(r) : r \in Indices} : Cardinality(g) > 1}
         sorted == Ranked(groups, Precedence(groups))
     IN  components' = [k \in DOMAIN sorted |-> Ascending(sorted[k])]
  /\ done' = TRUE
  /\ UNCHANGED <<coupling, unread, parent>>

UnionNext == Union \/ Group

UnionSpec == UnionInit /\ [][UnionNext]_unionVars

-----------------------------------------------------------------------------
(* Properties *)

Coupled(seen) ==
  {<<coupling.table[e].from, coupling.table[e].to>> :
     e \in {d \in seen : /\ coupling.table[d].kind \notin {"contains", "method"}
                         /\ {coupling.table[d].from, coupling.table[d].to} \cap coupling.packages = {}}}

(* Nodes joined by coupling edges, in either direction and over any number. *)
Joined(n, seen) ==
  LET pairs == Coupled(seen)
      joined[k \in 0..Count] ==
        IF k = 0 THEN {n}
        ELSE LET near == joined[k - 1]
             IN  near \cup {m \in Indices : \E pair \in pairs :
                              \/ pair[1] \in near /\ pair[2] = m
                              \/ pair[2] \in near /\ pair[1] = m}
  IN  joined[Count - 1]

(* After any number of edges the root of a node is the smallest one that    *)
(* the edges looked at join it to: neither compression nor linking splits   *)
(* or merges a group.                                                       *)
RootsAreComponents ==
  \A n \in Indices :
    LET group == Joined(n, DOMAIN coupling.table \ unread)
        root == Root(parent, n)
    IN  root \in group /\ \A m \in group : root <= m

(* The answer lists every community once, ordered by size and first node,   *)
(* each in the order of its nodes: the same for every order of the edges.   *)
CommunitiesAreOrdered ==
  done =>
    /\ {Range(components[k]) : k \in DOMAIN components}
         = {g \in {Joined(n, DOMAIN coupling.table) : n \in Indices} : Cardinality(g) > 1}
    /\ \A j, k \in DOMAIN components : j < k =>
         \/ Len(components[j]) > Len(components[k])
         \/ Len(components[j]) = Len(components[k]) /\ components[j][1] < components[k][1]
    /\ \A k \in DOMAIN components : \A i, j \in DOMAIN components[k] :
         i < j => components[k][i] < components[k][j]

(* The communities do not depend on the order of the edges, at any time.    *)
CommunitiesAreComponents == RootsAreComponents /\ CommunitiesAreOrdered
=============================================================================
