--------------------------- MODULE MCGraphQueries ---------------------------
(* The bounded answers over a graph, on small graphs: a path, the nodes     *)
(* around a subject, the trace of an endpoint, and the communities of the   *)
(* graph.  The operations share no state in the program; `mode` says which  *)
(* of them a behaviour is about, and the others have not been asked.        *)
EXTENDS BoundedPath, RelatedPick, EndpointTrace, CoupledComponents

LOCAL INSTANCE FiniteSetsExt

CONSTANT Modes

-----------------------------------------------------------------------------
(* The graphs and the requests: all there are of a small size, each        *)
(* multiset of edges once.                                                  *)

(* Edges in a fixed order, the equal ones next to each other.               *)
Tables(ids, links, Number(_)) ==
  {tab \in [ids -> links] :
     \A d, e \in ids : d < e => Number(tab[d]) <= Number(tab[e])}

-----------------------------------------------------------------------------
(* Paths: four edges on four nodes, two of which may be parallel, form a    *)
(* cycle or lead nowhere; at most one of them is an import.                 *)
PathNodes == 1..5
PathEdges == 1..4

(* A short and a long way from 1 to 3. *)
TwoWays ==
  <<[from |-> 1, kind |-> "calls", to |-> 2], [from |-> 2, kind |-> "calls", to |-> 3],
    [from |-> 1, kind |-> "calls", to |-> 4], [from |-> 4, kind |-> "calls", to |-> 5],
    [from |-> 5, kind |-> "calls", to |-> 3]>>

PathGraphs ==
  {TwoWays} \cup
  {tab \in Tables(PathEdges,
                    {edge \in [from : 1..4, to : 1..4, kind : {"calls", "imports"}] :
                       edge.from # edge.to},
                    LAMBDA edge : 4 * edge.from + edge.to) :
     Cardinality({e \in PathEdges : tab[e].kind = "imports"}) <= 1}

(* Limits that cut and limits that do not. *)
PathRequests ==
  [source : {1}, target : {3}, direction : {"out", "both"},
   relations : {{"calls", "imports", "configures"}}, hops : {1, 3}, edges : {2, 9}]
  \cup [source : {1}, target : {3}, direction : {"out"},
        relations : {{"calls"}}, hops : {3}, edges : {9}]
  \cup [source : {1}, target : {1}, direction : {"out"},
        relations : {{"calls"}}, hops : {0}, edges : {1}]

-----------------------------------------------------------------------------
(* Related nodes: up to four edges around a subject with three neighbours,  *)
(* incoming ones first; a recursive call is listed on both sides. 1 and 2   *)
(* differ in name only, so 1 is the one that is met first.                  *)
Centre == 0
Neighbours == 1..3

EdgesAround(n, kinds) ==
  {list \in [1..n -> [incoming : BOOLEAN, other : Neighbours, kind : kinds]] :
     /\ \A i, j \in 1..n : i < j /\ list[j].incoming => list[i].incoming
     /\ \A j \in 1..n : list[j].other = 2 => \E i \in 1..(j - 1) : list[i].other = 1}

SelfCall(incoming) == [incoming |-> incoming, other |-> Centre, kind |-> "calls"]

RelatedLists ==
  UNION {EdgesAround(n, {"calls", "implements", "contains"}) : n \in 0..3}
  \cup EdgesAround(4, {"calls", "contains"})
  \cup {<<SelfCall(TRUE)>> \o list \o <<SelfCall(FALSE)>> : list \in EdgesAround(1, {"calls"})}

TestsAround == {{}, {3}}
AllIntents == {"callers", "callees", "any"}

-----------------------------------------------------------------------------
(* Endpoint traces: an endpoint exposed by two functions of a route file,   *)
(* by the file itself or by both; the file imports another file with two    *)
(* functions.                                                               *)
Route == 0
TraceNodes == 0..8

TraceKinds == [n \in TraceNodes |-> CASE n = Route -> "endpoint"
                                      [] n \in {1, 2, 3, 6, 7} -> "function"
                                      [] n \in {4, 5} -> "file"
                                      [] n = 8 -> "struct"]

LOCAL E(from, kind, to) == [from |-> from, to |-> to, kind |-> kind]

(* Edges the analyzer can put between the first nodes. *)
TraceEdge ==
  {E(n, "exposes", Route) : n \in {1, 2, 4}}
  \cup [from : {1, 2, 3}, to : {1, 2, 3}, kind : {"calls"}]
  \cup {E(1, "calls", Route), E(4, "imports", 5)}
  \cup {E(4, "contains", 1), E(4, "contains", 2), E(5, "contains", 3), E(5, "contains", 6)}

(* Five different edges, a call of them once more. *)
WithParallel(links) ==
  LET twice == {CHOOSE e \in links : e.kind = "calls" \/ \A d \in links : d.kind # "calls"}
  IN  [id \in links \X {1} \cup twice \X {2} |-> id[1]]

(* Two handlers, a short and a long way to 6, and 7 behind it. *)
Diamond ==
  LET links == {E(1, "exposes", Route), E(2, "exposes", Route), E(2, "calls", 3),
                E(3, "calls", 6), E(1, "calls", 6), E(6, "calls", 7)}
  IN  [id \in links \X {1} |-> id[1]]

(* A class exposes the endpoint beside a function that calls it. *)
CalledClass ==
  LET links == {E(1, "exposes", Route), E(8, "exposes", Route), E(1, "calls", 8),
                E(8, "calls", 3), E(8, "contains", 2), E(1, "calls", 2)}
  IN  [id \in links \X {1} |-> id[1]]

TraceGraphs ==
  {Diamond, CalledClass} \cup {WithParallel(links) :
     links \in {s \in kSubset(5, TraceEdge) : \E e \in s : e.kind = "exposes"}}

TraceLimits == [depth : 0..2, nodes : {8}] \cup [depth : {2}, nodes : 2..3]

-----------------------------------------------------------------------------
(* Communities: four edges between five nodes; in half of the graphs one of *)
(* them is no coupling and the last node is a package.                      *)
NodeCount == 5

CoupledEdge == {e \in [from : 0..4, to : 0..4, kind : {"calls"}] : e.from # e.to}

ContainsEdge == [from : {0}, to : {1, 3}, kind : {"contains"}]

CoupledGraphs ==
  [table : {[e \in links |-> e] : links \in kSubset(4, CoupledEdge)}, packages : {{}}]
  \cup [table : {[e \in links \cup {c} |-> e] :
                    <<links, c>> \in kSubset(3, CoupledEdge) \X ContainsEdge},
        packages : {{4}}]

-----------------------------------------------------------------------------
(* The operations *)

VARIABLE mode

mcVars == <<mode, pathVars, pickVars, traceVars, unionVars>>

NoPath ==
  /\ net = <<>> /\ reached = <<>> /\ queue = <<>> /\ at = Nothing /\ left = {}
  /\ request = [source |-> 1, target |-> 1, direction |-> "out", relations |-> {},
                hops |-> 0, edges |-> 1]
  /\ work = 0 /\ cutHops = FALSE /\ phase = "idle" /\ answer = Nothing

NoPick ==
  /\ incident = <<>> /\ tests = {} /\ intent = "any" /\ max = 1
  /\ bucket = 1 /\ pos = 1 /\ taken = 0 /\ used = {} /\ picks = <<>>

NoTrace ==
  /\ table = <<>> /\ limit = [depth |-> 0, nodes |-> 1]
  /\ roots = <<>> /\ owners = <<>> /\ imports = {} /\ members = {}
  /\ ordered = <<>> /\ edges = {} /\ seeds = <<>> /\ waiting = <<>>
  /\ current = NoNode /\ remaining = {} /\ omitted = 0 /\ stage = "idle"

NoUnion ==
  /\ coupling = [table |-> <<>>, packages |-> {}] /\ unread = {}
  /\ parent = [n \in Indices |-> n] /\ components = <<>> /\ done = FALSE

-----------------------------------------------------------------------------
MCInit ==
  /\ mode \in Modes
  /\ \/ mode = "path" /\ PathInit /\ NoPick /\ NoTrace /\ NoUnion
     \/ mode = "related" /\ NoPath /\ PickInit /\ NoTrace /\ NoUnion
     \/ mode = "trace" /\ NoPath /\ NoPick /\ TraceInit /\ NoUnion
     \/ mode = "communities" /\ NoPath /\ NoPick /\ NoTrace /\ UnionInit

MCNext ==
  /\ UNCHANGED mode
  /\ \/ mode = "path" /\ PathNext /\ UNCHANGED <<pickVars, traceVars, unionVars>>
     \/ mode = "related" /\ PickNext /\ UNCHANGED <<pathVars, traceVars, unionVars>>
     \/ mode = "trace" /\ TraceNext /\ UNCHANGED <<pathVars, pickVars, unionVars>>
     \/ mode = "communities" /\ UnionNext /\ UNCHANGED <<pathVars, pickVars, traceVars>>

MCSpec == MCInit /\ [][MCNext]_mcVars
=============================================================================
