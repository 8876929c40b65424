--------------------------- MODULE EndpointTrace ---------------------------
(* trace_endpoint (src/operations/graph/trace): the calls behind an HTTP    *)
(* endpoint. The endpoint and its handlers come first, then what a route    *)
(* file imports with the functions in it, then breadth first what these     *)
(* call, bounded in depth and in nodes.                                     *)
(*                                                                         *)
(* The order in which a node's edges are listed is left open.               *)
EXTENDS Integers, Sequences, FiniteSets, Functions

CONSTANTS
  Vertices,    \* node indices
  Endpoint,    \* the one that was found
  KindOf,      \* the kind of every node
  CallGraphs,  \* graphs traced, by their edge tables
  Bounds,      \* limits asked for
  NoNode       \* no node

ASSUME TraceAssumption ==
  /\ IsFiniteSet(Vertices) /\ Endpoint \in Vertices
  /\ KindOf \in [Vertices -> {"endpoint", "function", "struct", "file", "package"}]
  /\ KindOf[Endpoint] = "endpoint"
  /\ \A g \in CallGraphs :
       Range(g) \subseteq [from : Vertices, to : Vertices,
                          kind : {"exposes", "calls", "imports", "contains"}]
  /\ Bounds \subseteq [depth : Nat, nodes : Nat \ {0}]
  /\ NoNode \notin Vertices

VARIABLES
  table,      \* the graph
  limit,      \* what was asked
  roots,      \* handlers still to add to the answer
  owners,     \* handlers still to take seeds from
  imports,    \* imports of the route file looked at, still to follow
  members,    \* contents of the imported file, still to add
  ordered,    \* nodes of the answer
  edges,      \* edges of the answer
  seeds,      \* functions the calls start from
  waiting,    \* functions to expand, with their depths
  current,    \* the function being expanded, and its depth
  remaining,  \* its edges still to look at
  omitted,    \* how often the node limit left a node out
  stage       \* roots, seeds, calls, expanding or answered

asked == <<table, limit>>
traceVars == <<asked, roots, owners, imports, members, ordered, edges, seeds, waiting, current, remaining,
               omitted, stage>>

Seen == Range(ordered)

Structural(n) == KindOf[n] \in {"endpoint", "package"}

From(n, kind) == {e \in DOMAIN table : table[e].from = n /\ table[e].kind = kind}

(* exposing_handlers(): functions, then structs, then files, each once. *)
Handlers(g) == {g[e].from : e \in {d \in DOMAIN g : /\ g[d].kind = "exposes"
                                                   /\ g[d].to = Endpoint
                                                   /\ ~Structural(g[d].from)}}

Rank(n) == CASE KindOf[n] = "function" -> 0 [] KindOf[n] = "struct" -> 1 [] OTHER -> 2

InRank(list) == \A i, j \in DOMAIN list : i < j => Rank(list[i]) <= Rank(list[j])

Full == Len(ordered) >= limit.nodes

Held(n) == n \in Seen \/ ~Full

(* push_node(): a node beyond the limit is counted instead. *)
Push(n) ==
  /\ ordered' = IF n \in Seen \/ Full THEN ordered ELSE Append(ordered, n)
  /\ omitted' = IF Held(n) THEN omitted ELSE omitted + 1

TraceInit ==
  /\ table \in CallGraphs /\ limit \in Bounds
  /\ roots \in [1..Cardinality(Handlers(table)) -> Handlers(table)]
  /\ IsInjective(roots) /\ Range(roots) = Handlers(table) /\ InRank(roots)
  /\ owners = roots /\ imports = {} /\ members = {}
  /\ ordered = <<Endpoint>> /\ edges = {} /\ seeds = <<>> /\ waiting = <<>>
  /\ current = NoNode /\ remaining = {} /\ omitted = 0 /\ stage = "roots"

-----------------------------------------------------------------------------
(* The endpoint's side *)

AddHandler ==
  /\ stage = "roots" /\ roots # <<>>
  /\ Push(Head(roots)) /\ roots' = Tail(roots)
  /\ UNCHANGED <<asked, owners, imports, members, edges, seeds, waiting, current, remaining, stage>>

(* retain_expose_edges(): also of a handler that did not fit. *)
Expose ==
  /\ stage = "roots" /\ roots = <<>>
  /\ edges' = {e \in DOMAIN table : /\ table[e].kind = "exposes" /\ table[e].to = Endpoint
                                    /\ table[e].from \in Handlers(table)}
  /\ stage' = "seeds"
  /\ UNCHANGED <<asked, roots, owners, imports, members, ordered, seeds, waiting, current, remaining, omitted>>

(* A function is a seed itself; of a route file the imports are followed.   *)
TakeOwner ==
  /\ stage = "seeds" /\ imports = {} /\ members = {} /\ owners # <<>>
  /\ owners' = Tail(owners)
  /\ IF KindOf[Head(owners)] = "function"
     THEN seeds' = Append(seeds, Head(owners)) /\ UNCHANGED imports
     ELSE /\ imports' = IF KindOf[Head(owners)] = "file" THEN From(Head(owners), "imports") ELSE {}
          /\ UNCHANGED seeds
  /\ UNCHANGED <<asked, roots, members, ordered, edges, waiting, current, remaining, omitted, stage>>

FollowImport ==
  /\ stage = "seeds" /\ members = {}
  /\ \E e \in imports :
       /\ imports' = imports \ {e}
       /\ IF Structural(table[e].to) THEN UNCHANGED <<ordered, omitted, edges, members>>
          ELSE /\ Push(table[e].to) /\ edges' = edges \cup {e}
               /\ members' = IF Held(table[e].to) THEN From(table[e].to, "contains") ELSE {}
  /\ UNCHANGED <<asked, roots, owners, seeds, waiting, current, remaining, stage>>

AddMember ==
  /\ stage = "seeds"
  /\ \E e \in members :
       /\ members' = members \ {e}
       /\ IF KindOf[table[e].to] # "function" THEN UNCHANGED <<ordered, omitted, edges, seeds>>
          ELSE /\ Push(table[e].to) /\ edges' = edges \cup {e}
               /\ seeds' = IF Held(table[e].to) THEN Append(seeds, table[e].to) ELSE seeds
  /\ UNCHANGED <<asked, roots, owners, imports, waiting, current, remaining, stage>>

-----------------------------------------------------------------------------
(* The calls *)

Prepared == stage = "seeds" /\ owners = <<>> /\ imports = {} /\ members = {}

(* A seed is queued if it fits. *)
QueueSeed ==
  /\ Prepared /\ seeds # <<>>
  /\ seeds' = Tail(seeds)
  /\ waiting' = IF Head(seeds) \in Seen THEN Append(waiting, [node |-> Head(seeds), depth |-> 0])
                ELSE waiting
  /\ UNCHANGED <<asked, roots, owners, imports, members, ordered, edges, current, remaining, omitted, stage>>

Start ==
  /\ Prepared /\ seeds = <<>>
  /\ stage' = "calls"
  /\ UNCHANGED <<asked, roots, owners, imports, members, ordered, edges, seeds, waiting, current, remaining,
                 omitted>>

(* Mutant of Take: the function queued last is expanded first. *)
TakeLast ==
  /\ stage = "calls" /\ waiting # <<>>
  /\ waiting' = SubSeq(waiting, 1, Len(waiting) - 1)
  /\ IF waiting[Len(waiting)].depth >= limit.depth THEN UNCHANGED <<current, remaining, stage>>
     ELSE /\ current' = waiting[Len(waiting)] /\ stage' = "expanding"
          /\ remaining' = From(waiting[Len(waiting)].node, "calls")
  /\ UNCHANGED <<asked, roots, owners, imports, members, ordered, edges, seeds, omitted>>

(* At the depth limit a function is passed over, whatever it calls.         *)
Take ==
  /\ stage = "calls" /\ waiting # <<>>
  /\ waiting' = Tail(waiting)
  /\ IF Head(waiting).depth >= limit.depth THEN UNCHANGED <<current, remaining, stage>>
     ELSE /\ current' = Head(waiting) /\ stage' = "expanding"
          /\ remaining' = From(Head(waiting).node, "calls")
  /\ UNCHANGED <<asked, roots, owners, imports, members, ordered, edges, seeds, omitted>>

(* A call of the function; its edge is kept even when its target does not   *)
(* fit.                                                                     *)
Call ==
  /\ stage = "expanding"
  /\ \E e \in remaining :
       LET target == table[e].to
       IN  /\ remaining' = remaining \ {e}
           /\ IF Structural(target) THEN UNCHANGED <<ordered, omitted, edges, waiting>>
              ELSE /\ edges' = edges \cup {e}
                   /\ Push(target)
                   /\ waiting' = IF target \in Seen \/ Full THEN waiting
                                 ELSE Append(waiting, [node |-> target, depth |-> current.depth + 1])
  /\ UNCHANGED <<asked, roots, owners, imports, members, seeds, current, stage>>

Followed ==
  /\ stage = "expanding" /\ remaining = {}
  /\ current' = NoNode /\ stage' = "calls"
  /\ UNCHANGED <<asked, roots, owners, imports, members, ordered, edges, seeds, waiting, remaining, omitted>>

Answer ==
  /\ stage = "calls" /\ waiting = <<>>
  /\ stage' = "answered"
  /\ UNCHANGED <<asked, roots, owners, imports, members, ordered, edges, seeds, waiting, current, remaining,
                 omitted>>

TraceNext ==
  \/ AddHandler \/ Expose \/ TakeOwner \/ FollowImport \/ AddMember
  \/ QueueSeed \/ Start \/ Take \/ Call \/ Followed \/ Answer

TraceSpec == TraceInit /\ [][TraceNext]_traceVars

-----------------------------------------------------------------------------
(* Properties *)

(* completeness.complete *)
Complete == stage = "answered" /\ omitted = 0

Targets(n, kind) == {table[e].to : e \in From(n, kind)}

Functions(S) == {n \in S : KindOf[n] = "function"}

(* Files a route file of the endpoint imports. *)
ImportedFiles ==
  {n \in UNION {Targets(h, "imports") : h \in {h \in Handlers(table) : KindOf[h] = "file"}} :
     ~Structural(n)}

Sources ==
  Functions(Handlers(table)) \cup Functions(UNION {Targets(n, "contains") : n \in ImportedFiles})

(* Handlers that are classes, and what a route file imports, are shown for  *)
(* themselves: no call is followed from them, even when one leads to them.  *)
Listed == ({Endpoint} \cup Handlers(table) \cup ImportedFiles) \ Sources

(* Where the calls of some nodes lead. *)
Callees(S) == {n \in UNION {Targets(m, "calls") : m \in S \ Listed} : ~Structural(n)}

(* What the sources call within so many calls. *)
Called(depth) ==
  LET called[k \in 0..depth] ==
        IF k = 0 THEN Sources ELSE called[k - 1] \cup Callees(called[k - 1])
  IN  called[depth]

(* An answer that calls itself complete has exactly the nodes within the    *)
(* depth asked for: no node that is reached twice, over an import and a     *)
(* call or over a longer way first, is missing or left unexpanded.          *)
CompleteIsExact ==
  Complete => Seen = {Endpoint} \cup Handlers(table) \cup ImportedFiles \cup Called(limit.depth)

(* No node is there twice or beyond the limit, and what is there was called *)
(* from a node that is there as well: the calls of an answer hang together. *)
(* The edges of a complete answer join nodes of the answer.                 *)
AnswerHangsTogether ==
  /\ IsInjective(ordered) /\ Len(ordered) <= limit.nodes
  /\ Complete => \A e \in edges : table[e].from \in Seen /\ table[e].to \in Seen
  /\ stage = "answered" =>
       \A e \in edges : table[e].kind = "calls" => table[e].from \in Seen

(* A trace is what the depth allows if it says so, and one piece anyway.    *)
TraceIsExact == CompleteIsExact /\ AnswerHangsTogether
=============================================================================
