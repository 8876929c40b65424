--------------------------- MODULE RuntimeCycles ---------------------------
(* runtime_dependency_cycles (src/operations/health/graph): the cycles of   *)
(* files that need one another at run time. The dependencies of files and   *)
(* the calls of symbols are two digraphs; Kosaraju's two passes, with a     *)
(* stack of their own, take the strong components of each.                  *)
EXTENDS Integers, Sequences, FiniteSets, SequencesExt

CONSTANTS
  Files,    \* file nodes, numbered
  Symbols,  \* symbol nodes, numbered
  Owner,    \* the file that declares a symbol; a file is its own
  Channels, \* nodes without a file that messages go through
  Programs  \* edges and hidden files

Owned == Files \cup Symbols

(* `counts` says that an import is one of run time, in a language where it  *)
(* is executed, and that a call was resolved through an import.             *)
ProgramEdge ==
  [from : Owned, to : Owned, kind : {"imports", "calls", "mounts"}, counts : BOOLEAN]
  \cup [from : Owned, to : Channels, kind : {"publishes", "consumes"}, counts : {TRUE}]

ASSUME CyclesAssumption ==
  /\ Owned \subseteq Nat /\ IsFiniteSet(Owned) /\ Channels \cap Owned = {}
  /\ Owner \in [Owned -> Files] /\ \A f \in Files : Owner[f] = f
  /\ \A p \in Programs : p.edges \subseteq ProgramEdge /\ p.hidden \subseteq Files

VARIABLES
  program,    \* the graph
  digraph,    \* "files", then "calls"
  pairs,      \* its edges
  pass,       \* "order" and "assign", the passes; "done"
  met,        \* nodes met by the pass
  stack,      \* what the pass still has to do, the top last
  finished,   \* nodes in the order the first pass left them
  component,  \* nodes of the component the second pass is in
  cycles      \* sets of files

cycleVars == <<program, digraph, pairs, pass, met, stack, finished, component, cycles>>

Visible(node) == Owner[node] \notin program.hidden

Counted(kind) == {e \in program.edges : e.kind = kind /\ e.counts}

(* Who publishes to a channel needs those who consume from it.              *)
Transported ==
  {<<Owner[pair[1].from], Owner[pair[2].from]>> :
     pair \in {p \in Counted("publishes") \X Counted("consumes") : p[1].to = p[2].to}}

Dependencies ==
  {pair \in {<<Owner[e.from], Owner[e.to]>> : e \in Counted("imports") \cup Counted("mounts")}
            \cup Transported :
     pair[1] # pair[2] /\ Visible(pair[1]) /\ Visible(pair[2])}

(* Calls between symbols: "File cycles need a real cyclic call chain, not   *)
(* unrelated calls in both directions between their owning files."          *)
Calls ==
  {<<e.from, e.to>> : e \in {c \in Counted("calls") : Visible(c.from) /\ Visible(c.to)}}

Ends(edges) == {e[1] : e \in edges} \cup {e[2] : e \in edges}

Keys == Ends(pairs)

Successors(node) == {pair[2] : pair \in {p \in pairs : p[1] = node}}

Predecessors(node) == {pair[1] : pair \in {p \in pairs : p[2] = node}}

(* Pushed in falling order, so that the smallest is on top.                 *)
Pushed(nodes) ==
  LET falling == {pair \in nodes \X nodes : pair[1] > pair[2]}
  IN  [k \in 1..Cardinality(nodes) |->
         CHOOSE n \in nodes : Cardinality({m \in nodes : <<m, n>> \in falling}) = k - 1]

CyclesInit ==
  /\ program \in Programs
  /\ digraph = "files" /\ pairs = Dependencies /\ pass = "order"
  /\ met = {} /\ stack = <<>> /\ finished = <<>> /\ component = {} /\ cycles = {}

Entry(node, expanded) == [node |-> node, expanded |-> expanded]

Start ==
  /\ pass = "order" /\ stack = <<>> /\ Keys \ met # {}
  /\ stack' = <<Entry(CHOOSE n \in Keys \ met : \A m \in Keys \ met : n <= m, FALSE)>>
  /\ UNCHANGED <<program, digraph, pairs, pass, met, finished, component, cycles>>

(* A node is met once, pushes itself again under its neighbours, and is     *)
(* left when that second entry is popped.                                   *)
Visit ==
  /\ pass = "order" /\ stack # <<>>
  /\ LET top == Last(stack)
     IN  \/ /\ top.expanded
            /\ stack' = Front(stack) /\ finished' = Append(finished, top.node) /\ UNCHANGED met
         \/ /\ ~top.expanded /\ top.node \in met
            /\ stack' = Front(stack) /\ UNCHANGED <<met, finished>>
         \/ /\ ~top.expanded /\ top.node \notin met
            /\ met' = met \cup {top.node} /\ UNCHANGED finished
            /\ LET next == Pushed(Successors(top.node))
               IN  stack' = Append(Front(stack), Entry(top.node, TRUE))
                            \o [k \in DOMAIN next |-> Entry(next[k], FALSE)]
  /\ UNCHANGED <<program, digraph, pairs, pass, component, cycles>>

Turn ==
  /\ pass = "order" /\ stack = <<>> /\ Keys \subseteq met
  /\ pass' = "assign" /\ met' = {}
  /\ UNCHANGED <<program, digraph, pairs, stack, finished, component, cycles>>

(* Mutant of Assign: the nodes are taken in the order they were left.       *)
AssignFirst ==
  /\ pass = "assign" /\ stack = <<>> /\ component = {} /\ finished # <<>>
  /\ finished' = Tail(finished)
  /\ IF Head(finished) \in met THEN UNCHANGED <<met, stack>>
     ELSE met' = met \cup {Head(finished)} /\ stack' = <<Head(finished)>>
  /\ UNCHANGED <<program, digraph, pairs, pass, component, cycles>>

(* The node left last starts a component, if it is in none.                 *)
Assign ==
  /\ pass = "assign" /\ stack = <<>> /\ component = {} /\ finished # <<>>
  /\ finished' = Front(finished)
  /\ IF Last(finished) \in met THEN UNCHANGED <<met, stack>>
     ELSE met' = met \cup {Last(finished)} /\ stack' = <<Last(finished)>>
  /\ UNCHANGED <<program, digraph, pairs, pass, component, cycles>>

(* Against the edges, to what is in no component.                           *)
Gather ==
  /\ pass = "assign" /\ stack # <<>>
  /\ component' = component \cup {Last(stack)}
  /\ LET new == Predecessors(Last(stack)) \ met
     IN  met' = met \cup new /\ stack' = Front(stack) \o Pushed(new)
  /\ UNCHANGED <<program, digraph, pairs, pass, finished, cycles>>

(* The files of a component: one file is no cycle, nor are calls inside it. *)
Several(files) == Cardinality(files) > 1

FilesOf(nodes) == {Owner[n] : n \in nodes}

Close ==
  /\ pass = "assign" /\ stack = <<>> /\ component # {}
  /\ cycles' = cycles \cup {files \in {FilesOf(component)} : Several(files)}
  /\ component' = {}
  /\ UNCHANGED <<program, digraph, pairs, pass, met, stack, finished>>

Switch ==
  /\ pass = "assign" /\ stack = <<>> /\ component = {} /\ finished = <<>>
  /\ IF digraph = "files"
     THEN digraph' = "calls" /\ pairs' = Calls /\ pass' = "order" /\ met' = {}
     ELSE pass' = "done" /\ UNCHANGED <<digraph, pairs, met>>
  /\ UNCHANGED <<program, stack, finished, component, cycles>>

CyclesNext == Start \/ Visit \/ Turn \/ Assign \/ Gather \/ Close \/ Switch

CyclesSpec == CyclesInit /\ [][CyclesNext]_cycleVars

-----------------------------------------------------------------------------
(* Properties *)

(* One node leads to another over edges: every set that holds it and is     *)
(* closed under the edges holds the other.                                  *)
Leads(edges, one, other) ==
  \A near \in SUBSET Ends(edges) :
    one \in near /\ (\A e \in edges : e[1] \in near => e[2] \in near) => other \in near

(* Sets of nodes each of which leads to each other one, none left out.      *)
Strong(edges) ==
  {{m \in Ends(edges) : Leads(edges, n, m) /\ Leads(edges, m, n)} : n \in Ends(edges)}

ReliableCalls ==
  {<<c.from, c.to>> : c \in {d \in Counted("calls") : Visible(d.from) /\ Visible(d.to)}}

CallChains == {FilesOf(chain) : chain \in Strong(ReliableCalls)}

(* The files of every cycle of dependencies and of every cycle of calls     *)
(* that leaves its file, each maximal and each once, and nothing else: no   *)
(* order of starting nodes or neighbours splits a cycle or joins two.       *)
CyclesAreExact ==
  pass = "done" => cycles = {c \in Strong(Dependencies) \cup CallChains : Several(c)}
=============================================================================
