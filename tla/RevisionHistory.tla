--------------------------- MODULE RevisionHistory ---------------------------
(* git_history and graph_diff (src/operations/history/): the commits of a   *)
(* window, counted file by file and pair by pair, and two revision graphs   *)
(* compared node by node and edge by edge, with the edges rolled up to the  *)
(* files they connect. A path stands for its rank in the order of paths;    *)
(* an edge is all that it states. Of the lists of a comparison a sample is  *)
(* shown; the counts are of all.                                            *)
EXTENDS Integers, Sequences, FiniteSets, SequencesExt, FiniteSetsExt

CONSTANTS
  Histories,  \* the commits of a window and what is asked of them; two graphs
  PairedPaths \* how many paths of a commit are paired (250)

VARIABLES
  history,   \* the history and the graphs; {} outside a call
  part,      \* "commits", "diff", "done"; "idle" outside a call
  walked,    \* commits that were read
  frequency, \* how often a file changed
  coupling,  \* how often two files changed together
  rolled,    \* edges added and removed between two files
  compared   \* edges that were rolled up

historyVars == <<history, part, walked, frequency, coupling, rolled, compared>>

IsRevision(graph) ==
  /\ IsFiniteSet(graph.nodes) /\ IsFiniteSet(graph.edges)
  /\ \A m, n \in graph.nodes : m.id = n.id => m = n
  /\ \A e \in graph.edges : {e.from, e.to} \subseteq {n.id : n \in graph.nodes}

HistoriesAssumption ==
  /\ PairedPaths \in Nat
  /\ \A h \in Histories :
       /\ h.commits \in Seq([root : BOOLEAN, paths : SUBSET Nat])
       /\ \A k \in DOMAIN h.commits : IsFiniteSet(h.commits[k].paths)
       /\ \A p \in DOMAIN h.degrees : h.degrees[p] \in Nat
       /\ h.top \in Nat /\ h.pairs \in Nat /\ h.minimum \in Nat
       /\ IsRevision(h.baseline) /\ IsRevision(h.target)

ASSUME HistoriesAssumption

-----------------------------------------------------------------------------
(* analytics.rs                                                             *)

HistoryInit ==
  /\ history \in Histories
  /\ part = IF history.analytics THEN "commits" ELSE "diff"
  /\ walked = 0 /\ frequency = <<>> /\ coupling = <<>>
  /\ rolled = <<>> /\ compared = {}

(* changed_paths(): against the first parent; a root commit changes nothing. *)
ChangedPaths(commit) == IF commit.root THEN {} ELSE commit.paths

(* The first paths of a commit, in their order.                             *)
Paired(paths) == {p \in paths : Cardinality({q \in paths : q < p}) < PairedPaths}

PairsOf(commit) ==
  LET paths == Paired(ChangedPaths(commit))
  IN  {pair \in paths \X paths : pair[1] < pair[2]}

Tallied(counts, keys) ==
  [k \in DOMAIN counts \cup keys |->
     (IF k \in DOMAIN counts THEN counts[k] ELSE 0) + (IF k \in keys THEN 1 ELSE 0)]

ReadCommit ==
  /\ part = "commits" /\ walked < Len(history.commits)
  /\ walked' = walked + 1
  /\ frequency' = Tallied(frequency, ChangedPaths(history.commits[walked + 1]))
  /\ coupling' = Tallied(coupling, PairsOf(history.commits[walked + 1]))
  /\ UNCHANGED <<history, part, rolled, compared>>

(* file_degree(): the edges at the file, none for one the graph lacks.      *)
Degree(path) == IF path \in DOMAIN history.degrees THEN history.degrees[path] ELSE 0
Score(path) == frequency[path] * (Degree(path) + 1)

Hotter(p, q) == Score(p) > Score(q) \/ (Score(p) = Score(q) /\ p < q)
Hotspots == {p \in DOMAIN frequency : Cardinality({q \in DOMAIN frequency : Hotter(q, p)}) < history.top}

Often == {pair \in DOMAIN coupling : coupling[pair] >= history.minimum}
Closer(a, b) ==
  \/ coupling[a] > coupling[b]
  \/ coupling[a] = coupling[b] /\ (a[1] < b[1] \/ (a[1] = b[1] /\ a[2] < b[2]))
CochangePairs == {pair \in Often : Cardinality({q \in Often : Closer(q, pair)}) < history.pairs}

EndCommits ==
  /\ part = "commits" /\ walked = Len(history.commits)
  /\ part' = "diff"
  /\ UNCHANGED <<history, walked, frequency, coupling, rolled, compared>>

-----------------------------------------------------------------------------
(* diff.rs                                                                  *)

NodeIds(graph) == {n.id : n \in graph.nodes}
NodeOf(graph, id) == CHOOSE n \in graph.nodes : n.id = id
AddedNodes == NodeIds(history.target) \ NodeIds(history.baseline)
RemovedNodes == NodeIds(history.baseline) \ NodeIds(history.target)

(* nodes_differ(): the content hashes of a scan and of Git do not compare.  *)
Content(node) == [id |-> node.id, file |-> node.file, span |-> node.span]
ChangedNodes ==
  {id \in NodeIds(history.target) \cap NodeIds(history.baseline) :
     Content(NodeOf(history.target, id)) # Content(NodeOf(history.baseline, id))}

AddedEdges == history.target.edges \ history.baseline.edges
RemovedEdges == history.baseline.edges \ history.target.edges

(* Mutant of OwningFile: only the target is asked.                          *)
OwningFileNow(id) == IF id \in NodeIds(history.target) THEN NodeOf(history.target, id).file ELSE id

OwningFile(id) ==
  CASE id \in NodeIds(history.target) -> NodeOf(history.target, id).file
    [] id \in RemovedNodes -> NodeOf(history.baseline, id).file
    [] OTHER -> id

FilePair(edge) == <<OwningFile(edge.from), OwningFile(edge.to), edge.kind>>

(* What is still to roll up, the added edges before the removed ones.       *)
Uncompared == (AddedEdges \cup RemovedEdges) \ compared
NextEdge == CHOOSE e \in Uncompared : Uncompared \cap AddedEdges # {} => e \in AddedEdges

Weight(edge, edges) == IF edge \in edges THEN 1 ELSE 0

(* file_pairs(): one edge after the other, on its side.                     *)
Roll ==
  /\ part = "diff" /\ Uncompared # {}
  /\ LET pair == FilePair(NextEdge)
         old == IF pair \in DOMAIN rolled THEN rolled[pair] ELSE [added |-> 0, removed |-> 0]
         new == [added |-> old.added + Weight(NextEdge, AddedEdges),
                 removed |-> old.removed + Weight(NextEdge, RemovedEdges)]
     IN  rolled' = [k \in DOMAIN rolled \cup {pair} |-> IF k = pair THEN new ELSE rolled[k]]
  /\ compared' = compared \cup {NextEdge}
  /\ UNCHANGED <<history, part, walked, frequency, coupling>>

EndDiff ==
  /\ part = "diff" /\ Uncompared = {}
  /\ part' = "done"
  /\ UNCHANGED <<history, walked, frequency, coupling, rolled, compared>>

HistoryNext == ReadCommit \/ EndCommits \/ Roll \/ EndDiff
HistorySpec == HistoryInit /\ [][HistoryNext]_historyVars

-----------------------------------------------------------------------------
(* The commits among those that were read that hold both files of a pair    *)
(* among the paths that are paired.                                         *)
Holding(pair) ==
  {k \in DOMAIN history.commits : {pair[1], pair[2]} \subseteq Paired(ChangedPaths(history.commits[k]))}

(* A pair is counted in the commits that hold both of its files, and in no  *)
(* more than either changed in; no hotter file is left out of the hotspots  *)
(* and no closer pair out of the pairs (analytics.rs, analyze).             *)
CommitsAddUp ==
  part = "done" /\ history.analytics =>
    /\ \A pair \in CochangePairs :
         /\ coupling[pair] <= frequency[pair[1]] /\ coupling[pair] <= frequency[pair[2]]
         /\ coupling[pair] = Cardinality(Holding(pair))
    /\ \A hot \in Hotspots, p \in DOMAIN frequency \ Hotspots : Score(hot) >= Score(p)
    /\ \A near \in CochangePairs, pair \in Often \ CochangePairs : coupling[near] >= coupling[pair]

(* What the entries of the roll-up count on one side, together: an entry    *)
(* that counts n has n tokens.                                              *)
Total(side) == Cardinality(UNION {{k} \X (1..rolled[k][side]) : k \in DOMAIN rolled})

(* Where a graph places an edge: the files of its two ends, and its kind.   *)
Placed(graph, edge) == <<NodeOf(graph, edge.from).file, NodeOf(graph, edge.to).file, edge.kind>>

(* An end that both revisions have, in another file now than before.        *)
Moved(id) ==
  /\ id \in NodeIds(history.target) \cap NodeIds(history.baseline)
  /\ NodeOf(history.target, id).file # NodeOf(history.baseline, id).file

(* The removed edges with an end that moved: the code asks the target first *)
(* for the file of an end, so these alone may be counted for files that     *)
(* they did not connect.                                                    *)
Uprooted == {e \in RemovedEdges : Moved(e.from) \/ Moved(e.to)}

(* The churn rolled up to files is the difference of the two graphs, edge   *)
(* for edge. For two files it counts exactly the added edges that connect   *)
(* them in the target, and of the removed edges those that connected them   *)
(* in the baseline: no other, and every one, but for the uprooted ones. A   *)
(* node of the target that is not named has an equal in the baseline        *)
(* (diff.rs, compare, file_pairs, owning_file).                             *)
DiffAddsUp ==
  part = "done" =>
    /\ Total("added") - Total("removed")
         = Cardinality(history.target.edges) - Cardinality(history.baseline.edges)
    /\ Total("added") = 0 /\ Total("removed") = 0 => history.target.edges = history.baseline.edges
    /\ \A e \in AddedEdges : Placed(history.target, e) \in DOMAIN rolled
    /\ \A e \in RemovedEdges \ Uprooted : Placed(history.baseline, e) \in DOMAIN rolled
    /\ \A k \in DOMAIN rolled :
         LET gone == Cardinality({e \in RemovedEdges \ Uprooted : Placed(history.baseline, e) = k})
         IN  /\ rolled[k].added = Cardinality({e \in AddedEdges : Placed(history.target, e) = k})
             /\ rolled[k].removed \in gone..(gone + Cardinality(Uprooted))
    /\ \A n \in history.target.nodes :
         n.id \in AddedNodes \cup ChangedNodes \/ \E m \in history.baseline.nodes : Content(m) = Content(n)
    /\ Cardinality(AddedNodes) - Cardinality(RemovedNodes)
         = Cardinality(history.target.nodes) - Cardinality(history.baseline.nodes)

(* The answers of git_history and graph_diff add up.                        *)
HistoryAddsUp == CommitsAddUp /\ DiffAddsUp
=============================================================================
