------------------------ MODULE ArchitectureRatchet ------------------------
(* verify_architecture (src/operations/architecture): the dependency rules  *)
(* of a contract evaluated over the graph, and the ratchet that lets the    *)
(* violations of its baseline pass. Between two verifications the code      *)
(* changes, and the team writes what was found into the baseline or accepts *)
(* it as an exception.                                                      *)
EXTENDS Integers, Sequences, FiniteSets

CONSTANTS
  NodeCount,      \* nodes of the graph, numbered from 1
  FileAtNode,     \* the file of a node that has one
  ComponentOf,    \* the component of a file that is in one
  PossibleEdges,  \* edges the code may have: [from, to, kind], in their order
  Contracts,      \* the dependency rules of a contract, in their order
  Beginnings,     \* the edges the code may begin with
  MaxEdits,       \* bound on the changes of the code
  None            \* no component, no node, no report

Rule == [id : STRING, action : {"forbid", "allow_only", "require"},
         reach : {"direct", "transitive"}, from : SUBSET STRING, to : SUBSET STRING,
         kinds : SUBSET STRING, severity : {"error", "warn"}]

Nodes == 1..NodeCount

ASSUME RatchetAssumption ==
  /\ NodeCount \in Nat /\ DOMAIN FileAtNode \subseteq Nodes
  /\ PossibleEdges \in Seq([from : Nodes, to : Nodes, kind : STRING])
  /\ Contracts \subseteq Seq(Rule)
  /\ \A c \in Contracts : \A k \in DOMAIN c :
       c[k].action = "allow_only" => c[k].reach = "direct"
  /\ Beginnings \subseteq SUBSET DOMAIN PossibleEdges /\ MaxEdits \in Nat
  /\ None \notin STRING \cup Nodes

VARIABLES
  rules,       \* the rules of the contract
  edges,       \* the edges of the code
  baseline,    \* fingerprints of the baseline
  exceptions,  \* accepted fingerprints
  report,      \* the last verification, None when the code has changed since
  edits

ratchetVars == <<rules, edges, baseline, exceptions, report, edits>>

RatchetInit ==
  /\ rules \in Contracts /\ edges \in Beginnings
  /\ baseline = {} /\ exceptions = {} /\ report = None /\ edits = 0

(* component_for() of the file of a node. *)
Component(node) ==
  IF node \in DOMAIN FileAtNode /\ FileAtNode[node] \in DOMAIN ComponentOf
  THEN ComponentOf[FileAtNode[node]] ELSE None

(* rule_selects_edge() *)
Selects(rule, k) == "any" \in rule.kinds \/ PossibleEdges[k].kind \in rule.kinds

-----------------------------------------------------------------------------
(* Direct rules: an edge between two components.                            *)

Governs(rule, k) ==
  LET from == Component(PossibleEdges[k].from)
      to == Component(PossibleEdges[k].to)
  IN  /\ from # None /\ to # from /\ from \in rule.from
      /\ \/ rule.action = "forbid" /\ to \in rule.to
         \/ rule.action = "allow_only" /\ to \notin rule.to

BetweenFiles(k) == {PossibleEdges[k].from, PossibleEdges[k].to} \subseteq DOMAIN FileAtNode

(* The fingerprints of the edges a rule does not allow.                     *)
Direct(rule) ==
  {<<rule.id, "edge", PossibleEdges[k].from, PossibleEdges[k].to, PossibleEdges[k].kind>> :
     k \in {j \in edges : /\ rule.reach = "direct" /\ BetweenFiles(j)
                          /\ Selects(rule, j) /\ Governs(rule, j)}}

-----------------------------------------------------------------------------
(* Reachability: from all nodes of a file, breadth first over the edges a   *)
(* rule selects, to the first node in one of its target components.         *)

Sources(rule) == {FileAtNode[n] : n \in {m \in DOMAIN FileAtNode : Component(m) \in rule.from}}

IsTarget(rule, node) == Component(node) \in rule.to

(* A node is met: it waits to be expanded.                                  *)
Met(search, node, depth) ==
  [seen |-> search.seen \cup {node}, found |-> search.found,
   queue |-> Append(search.queue, [node |-> node, depth |-> depth])]

(* The nodes of the file, in their order.                                   *)
Seeded(file) ==
  LET seeded[n \in 0..NodeCount] ==
        IF n = 0 THEN [seen |-> {}, found |-> None, queue |-> <<>>]
        ELSE IF n \in DOMAIN FileAtNode /\ FileAtNode[n] = file THEN Met(seeded[n - 1], n, 0)
        ELSE seeded[n - 1]
  IN  seeded[NodeCount]

(* One edge of the graph, while an item is expanded.                        *)
Stepped(rule, item, search, k) ==
  LET node == PossibleEdges[k].to
      next == Met(search, node, item.depth + 1)
  IN  IF \/ k \notin edges \/ PossibleEdges[k].from # item.node
         \/ search.found # None \/ ~Selects(rule, k) \/ node \in search.seen
      THEN search
      ELSE [next EXCEPT !.found = IF IsTarget(rule, node) THEN node ELSE None]

(* An item leaves the queue, and its edges are followed within the limit.   *)
Expansion(rule, limit, search) ==
  LET item == Head(search.queue)
      followed[k \in 0..Len(PossibleEdges)] ==
        IF k = 0 THEN [search EXCEPT !.queue = Tail(@)]
        ELSE Stepped(rule, item, followed[k - 1], k)
  IN  IF search.found # None \/ search.queue = <<>> THEN search
      ELSE followed[IF item.depth >= limit THEN 0 ELSE Len(PossibleEdges)]

(* shortest_path(): the target found first. No node waits twice, so that    *)
(* the queue is empty after as many expansions as there are nodes.          *)
ShortestPath(rule, file, limit) ==
  LET search[n \in 0..NodeCount] ==
        IF n = 0 THEN Seeded(file) ELSE Expansion(rule, limit, search[n - 1])
  IN  search[NodeCount].found

(* One edge for a direct rule, and no limit, which is that of all nodes,    *)
(* for a transitive one.                                                    *)
Hops(rule) ==
  IF rule.action = "require" /\ rule.reach = "direct" THEN 1 ELSE NodeCount

(* A file without a path to what it requires.                               *)
Required(rule) ==
  {<<rule.id, "required", file>> :
     file \in {f \in Sources(rule) : /\ rule.action = "require"
                                    /\ ShortestPath(rule, f, Hops(rule)) = None}}

(* A file with a path to what it must not need, and the nearest of that.    *)
Forbidden(rule) ==
  {<<rule.id, "transitive_forbid", file, FileAtNode[ShortestPath(rule, file, Hops(rule))]>> :
     file \in {f \in Sources(rule) : /\ rule.action = "forbid" /\ rule.reach = "transitive"
                                    /\ ShortestPath(rule, f, Hops(rule)) # None}}

-----------------------------------------------------------------------------
(* The ratchet *)

Reached(rule) == Required(rule) \cup Forbidden(rule)

(* One violation for each fingerprint: of rules with one id the first keeps *)
(* that of an edge, the last that of a file.                                *)
Violations ==
  UNION {{[rule |-> rules[k], print |-> p] :
            p \in {q \in Direct(rules[k]) : \A j \in DOMAIN rules : j < k => q \notin Direct(rules[j])}
                  \cup {q \in Reached(rules[k]) :
                          \A j \in DOMAIN rules : j > k => q \notin Reached(rules[j])}} :
         k \in DOMAIN rules}

Prints(findings) == {v.print : v \in findings}

(* Mutant of Judged: the baseline covers a rule, not a finding.             *)
JudgedByRule ==
  LET active == {v \in Violations : v.print \notin exceptions}
      unknown == {v \in active : \A print \in baseline : print[1] # v.rule.id}
      new == {v \in unknown : v.rule.severity # "warn"}
  IN  [state |-> IF new = {} THEN "PASS" ELSE "BLOCKED",
       new |-> Prints(new), existing |-> Prints(active \ unknown),
       warnings |-> Prints(unknown \ new), fixed |-> baseline \ Prints(Violations)]

(* verify(): accepted findings are left out, then those of the baseline,    *)
(* then those of rules that only warn; what is left blocks.                 *)
Judged ==
  LET active == {v \in Violations : v.print \notin exceptions}
      unknown == {v \in active : v.print \notin baseline}
      new == {v \in unknown : v.rule.severity # "warn"}
  IN  [state |-> IF new = {} THEN "PASS" ELSE "BLOCKED",
       new |-> Prints(new), existing |-> Prints(active \ unknown),
       warnings |-> Prints(unknown \ new), fixed |-> baseline \ Prints(Violations)]

Verify ==
  /\ report = None
  /\ report' = Judged
  /\ UNCHANGED <<rules, edges, baseline, exceptions, edits>>

(* The code changes: an edge comes or goes.                                 *)
Edit ==
  /\ report # None /\ edits < MaxEdits
  /\ \E k \in DOMAIN PossibleEdges : edges' = IF k \in edges THEN edges \ {k} ELSE edges \cup {k}
  /\ report' = None /\ edits' = edits + 1
  /\ UNCHANGED <<rules, baseline, exceptions>>

(* The team writes what was found new into the baseline.                    *)
Ratchet ==
  /\ report # None /\ report.new # {}
  /\ baseline' = baseline \cup report.new
  /\ report' = None
  /\ UNCHANGED <<rules, edges, exceptions, edits>>

(* The team accepts one finding as an exception.                            *)
Except ==
  /\ report # None
  /\ \E print \in report.new : exceptions' = exceptions \cup {print}
  /\ report' = None
  /\ UNCHANGED <<rules, edges, baseline, edits>>

RatchetNext == Verify \/ Edit \/ Ratchet \/ Except

RatchetSpec == RatchetInit /\ [][RatchetNext]_ratchetVars

-----------------------------------------------------------------------------
(* Properties *)

(* The nodes a file depends on within so many edges of a rule.              *)
Needed(rule, file, hops) ==
  LET Near[h \in 0..hops] ==
        IF h = 0 THEN {n \in DOMAIN FileAtNode : FileAtNode[n] = file}
        ELSE LET near == Near[h - 1]
             IN  near \cup {PossibleEdges[k].to :
                              k \in {j \in edges : PossibleEdges[j].from \in near /\ Selects(rule, j)}}
  IN  Near[hops]

Others(rule, file, hops) ==
  {n \in Needed(rule, file, hops) \cap DOMAIN FileAtNode :
     IsTarget(rule, n) /\ FileAtNode[n] # file}

Verified == report # None

(* A rule that blocks; one that shares its id with a rule that only warns   *)
(* may lose its findings to that.                                           *)
Blocking ==
  {k \in DOMAIN rules : \A j \in DOMAIN rules :
                          rules[j].id = rules[k].id => rules[j].severity = "error"}

Accepted == baseline \cup exceptions

(* While nothing has been accepted PASS means that the rules hold: no file  *)
(* reaches what it must not, over any number of edges and through files of  *)
(* any component, every file that needs something reaches it within the     *)
(* hops of its rule, and no edge leaves a component against a direct rule.  *)
PassMeansRulesHold ==
  Verified /\ Accepted = {} /\ report.state = "PASS" =>
    \A k \in Blocking :
      LET rule == rules[k]
      IN  /\ rule.action = "require" =>
               \A file \in Sources(rule) :
                 Others(rule, file, IF rule.reach = "direct" THEN 1 ELSE NodeCount) # {}
          /\ rule.action = "forbid" /\ rule.reach = "transitive" =>
               \A file \in Sources(rule) : Others(rule, file, NodeCount) = {}
          /\ rule.reach = "direct" =>
               \A e \in edges : BetweenFiles(e) => ~(Selects(rule, e) /\ Governs(rule, e))

(* What is reported of a transitive rule is one of the nearest targets of   *)
(* the file ("a deterministic shortest file path", architecture-firewall.md)*)
NearestIsReported ==
  Verified =>
    \A v \in Violations : v.print[2] = "transitive_forbid" =>
      \E hops \in 1..NodeCount :
        /\ Others(v.rule, v.print[3], hops - 1) = {}
        /\ \E n \in Others(v.rule, v.print[3], hops) : FileAtNode[n] = v.print[4]

(* A file none of whose findings was ever accepted blocks as soon as it     *)
(* needs what it must not: what was accepted of other files, or of other    *)
(* rules, does not cover it.                                                *)
CleanFilesAreGuarded ==
  Verified =>
    \A k \in Blocking :
      LET rule == rules[k]
      IN  rule.action = "forbid" /\ rule.reach = "transitive" =>
            \A file \in Sources(rule) :
              /\ Others(rule, file, NodeCount) # {}
              /\ \A print \in Accepted :
                   print[1] = rule.id /\ print[2] = "transitive_forbid" => print[3] # file
              => report.state = "BLOCKED"

(* A contract may be relied on while the code and the accepted findings     *)
(* change: PASS means that its rules hold, what is reported is the nearest  *)
(* violation, and what was accepted covers no file it was not accepted of.  *)
RatchetHolds == PassMeansRulesHold /\ NearestIsReported /\ CleanFilesAreGuarded
=============================================================================
