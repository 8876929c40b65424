---------------------------- MODULE TestSelection ----------------------------
(* select_tests (src/operations/workflow/select_tests.rs): the files that   *)
(* changed, as the caller lists them or as Git and the scan of the worktree *)
(* show them (workflow/change/files.rs, history/revision.rs), and the test  *)
(* suites each of them asks for, by name and by a bounded reverse walk.     *)
(* The order of a walk and its other limits are those of GraphWalk.         *)
EXTENDS Integers, Sequences, FiniteSets, SequencesExt, FiniteSetsExt

CONSTANTS
  Paths,       \* of files, scanned or not
  Selections,  \* what is asked, the two sides of the change, the graph
  NoFile       \* an absent argument, no file

VARIABLES
  request,     \* the one that is answered
  stage,       \* "files", "walk", "done" or "error"; "idle" outside a call
  listed,      \* the changed files
  considered,  \* how many of them have been looked at
  waiting,     \* nodes of the walk at hand that are not expanded yet
  reached,     \* the nodes it has met
  cutShort,    \* files whose walk met its bound
  reasons      \* why suites are selected

selectionVars == <<request, stage, listed, considered, waiting, reached, cutShort, reasons>>

(* Both revisions, the worktree and the graph are about known files.        *)
SelectionsAssumption ==
  /\ IsFiniteSet(Paths) /\ NoFile \notin Paths
  /\ \A r \in Selections :
       /\ r.files = NoFile \/ r.files \in Seq(Paths)
       /\ r.target \in Paths \cup {NoFile}
       /\ r.diff = NoFile \/ \A k \in DOMAIN r.diff : r.diff[k].path \in Paths \cup {NoFile}
       /\ DOMAIN r.base \subseteq Paths /\ DOMAIN r.disk \subseteq Paths /\ r.scanned \subseteq Paths
       /\ r.head = NoFile \/ DOMAIN r.head \subseteq Paths
       /\ r.suites \subseteq Paths /\ r.nodes \subseteq Paths
       /\ r.edges \subseteq [from : Paths, to : Paths]
       /\ r.depth \in Nat /\ r.max \in Nat /\ r.shown \in Nat

ASSUME SelectionsAssumption

-----------------------------------------------------------------------------
(* files.rs: the files the caller names; a target and a list must agree,    *)
(* and both go before a diff.                                               *)

DiffFiles == {l.path : l \in {k \in Range(request.diff) : k.mark \in {"+++", "---", "diff"} /\ k.path # NoFile}}
Disagree == request.files # NoFile /\ request.target # NoFile /\ request.files # <<request.target>>
Explicit ==
  CASE request.files # NoFile -> request.files
    [] request.files = NoFile /\ request.target # NoFile -> <<request.target>>
    [] request.files = NoFile /\ request.target = NoFile /\ request.diff # NoFile -> SetToSeq(DiffFiles)
    [] OTHER -> NoFile

(* history/mod.rs, changes(): two revisions; revision.rs: a revision and    *)
(* the worktree. The scan is the one of the state, the disk is read now.    *)
Differing(left, right) ==
  {f \in DOMAIN left \cup DOMAIN right : ~(f \in DOMAIN left /\ f \in DOMAIN right /\ left[f] = right[f])}

(* Git's status: what is tracked and differs, what is neither tracked nor   *)
(* ignored.                                                                 *)
Status ==
  {f \in Differing(request.base, request.disk) : f \in DOMAIN request.base \/ f \notin request.ignored}

Unscanned == DOMAIN request.base \ request.scanned
Untracked == request.scanned \ DOMAIN request.base

(* Mutant of AgainstHead: files that are no longer scanned are forgotten.   *)
AgainstHeadScanned == (Status \cap request.scanned) \cup Untracked

AgainstHead == Status \cup Unscanned \cup Untracked
Unreadable == {f \in request.scanned \cap DOMAIN request.base : f \notin DOMAIN request.disk}
AgainstBase ==
  {f \in request.scanned \cap DOMAIN request.base : request.disk[f] # request.base[f]} \cup Unscanned \cup Untracked

(* The files to look at; without any the call has failed.                   *)
OnWorktree == ~Disagree /\ Explicit = NoFile /\ request.head = NoFile
Refused == Disagree \/ (OnWorktree /\ ~request.baseIsHead /\ Unreadable # {})
Asked ==
  CASE Refused -> <<>>
    [] ~Refused /\ Explicit # NoFile -> Explicit
    [] ~Refused /\ ~OnWorktree /\ Explicit = NoFile -> SetToSeq(Differing(request.base, request.head))
    [] OTHER -> SetToSeq(IF request.baseIsHead THEN AgainstHead ELSE AgainstBase)

SelectionInit ==
  /\ request \in Selections
  /\ stage = (IF Refused THEN "error" ELSE "files") /\ listed = Asked /\ considered = 0
  /\ waiting = <<>> /\ reached = {} /\ cutShort = {} /\ reasons = {}

-----------------------------------------------------------------------------
(* select_tests.rs                                                          *)

Reason(suite, kind, via, distance) == [suite |-> suite, kind |-> kind, via |-> via, distance |-> distance]
File == listed[considered]

(* select_by_name(): the suites whose own name, without its marker, is the  *)
(* name of the file.                                                        *)
ByName(f) ==
  {Reason(s, "name_convention", f, 1) :
     s \in {t \in request.suites \cap request.nodes : request.covers[t] = request.stem[f]}}

(* One changed file: a suite stands for itself, any other file asks for     *)
(* suites by its name and, when the graph knows it, by a walk.              *)
NextFile ==
  /\ stage = "files" /\ considered < Len(listed)
  /\ considered' = considered + 1
  /\ LET f == listed[considered + 1]
     IN  \/ /\ f \in request.suites
            /\ reasons' = reasons \cup {Reason(f, "changed_test", f, 0)}
            /\ UNCHANGED <<stage, waiting, reached>>
         \/ /\ f \notin request.suites /\ reasons' = reasons \cup ByName(f)
            /\ f \notin request.nodes /\ UNCHANGED <<stage, waiting, reached>>
         \/ /\ f \notin request.suites /\ reasons' = reasons \cup ByName(f)
            /\ f \in request.nodes
            /\ stage' = "walk" /\ waiting' = <<f>> /\ reached' = {[node |-> f, distance |-> 0]}
  /\ UNCHANGED <<request, listed, cutShort>>

(* graph/query.rs, dependents(): one more node than asked for, the file.    *)
Distance(n) == (CHOOSE s \in reached : s.node = n).distance
Reached == {s.node : s \in reached}
NeededBy(nodes) == {e.from : e \in {d \in request.edges : d.to \in nodes}}
Unmet(n) == IF Distance(n) >= request.depth THEN {} ELSE NeededBy({n}) \ Reached

Expand ==
  /\ stage = "walk" /\ waiting # <<>>
  /\ LET n == Head(waiting)
         room == request.max + 1 - Cardinality(reached)
     IN  \E some \in SUBSET Unmet(n) :
           /\ Cardinality(some) = Min({room, Cardinality(Unmet(n))})
           /\ waiting' = Tail(waiting) \o SetToSeq(some)
           /\ reached' = reached \cup {[node |-> m, distance |-> Distance(n) + 1] : m \in some}
           /\ cutShort' = IF some # Unmet(n) THEN cutShort \cup {File} ELSE cutShort
  /\ UNCHANGED <<request, stage, listed, considered, reasons>>

EndWalk ==
  /\ stage = "walk" /\ waiting = <<>>
  /\ stage' = "files" /\ reached' = {}
  /\ reasons' = reasons \cup {Reason(s.node, "dependent", File, s.distance) : s \in {t \in reached : t.node \in request.suites}}
  /\ UNCHANGED <<request, listed, considered, waiting, cutShort>>

Finish ==
  /\ stage = "files" /\ considered = Len(listed)
  /\ stage' = "done"
  /\ UNCHANGED <<request, listed, considered, waiting, reached, cutShort, reasons>>

SelectionNext == NextFile \/ Expand \/ EndWalk \/ Finish
SelectionSpec == SelectionInit /\ [][SelectionNext]_selectionVars

(* The nearest suites, as many as asked for; a suite stands at the nearest  *)
(* of its reasons.                                                          *)
Selected == {r.suite : r \in reasons}
Best(suite) == Min({r.distance : r \in {q \in reasons : q.suite = suite}})
Shown == {s \in Selected : Cardinality({t \in Selected : Best(t) < Best(s)}) < request.shown}

-----------------------------------------------------------------------------
(* The nodes that depend on a file within so many edges. *)
DependentsOf(f) ==
  LET Within[k \in 0..request.depth] == IF k = 0 THEN {f} ELSE Within[k - 1] \cup NeededBy(Within[k - 1])
  IN  Within

(* No changed file and no suite is missed without a bound: every tracked    *)
(* file that differs from the base is among the changed files, and every    *)
(* suite that depends on a changed file within the depth is selected, at a  *)
(* distance no longer than its own, unless the walk from that file was cut  *)
(* (revision.rs, worktree_changed_files; select_tests.rs).                  *)
NoSuiteIsMissed ==
  stage = "done" =>
    /\ Explicit = NoFile /\ request.head = NoFile /\ request.scanned \subseteq DOMAIN request.disk =>
         \A f \in DOMAIN request.base \cap Differing(request.base, request.disk) : f \in Range(listed)
    /\ \A f \in (Range(listed) \ request.suites) \ cutShort : f \in request.nodes =>
         \A k \in 1..request.depth : \A s \in DependentsOf(f)[k] \cap request.suites : s \in Selected /\ Best(s) <= k
    /\ \A f \in Range(listed) \cap request.suites : f \in Shown \/ Cardinality(Shown) >= request.shown
=============================================================================
