---------------------------- MODULE HealthReview ----------------------------
(* Four reviews of a loaded graph (src/operations/health/): dead code from  *)
(* declared entry points, the dependency audit, clone families and the hot  *)
(* paths. Paths are sequences of segments; a package name is an identity in *)
(* a spelling; clone pairs come from the clone crate, outside this program. *)
EXTENDS Integers, Sequences, FiniteSets, SequencesExt, FiniteSetsExt

CONSTANTS
  Reviews,  \* questions: what is reviewed, in which repository, with limits
  Nothing   \* an absent argument, no answer yet

VARIABLES given, state

vars == <<given, state>>

Upto(seq, n) == IF Len(seq) <= n THEN seq ELSE SubSeq(seq, 1, n)
Above(path) == {SubSeq(path, 1, k) : k \in 0..(Len(path) - 1)}

-----------------------------------------------------------------------------
(* Entry points: what manifests beside or above the files declare, the      *)
(* conventional names, and Rust files of Cargo's conventional directories.  *)

Nodes == DOMAIN given.nodes
Files == {k \in Nodes : given.nodes[k].kind = "file"}
Directories == UNION {Above(given.nodes[k].path) : k \in Files}

Conventional == {<<"index">>, <<"src", "main">>, <<"src", "lib">>, <<"src", "index">>}
CargoRoots == {<<"tests">>, <<"src", "bin">>}

Declared ==
  Conventional \cup
  UNION {LET own == {m.dir \o entry : entry \in m.entries}
             target == {m.dir \o <<"src", name>> : name \in {"main", "lib"}}
             roots == {given.nodes[k].path : k \in {f \in Files : \E root \in CargoRoots :
                         IsStrictPrefix(m.dir \o root, given.nodes[f].path) /\ given.nodes[f].rust}}
         IN  CASE m.kind = "npm" -> IF m.valid THEN own ELSE {}
               [] OTHER -> own \cup roots \cup (IF m.package THEN target ELSE {}) :
           m \in {n \in given.manifests : n.dir \in Directories}}

EntryPoints == {k \in Files : given.nodes[k].path \in Declared}

(* reachable_from() follows these edges, and only forward.                  *)
Runtime == {"contains", "imports", "reexports", "calls"}

(* Mutant of Successors: what a file contains is not reached from it.       *)
SuccessorsOfCalls(k) == {e.to : e \in {f \in given.edges : f.from = k /\ f.kind = "calls"}}

Successors(k) == {e.to : e \in {f \in given.edges : f.from = k /\ f.kind \in Runtime}}

(* One step of the queue.                                                   *)
Visit ==
  LET k == Head(state.queue)
      new == SetToSeq(Successors(k) \ state.seen)
  IN  /\ given.review = "dead" /\ state.queue # <<>>
      /\ state' = [state EXCEPT !.queue = Tail(@) \o new, !.seen = @ \cup Range(new)]
      /\ UNCHANGED given

Confidence(node) == IF node.kind = "file" THEN 25 ELSE IF node.exported THEN 50 ELSE 85

Referenced(k) == \E e \in given.edges : e.to = k /\ e.kind # "contains"

DeadCandidate(k) ==
  LET node == given.nodes[k]
  IN  /\ node.kind \in {"file", "function"} /\ node.visible /\ ~node.packaging
      /\ given.kinds = Nothing \/ node.kind \in given.kinds
      /\ given.scope = Nothing \/ IsPrefix(given.scope, node.path)
      /\ k \notin state.seen /\ ~Referenced(k)
      /\ Confidence(node) >= given.minimum

FinishDead ==
  /\ given.review = "dead" /\ state.queue = <<>> /\ state.answer = Nothing
  /\ state' = [state EXCEPT !.answer =
       Upto(SelectSeq([k \in Nodes |-> k], DeadCandidate), given.top)]
  /\ UNCHANGED given

-----------------------------------------------------------------------------
(* Dependencies: production imports against the manifests' declarations.    *)

Ecosystem(language) ==
  CASE language \in {"javascript", "typescript"} -> "npm"
    [] language = "rust" -> "cargo"
    [] OTHER -> language
Supported == {"npm", "cargo", "go", "python"}

(* normalize(): Cargo and Python read - and _ alike.                        *)
Normal(ecosystem, name) ==
  [path |-> name.path, spelling |-> IF ecosystem \in {"cargo", "python"} THEN "any" ELSE name.spelling]

Distribution(ecosystem, name) ==
  IF ecosystem = "python" /\ name.path = <<"yaml">> THEN [name EXCEPT !.path = <<"pyyaml">>] ELSE name

MatchesDeclaration(declaration, ecosystem, package) ==
  LET declared == Normal(ecosystem, declaration.name)
      imported == Normal(ecosystem, Distribution(ecosystem, package))
  IN  /\ declaration.ecosystem = ecosystem
      /\ \/ imported = declared
         \/ ecosystem = "go" /\ IsStrictPrefix(declared.path, imported.path)

(* ImportEvidence::collect(): production imports; a Rust import of a local  *)
(* file is evidence of use, never of a package that is missing.             *)
ImportEvidence == {i \in given.imports : i.product /\ (i.language = "rust" => ~i.test)
                                           /\ (i.external \/ i.language = "rust")}

(* declarations(): readable product manifests in a directory with a file.   *)
Declarations == {d \in given.declarations : d.found}

HasImport(d) ==
  \E i \in ImportEvidence : Ecosystem(i.language) = d.ecosystem
                              /\ MatchesDeclaration(d, d.ecosystem, i.package)

(* installed_peer_obligations(): what packages in use ask for.              *)
PeerRequired(d) ==
  /\ d.ecosystem = "npm"
  /\ \E consumer \in Declarations : /\ consumer.ecosystem = "npm" /\ HasImport(consumer)
                                     /\ consumer.manifest = d.manifest /\ d.name \in consumer.peers

Missing ==
  {<<i.language, i.package>> : i \in {j \in ImportEvidence :
     /\ j.external /\ Ecosystem(j.language) \in Supported /\ ~j.builtin
     /\ ~(j.language = "rust" /\ Normal("cargo", j.package) \in {Normal("cargo", n) : n \in given.own})
     /\ \A d \in Declarations : ~MatchesDeclaration(d, Ecosystem(j.language), j.package)}}

Unused == {d \in Declarations : ~HasImport(d) /\ ~PeerRequired(d) /\ ~d.development}

DuplicateGroups ==
  {g \in {{d \in Declarations : /\ d.manifest = e.manifest /\ d.ecosystem = e.ecosystem
                                /\ Normal(d.ecosystem, d.name) = Normal(e.ecosystem, e.name)} :
            e \in Declarations} : Cardinality(g) > 1}

FinishDependencies ==
  /\ given.review = "dependencies" /\ state.answer = Nothing
  /\ state' = [state EXCEPT !.answer = [missing |-> Missing, unused |-> Unused, duplicates |-> DuplicateGroups]]
  /\ UNCHANGED given

-----------------------------------------------------------------------------
(* Clones: the pairs of the crate, trimmed to whole lines, filtered, put    *)
(* into families, filtered again and cut.                                   *)

TrimLocation(location) ==
  LET first == location.first + (IF location.startsInside THEN 1 ELSE 0)
      last == location.last - (IF location.endsInside THEN 1 ELSE 0)
  IN  IF first <= last THEN [location EXCEPT !.first = first, !.last = last] ELSE location

TrimPair(pair) == [pair EXCEPT !.left = TrimLocation(@), !.right = TrimLocation(@)]

CloneClass(location) ==
  IF location.class = "product" /\ location.first..location.last \subseteq location.tests
  THEN "test" ELSE location.class

CloneVisible(location) == CloneClass(location) = "product" \/ CloneClass(location) \in given.include

Place(location) == <<location.path, location.first, location.last>>
Places(pair) == {Place(pair.left), Place(pair.right)}

(* The crate's families_for_pairs(): pairs that share a place.              *)
RECURSIVE Grown(_, _)
Grown(family, pairs) ==
  LET more == {p \in pairs : \E q \in family : Places(p) \cap Places(q) # {}}
  IN  IF more \subseteq family THEN family ELSE Grown(family \cup more, pairs)

FamiliesOf(pairs) == {Grown({p}, Range(pairs)) : p \in Range(pairs)}

Weight(family) ==
  LET Lines(place) == place[3] - place[2] + 1
  IN  MapThenSumSet(Lines, UNION {Places(p) : p \in family})

Trim ==
  LET all == [k \in DOMAIN given.pairs |-> TrimPair(given.pairs[k])]
      kept == SelectSeq(all, LAMBDA p : CloneVisible(p.left) /\ CloneVisible(p.right))
  IN  /\ given.review = "clones" /\ state.pairs = Nothing
      /\ state' = [state EXCEPT !.pairs = SetToSortSeq(Range(kept), LAMBDA p, q : p.tokens > q.tokens)]
      /\ UNCHANGED given

(* suppress(), then limit(): the largest families, then their first pairs.  *)
FinishClones ==
  LET families == {f \in FamiliesOf(state.pairs) : \E p \in f : ~p.boilerplate}
      ranked == SetToSortSeq(families, LAMBDA f, g : Weight(f) > Weight(g))
      selected == UNION Range(Upto(ranked, given.top))
      pairs == Upto(SelectSeq(state.pairs, LAMBDA p : p \in selected), given.top)
  IN  /\ given.review = "clones" /\ state.pairs # Nothing /\ state.answer = Nothing
      /\ state' = [state EXCEPT !.answer = [families |-> FamiliesOf(pairs), pairs |-> pairs]]
      /\ UNCHANGED given

-----------------------------------------------------------------------------
(* Hot paths: token_complexity() reads a function's tokens one by one.      *)

LoopWords == {"for", "while", "loop"}
BranchWords == LoopWords \cup {"if", "case", "catch", "&&"}

Fresh == [queue |-> <<>>, seen |-> {}, pairs |-> Nothing, answer |-> Nothing,
          at |-> 1, depth |-> 0, loops |-> <<>>, pending |-> FALSE, branches |-> 0, deepest |-> 0]

MeasureToken ==
  LET word == given.tokens[state.at]
      opens == word = "{" /\ state.pending
      loops == IF opens THEN Append(state.loops, state.depth + 1)
               ELSE IF word = "}" /\ state.loops # <<>> /\ Last(state.loops) = state.depth
                    THEN Front(state.loops) ELSE state.loops
  IN  /\ given.review = "hot" /\ state.at \in DOMAIN given.tokens
      /\ state' = [state EXCEPT
           !.at = @ + 1,
           !.branches = @ + IF word \in BranchWords THEN 1 ELSE 0,
           !.depth = CASE word = "{" -> @ + 1 [] word = "}" /\ @ > 0 -> @ - 1 [] OTHER -> @,
           !.loops = loops, !.deepest = IF Len(loops) > @ THEN Len(loops) ELSE @,
           !.pending = CASE word \in LoopWords -> TRUE [] opens \/ word = ";" -> FALSE [] OTHER -> @]
      /\ UNCHANGED given

(* hot_paths(): cost times use, under the thresholds.                       *)
FinishHot ==
  LET cost == given.lines + 3 * state.branches + 10 * state.deepest
      score == cost * (given.callers + 1)
  IN  /\ given.review = "hot" /\ state.at > Len(given.tokens) /\ state.answer = Nothing
      /\ state' = [state EXCEPT !.answer =
           [score |-> score, deepest |-> state.deepest, branches |-> state.branches,
            shown |-> /\ score >= given.minimum /\ state.branches >= given.cyclomatic
                      /\ given.callers >= given.calls /\ state.deepest >= given.loopDepth]]
      /\ UNCHANGED given

Init ==
  /\ given \in Reviews
  /\ state = IF given.review = "dead"
             THEN [Fresh EXCEPT !.queue = SetToSeq(EntryPoints), !.seen = EntryPoints] ELSE Fresh

Next == Visit \/ FinishDead \/ FinishDependencies \/ Trim \/ FinishClones \/ MeasureToken \/ FinishHot

Spec == Init /\ [][Next]_vars

-----------------------------------------------------------------------------
Answered(review) == given.review = review /\ state.answer # Nothing

(* What is called dead is used by nothing that can run: there is a set of   *)
(* nodes with every entry point, closed under the runtime edges, without    *)
(* it, and no edge but containment leads to it. Nothing that qualifies is   *)
(* left out unless the answer is full.                                      *)
DeadIsUnused ==
  Answered("dead") =>
    /\ EntryPoints \subseteq state.seen
    /\ \A e \in given.edges : e.from \in state.seen /\ e.kind \in Runtime => e.to \in state.seen
    /\ \A k \in Range(state.answer) : k \notin state.seen /\ ~Referenced(k)
    /\ \A k \in Nodes : DeadCandidate(k) => k \in Range(state.answer) \/ Len(state.answer) = given.top

(* Missing and unused do not contradict: no declaration is called unused    *)
(* whose package a production file imports, and no import is called missing *)
(* that some manifest of its ecosystem declares under any spelling.         *)
DependenciesAgree ==
  Answered("dependencies") =>
    /\ \A m \in state.answer.missing : \A d \in Declarations :
         d.ecosystem = Ecosystem(m[1]) => Normal(d.ecosystem, d.name) # Normal(d.ecosystem, m[2])
    /\ \A d \in state.answer.unused : \A i \in given.imports :
         i.product /\ i.external /\ ~i.test /\ Ecosystem(i.language) = d.ecosystem =>
           Normal(d.ecosystem, d.name) # Normal(d.ecosystem, i.package)

(* The reported families are those of the reported pairs, within the limit, *)
(* with no side that is test or classified code unless it was asked for, nor*)
(* one that begins or ends inside a line of more than one.                  *)
ClonesHangTogether ==
  Answered("clones") =>
    /\ UNION state.answer.families = Range(state.answer.pairs)
    /\ \A f, g \in state.answer.families : f = g \/ f \cap g = {}
    /\ Len(state.answer.pairs) <= given.top /\ Cardinality(state.answer.families) <= given.top
    /\ \A p \in Range(state.answer.pairs) : \A location \in {p.left, p.right} :
         /\ CloneClass(location) \in {"product"} \cup given.include
         /\ \E raw \in Range(given.pairs) : raw.id = p.id /\ TrimPair(raw) = p

(* Nesting as braces and parentheses give it: the loops whose body, the next*)
(* brace outside the header's parentheses, encloses a token.                *)
Parens(from, to) ==
  Cardinality({k \in from..to : given.tokens[k] = "("}) - Cardinality({k \in from..to : given.tokens[k] = ")"})

Bodies(loop) ==
  {open \in loop..Len(given.tokens) :
     /\ given.tokens[open] = "{" /\ Parens(loop, open) = 0
     /\ \A k \in loop..(open - 1) : /\ given.tokens[k] # "{" \/ Parens(loop, k) # 0
                                    /\ given.tokens[k] # ";" \/ Parens(loop, k) # 0}

Braces(from, to) ==
  Cardinality({k \in from..to : given.tokens[k] = "{"}) - Cardinality({k \in from..to : given.tokens[k] = "}"})

Encloses(open, k) == open <= k /\ \A j \in open..k : Braces(open, j) > 0

BodyStarts == UNION {Bodies(k) : k \in {j \in DOMAIN given.tokens : given.tokens[j] \in LoopWords}}

Nesting == Max({0} \cup {Cardinality({open \in BodyStarts : Encloses(open, k)}) : k \in DOMAIN given.tokens})

(* No more nesting is measured than there is, and exactly what there is in a*)
(* function without a semicolon in a loop's header.                         *)
LoopsAreMeasured ==
  Answered("hot") =>
    /\ state.answer.deepest <= Nesting
    /\ (\A k \in DOMAIN given.tokens : given.tokens[k] = ";" => Parens(1, k) = 0) =>
         state.answer.deepest = Nesting

(* What a review says of dead code, dependencies, clones and hot paths is   *)
(* so (audit.rs and what it asks: dead_code, manifest, clones, hot_paths).  *)
ReviewIsSound == DeadIsUnused /\ DependenciesAgree /\ ClonesHangTogether /\ LoopsAreMeasured
=============================================================================
