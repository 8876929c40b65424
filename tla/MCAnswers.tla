----------------------------- MODULE MCAnswers -----------------------------
(* The components that answer from one input, each on small inputs: the     *)
(* cases in which its limits, priorities and exceptions meet. They share no *)
(* state in the program; `mode` says which of them a behaviour is about,    *)
(* `given` is its input and `state` its locals and its answer.              *)
(* TestSelection, VerifiedChange, RevisionHistory, StackTrace, ApiContracts, *)
(* NameResolution, TransportExtraction and TransportContracts have variables *)
(* of their own, which rest while another component answers.                *)
EXTENDS Integers, Sequences, FiniteSets, SequencesExt, FiniteSetsExt, TestSelection, VerifiedChange,
        RevisionHistory, StackTrace, ApiContracts, NameResolution, TransportExtraction,
        TransportContracts, TLC

CONSTANT Modes

-----------------------------------------------------------------------------
(* NameResolution: four files, of which the first refers to x and t.        *)

Declare(kind, name) == [kind |-> kind, name |-> name, owner |-> "none"]
Method(name, owner) == [kind |-> "method", name |-> name, owner |-> owner]

Refer(calls, qualified, self, owner) ==
  [name |-> "x", calls |-> calls, qualified |-> qualified, self |-> self, owner |-> owner]

Bindings(imported) == IF imported = "" THEN {} ELSE {[local |-> "x", imported |-> imported]}

Import(path, class, imported) ==
  [candidates |-> <<99, path>>, package |-> {2, 3}, class |-> class, bindings |-> Bindings(imported)]

Barrel(path) == [candidates |-> <<path>>]

FirstFiles ==
  {<<>>, <<Declare("function", "x")>>, <<Declare("function", "x"), Declare("function", "x")>>,
   <<Declare("const", "x"), Declare("function", "x")>>,
   <<Declare("struct", "t"), Method("x", "t")>>, <<Method("x", "t"), Declare("struct", "t")>>}

OtherFiles ==
  {<<>>, <<Declare("function", "x"), Declare("const", "x")>>,
   <<Declare("struct", "t"), Declare("function", "y")>>}

FirstImports ==
  {<<>>, <<Import(2, "local", "")>>, <<Import(2, "package", "x")>>, <<Import(2, "local", "y")>>,
   <<Import(3, "local", ""), Import(88, "local", "x"), Import(77, "asset", "")>>,
   <<Import(1, "local", ""), Import(88, "package", "")>>}

Unit(path, tests) == [path |-> path, tests |-> tests]

(* The four files are of one target, of a target, its tests, a shared folder*)
(* beside it and a target elsewhere, or of unrelated ones.                  *)
UnitsOfFiles ==
  {[f \in 1..4 |-> Unit(<<"App">>, FALSE)],
   <<Unit(<<"p", "App">>, FALSE), Unit(<<"p", "App">>, TRUE), Unit(<<"p", "Shared">>, FALSE), Unit(<<"q", "App">>, FALSE)>>,
   <<Unit(<<"p">>, FALSE), Unit(<<"p">>, TRUE), Unit(<<"p", "Shared">>, FALSE), Unit(<<"p", "Shared">>, TRUE)>>}

Parsed(language, symbols, imports, reexports, references) ==
  [language |-> language, symbols |-> symbols, imports |-> imports, reexports |-> reexports,
   references |-> references, unit |-> Unit(<<"App">>, FALSE)]

References(symbols) ==
  <<Refer(TRUE, FALSE, FALSE, 0), Refer(TRUE, TRUE, TRUE, 0)>>
    \o (IF symbols = <<>> THEN <<>> ELSE <<Refer(TRUE, FALSE, FALSE, 1), Refer(FALSE, FALSE, FALSE, 1)>>)

SmallProgramsOf(languages) ==
  {<<Parsed(language, first, imports, <<>>, References(first)),
     Parsed(language, second, <<>>, <<Barrel(3)>>, <<>>),
     Parsed(language, third, <<>>, <<Barrel(back), Barrel(4)>>, <<>>),
     Parsed(language, fourth, <<>>, <<>>, <<>>)>> :
       language \in languages, first \in FirstFiles,
       imports \in FirstImports, second \in OtherFiles, third \in OtherFiles, back \in {2, 3},
       fourth \in {<<Declare("function", "x")>>, <<Declare("function", "y")>>}}

SmallPrograms ==
  SmallProgramsOf({"script", "rust", "go"})
  \cup {[f \in 1..4 |-> [program[f] EXCEPT !.unit = units[f]]] : program \in SmallProgramsOf({"swift"}), units \in UnitsOfFiles}

-----------------------------------------------------------------------------
(* TransportContracts: a publisher and a binding in the backend, a consumer  *)
(* in the client, under several limits.                                     *)

Seen(repository, place, transport, entity, role, resource, exchange, key) ==
  [repository |-> repository, place |-> place, transport |-> transport, entity |-> entity,
   role |-> role, resource |-> resource, exchange |-> exchange, key |-> key,
   certainty |-> IF resource = NoName THEN "ambiguous" ELSE "exact",
   origin |-> "tokenized_source", observed |-> FALSE]

Source(outcome, found) == [candidate |-> TRUE, outcome |-> outcome, found |-> found]

NoReport == [explicit |-> FALSE, files |-> <<>>, observed |-> <<>>]

Report(wrong, age) ==
  [explicit |-> FALSE, observed |-> <<[system |-> "nats", side |-> "producer", name |-> "jobs",
                                      kind |-> NoName, exchange |-> NoName, key |-> NoName,
                                      place |-> 3]>>,
   files |-> <<[path |-> "inside", exists |-> FALSE, content |-> "report"],
               [path |-> "inside", exists |-> TRUE, content |-> "report", wrong |-> wrong,
                age |-> age, complete |-> TRUE]>>]

RepositoryOf(same, files, edges, runtime) ==
  [same |-> same, files |-> files, edges |-> edges, runtime |-> runtime]

RoutingEstates ==
  {[maxFiles |-> 9, maxObservations |-> 9, maxContracts |-> 9, repositories |-> <<
      RepositoryOf(FALSE, <<Source("found", <<Seen(1, 1, "amqp", "exchange", "producer", "ex", "ex", key)>>),
                            Source("found", <<Seen(1, 2, "rabbitmq", "binding", "bind", "q", "ex", binding)>>)>>,
                   <<>>, NoReport),
      RepositoryOf(FALSE, <<Source("found", <<Seen(2, 4, consumer, "queue", "consumer", "q", NoName, NoName)>>)>>,
                   <<>>, NoReport)>>] :
     key \in {NoName, <<"a">>, <<"a", "b">>, <<"b", "a", "b">>},
     binding \in {NoName, <<"a", "*">>, <<"a", "#">>, <<"#", "b">>, <<"a", "b", "#">>, <<"#">>, <<"*">>, <<"a", "#", "#">>,
                  <<"a", "b">>},
     consumer \in {"amqp", "jms"}}

LimitEstates ==
  {[maxFiles |-> files, maxObservations |-> sides, maxContracts |-> 1, repositories |-> <<
      RepositoryOf(FALSE, <<Source("found", <<Seen(1, 3, "nats", "subject", "producer", NoName, NoName, NoName),
                                              Seen(1, 5, "kafka", "topic", "producer", "t", NoName, NoName)>>),
                            [Source("found", <<>>) EXCEPT !.candidate = FALSE], Source(outcome, <<>>)>>,
                   <<Seen(1, 5, "kafka", "topic", "producer", "t", NoName, NoName),
                     Seen(1, 6, "kafka", "topic", "consumer", "t", NoName, NoName)>>, runtime),
      RepositoryOf(same, <<Source("found", <<Seen(2, 4, "kafka", "topic", "consumer", "t", NoName, NoName)>>)>>,
                   <<>>, NoReport)>>] :
     files \in {1, 3, 9}, sides \in {1, 2, 3, 9}, outcome \in {"none", "unreadable", "found"},
     runtime \in {NoReport, Report({}, "fresh"), Report({"revision"}, "fresh"), Report({}, "old")},
     same \in BOOLEAN}

SmallEstates == RoutingEstates \cup LimitEstates

-----------------------------------------------------------------------------
(* TransportExtraction: two imports, three statements and a last call.      *)

ImportOf(names, says) == [kind |-> "import", names |-> names, says |-> says]
Assignment(variable, reads) == [kind |-> "assign", variable |-> variable, reads |-> reads]

CallOf(variable, receiver, name, named, args, literals) ==
  [kind |-> "call", variable |-> variable, receiver |-> receiver, name |-> name, identifier |-> name, chain |-> {},
   says |-> {}, named |-> named, args |-> args, literals |-> literals, go |-> FALSE]

Literal(value) == [literals |-> <<value>>, identifier |-> NoValue]
Variable(name) == [literals |-> <<>>, identifier |-> name]
Named(name, value) == <<[name |-> name, values |-> <<value>>]>>

Setups ==
  {Assignment("c", {"a"}), Assignment("c", {"b", "d"}), Assignment("d", {"c"}),
   CallOf("c", "a", "consumer", Named("groupid", "g"), <<>>, {}),
   CallOf("q", "b", "createqueue", <<>>, <<Literal("jobs")>>, {}),
   CallOf("c", "net", "connect", <<>>, <<Literal("url")>>, {"nats", "kafka"}),
   [CallOf("c", "net", "createproducer", <<>>, <<Variable("q")>>, {}) EXCEPT !.chain = {"b"}]}

LastCalls ==
  {CallOf(NoValue, "c", "publish", <<>>, <<Literal("ex"), Literal("key")>>, {}),
   CallOf(NoValue, "c", "subscribe", Named("topic", "t"), <<>>, {}),
   CallOf(NoValue, "other", "subscribe", <<>>, <<Variable("q")>>, {}),
   CallOf(NoValue, "d", "sendtoqueue", <<>>, <<Variable("q")>>, {}),
   CallOf(NoValue, "d", "createproducer", <<>>, <<Variable("q")>>, {}),
   CallOf(NoValue, "other", "sendmessage", Named("queueurl", "u"), <<>>, {}),
   [CallOf(NoValue, "other", "queuebind", <<>>, <<Literal("q"), Literal("key"), Literal("ex")>>, {})
      EXCEPT !.go = TRUE],
   [CallOf(NoValue, "other", "to", <<>>, <<Literal("t")>>, {}) EXCEPT !.says = {"record"}],
   CallOf(NoValue, "b", "subscribe", Named("queue", "g"), <<Variable("q")>>, {}),
   CallOf(NoValue, "other", "subscribe", Named("protocol", "sqs") \o Named("endpoint", "q"), <<Literal("t")>>, {}),
   CallOf(NoValue, "d", "assertexchange", Named("name", "ex"), <<>>, {}),
   CallOf(NoValue, "b", "receivemessage", <<>>, <<Variable("q")>>, {})}

SmallSources ==
  {[says |-> says, statements |->
      <<ImportOf({"a"}, {"kafka"}), ImportOf({"b"}, b), first, second, third, call>>] :
     says \in {{}, {"nats", "sns"}}, b \in {{"amqp", "rabbitmq"}, {"amqp"}, {"nats"}, {"jms"}, {"sqs"}},
     first \in Setups, second \in Setups, third \in {Assignment("c", {"b", "d"}), Assignment("d", {"c"})}, call \in LastCalls}

-----------------------------------------------------------------------------
(* ApiContracts: providers and clients of two identities in two forms, and  *)
(* calls of a route and of a longer one.                                    *)

Label(identity, form) == [identity |-> identity, form |-> form]
ApiNode(identity, form, edges) == [label |-> Label(identity, form), visible |-> TRUE, edges |-> edges]

TypedQuestions ==
  {[transport |-> transport, backend |-> backend, maxEndpoints |-> limit,
    broken |-> broken,
    clients |-> <<[nodes |-> first], [nodes |-> second]>>] :
     transport \in {"graphql", "grpc"}, limit \in {1, 2}, broken \in {{}, {"backend"}},
     backend \in {<<>>, <<ApiNode("a", "one", {"exposes"})>>,
                  <<ApiNode("a", "one", {"exposes"}), ApiNode("b", "one", {"exposes"})>>,
                  <<ApiNode("a", "one", {"calls"}), ApiNode("a", "many", {"exposes"})>>},
     first \in {<<>>, <<ApiNode("a", "one", {"calls"})>>,
                <<ApiNode("a", "many", {"calls"}), ApiNode("b", "one", {"exposes"})>>},
     second \in {<<ApiNode("b", "one", {"calls"}), ApiNode("b", "many", {"exposes"})>>,
                 <<ApiNode("a", "one", {"configures"})>>}}

Segment(name) == [name |-> name, parameter |-> name = "id"]
RouteOf(names) == [k \in DOMAIN names |-> Segment(names[k])]

HttpCall(name, method, options, line, names) ==
  [name |-> name, method |-> method, options |-> options, onClient |-> FALSE,
   literals |-> <<[line |-> line, segments |-> RouteOf(names)]>>]

HttpQuestions ==
  {[transport |-> "http", method |-> method, path |-> path, changed |-> changed, maxEndpoints |-> 2, maxMatches |-> max,
    backend |-> <<[route |-> RouteOf(first), method |-> backend, visible |-> TRUE, file |-> "f"],
                  [route |-> RouteOf(<<"api", "orders", "id">>), method |-> "get", visible |-> TRUE,
                   file |-> "g"]>>,
    clients |-> <<[visible |-> visible, calls |-> <<one, two>>]>>] :
     method \in {Absent, "get"}, path \in {Absent, RouteOf(<<"orders", "id">>)}, max \in {1, 2}, changed \in {{}, {"g"}}, visible \in BOOLEAN,
     first \in {<<"id">>, <<"api", "orders">>}, backend \in {"any", "post"},
     one \in {HttpCall("fetch", Absent, FALSE, 1, <<"api", "orders">>),
              HttpCall("fetch", "post", TRUE, 1, <<"api", "orders", "archive">>),
              HttpCall("log", Absent, FALSE, 1, <<"api", "orders">>)},
     two \in {HttpCall("post", Absent, TRUE, 2, <<"orders", "api">>),
              HttpCall("got", Absent, TRUE, 1, <<"api", "orders">>)}}

SmallIntegrations == TypedQuestions \cup HttpQuestions

-----------------------------------------------------------------------------
(* BuildModel: nested and overlapping workspaces of each ecosystem.         *)

Manifest(kind, dir, name) ==
  [kind |-> kind, dir |-> dir, name |-> name, product |-> TRUE, content |-> "good",
   workspace |-> FALSE, patterns |-> {}, excludes |-> {}, shared |-> {}, dependencies |-> <<>>,
   targets |-> {}, off |-> {}, scripts |-> [s \in {} |-> {}], uses |-> <<>>]

Glob(segments) == [negated |-> FALSE, segments |-> segments]
Not(segments) == [negated |-> TRUE, segments |-> segments]
Depends(name, path, inherited) == [name |-> name, path |-> path, inherited |-> inherited]

Tree(manifests, packages, files, asked) ==
  [manifests |-> manifests, packages |-> packages, files |-> files, asked |-> asked]

NpmTrees ==
  {Tree(<<[Manifest("npm", <<>>, "root") EXCEPT !.workspace = workspace, !.patterns = patterns,
             !.scripts = scripts],
          [Manifest("npm", <<"p", "a">>, "a") EXCEPT !.dependencies = <<Depends("b", Nothing, FALSE)>>],
          [Manifest("npm", <<"p", "b">>, "b") EXCEPT !.content = content],
          Manifest("npm", <<"p", "b", "c">>, inner),
          [Manifest("pnpm", <<"p">>, Nothing) EXCEPT !.patterns = {Glob(<<"*">>)}, !.workspace = TRUE,
             !.content = pnpm],
          Manifest("python", <<"p", "a">>, "py"),
          [Manifest("tsconfig", <<"p", "a">>, Nothing) EXCEPT !.uses = <<<<"..", "b">>, use>>,
             !.patterns = {Glob(<<"**", "*">>), Not(<<"out", "*">>)}],
          Manifest("tsconfig", <<"p", "b">>, Nothing)>>, <<>>, {}, asked) :
     workspace \in BOOLEAN, content \in {"good", "invalid", "unreadable"}, inner \in {"b", "c"},
     pnpm \in {"good", "unreadable"}, use \in {<<".", "z">>, <<"@", "z">>}, asked \in {<<"p", "a", "out", "f">>, <<"p", "a", "f">>, <<"f">>},
     patterns \in {{Glob(<<"p", "*">>)}, {Glob(<<"**">>), Not(<<"p", "b">>)}, {Glob(<<"p", "**", "c">>)}},
     scripts \in {[s \in {"t", "u", "v"} |-> IF s = "t" THEN {"u"} ELSE {"v", "x"}],
                  [s \in {"t", "u"} |-> {"t"}]}}

CargoTrees ==
  {Tree(<<[Manifest("cargo", <<>>, name) EXCEPT !.workspace = TRUE, !.patterns = patterns,
             !.excludes = excludes, !.shared = {Depends("b", <<"c", "b">>, FALSE)}],
          [Manifest("cargo", <<"c", "a">>, "a") EXCEPT !.dependencies = <<depends>>,
             !.targets = {[kind |-> "bin", name |-> target, path |-> Nothing]}],
          [Manifest("cargo", <<"c", "b">>, "b") EXCEPT !.workspace = nested, !.patterns = {Glob(<<"*">>)},
             !.off = IF nested THEN {} ELSE {"bench", "bin"}],
          Manifest("cargo", <<"c", "b", "d">>, "d")>>, <<>>,
        {<<"c", "a", "src", "main">>, <<"c", "a", "src", "bin", "x">>, <<"c", "a", "tests", "t", "main">>,
         <<"c", "b", "benches", "q">>, <<"c", "b", "src", "main">>}, asked) :
     name \in {Nothing, "root"}, excludes \in {{}, {Glob(<<"c", "b">>)}}, nested \in BOOLEAN,
     patterns \in {{Glob(<<"c", "*">>)}, {Glob(<<"**">>)}}, target \in {Nothing, "x"},
     depends \in {Depends("b", <<"..", "b">>, FALSE), Depends("b", Nothing, TRUE), Depends("z", Nothing, TRUE)},
     asked \in {<<"c", "a", "src", "main">>, <<"c", "a", "src", "lib">>, <<"c", "a", "tests", "t", "main">>,
                <<"c", "b", "benches", "q">>}}

GoTrees ==
  {Tree(<<[Manifest("gowork", <<>>, Nothing) EXCEPT !.uses = uses, !.workspace = TRUE],
          Manifest("go", <<"a">>, "ma"), [Manifest("go", <<"b">>, "mb") EXCEPT !.product = product]>>,
        <<[dir |-> <<"a">>, test |-> FALSE, imports |-> {import}],
          [dir |-> <<"b">>, test |-> FALSE, imports |-> {}],
          [dir |-> <<"b", "p">>, test |-> test, imports |-> {<<"ma", "a">>}]>>, {}, <<"b", "p", "f">>) :
     uses \in {<<<<"a">>, <<"b">>>>, <<<<"b">>>>, <<<<"..", "b">>, <<"a">>>>}, test \in BOOLEAN,
     product \in BOOLEAN, import \in {<<"mb">>, <<"mb", "p">>, <<"net">>}}

SmallTrees == NpmTrees \cup CargoTrees \cup GoTrees

-----------------------------------------------------------------------------
(* VerifiedChange: a baseline and a worktree whose lines meet rules, moved, *)
(* repeated and with a comment added, under each kind of check.             *)

Line(text, matches) ==
  [text |-> text, matches |-> matches, commented |-> FALSE, long |-> FALSE, test |-> FALSE,
   async |-> FALSE, blank |-> FALSE, indent |-> 1]

Reviewed(path, language, lines) ==
  [path |-> path, language |-> language, lines |-> lines, product |-> TRUE, readable |-> TRUE]

Quiet == <<Line("ok", {})>>
Catch == Line("catch", {"empty_catch"})
Sleep == Line("sleep", {"blocking_call"})
AsyncDef == [Line("def", {}) EXCEPT !.async = TRUE, !.indent = 0]

LinesOfRust ==
  {Quiet, <<Catch>>, <<Line("ok", {}), Catch, Catch>>, <<[Catch EXCEPT !.commented = TRUE]>>,
   <<[Line("u", {"unwrap"}) EXCEPT !.test = TRUE], [Line("v", {"unwrap"}) EXCEPT !.long = TRUE]>>,
   <<Line("u", {"unwrap", "empty_catch"}), Line("g", {"shared_global"})>>}

LinesOfPython ==
  {<<Sleep, AsyncDef>>, <<AsyncDef, Sleep>>, <<AsyncDef, [Sleep EXCEPT !.indent = 0]>>,
   <<AsyncDef, [Line("", {}) EXCEPT !.blank = TRUE, !.indent = 0], Sleep>>}

ReviewedRepositories ==
  {[before |-> before, sources |-> <<Reviewed("f", "rust", lines), [Reviewed("g", "python", python)
                                        EXCEPT !.product = product]>>,
    cycles |-> cycles, cyclesBefore |-> <<{"f", "g"}>>, dependencies |-> -1, diagnostics |-> 0] :
     before \in {Nothing} \cup {<<Reviewed("f", "rust", old)>> : old \in LinesOfRust}, lines \in LinesOfRust,
     python \in LinesOfPython, product \in BOOLEAN, cycles \in {<<>>, <<{"f", "g"}>>}}

Audits ==
  {[tool |-> "run_audit", repo |-> repo, evidence |-> evidence, options |->
     [max |-> 1, category |-> Nothing, severity |-> 1, base |-> base, includeTests |-> TRUE]] :
     repo \in ReviewedRepositories, base \in {Nothing, "HEAD"},
     evidence \in {Nothing, [inline |-> TRUE, path |-> FALSE, large |-> FALSE, inside |-> TRUE, schema |-> TRUE,
                             revision |-> "current", exit |-> 0, success |-> TRUE, trouble |-> FALSE]}}

ExternalRuns ==
  {[inline |-> TRUE, path |-> path, large |-> FALSE, inside |-> TRUE, schema |-> schema,
    revision |-> revision, exit |-> exit, success |-> success, trouble |-> trouble] :
     path \in BOOLEAN, schema \in BOOLEAN, revision \in {"current", "old"}, exit \in {Nothing, 0, 1},
     success \in {Nothing, TRUE, FALSE}, trouble \in BOOLEAN}

CleanRepository ==
  [before |-> <<Reviewed("f", "rust", Quiet)>>, sources |-> <<Reviewed("f", "rust", Quiet)>>,
   cycles |-> <<>>, cyclesBefore |-> <<>>, dependencies |-> -1, diagnostics |-> 0]

Optioned ==
  {[tool |-> "run_audit", repo |-> [CleanRepository EXCEPT !.dependencies = 0, !.diagnostics = 1],
    evidence |-> evidence, options |-> [max |-> max, category |-> category, severity |-> severity,
      base |-> Nothing, includeTests |-> category = Nothing]] :
     evidence \in ExternalRuns, max \in {0, 1}, category \in {Nothing, "tests", "dependencies", "style"},
     severity \in {0, 1, 4}}

ChangeNode(file, named, test) == [file |-> file, named |-> named, test |-> test, readable |-> TRUE]

ChangeOf(repo) ==
  [tool |-> "verified_change", task |-> "t", phase |-> "verify", base |-> Nothing, repo |-> repo,
   maxSymbols |-> Nothing, runTests |-> Nothing, tests |-> {}, ratchet |-> Nothing, families |-> 0,
   contract |-> Nothing, architecture |-> "PASS",
   nodes |-> <<ChangeNode("f", TRUE, FALSE), ChangeNode("t", FALSE, TRUE), ChangeNode(Nothing, TRUE, FALSE)>>,
   impact |-> [known |-> TRUE, files |-> {"f"}, nodes |-> <<1>>]]

VerifiedChanges ==
  {ChangeOf(repo) : repo \in ReviewedRepositories}
    \cup
  {[ChangeOf([CleanRepository EXCEPT !.dependencies = dependencies, !.diagnostics = diagnostics])
      EXCEPT !.phase = phase, !.runTests = run, !.ratchet = ratchet, !.families = families,
             !.contract = contract, !.architecture = architecture, !.impact.files = files,
             !.impact.nodes = nodes, !.tests = tests, !.maxSymbols = 1] :
     dependencies \in {-1, 0}, diagnostics \in {0, 1}, phase \in {"plan", "verify"}, run \in {Nothing, TRUE},
     ratchet \in {Nothing, FALSE}, families \in {0, 1}, files \in {{}, {"f"}}, nodes \in {<<1>>, <<2, 1>>},
     contract \in {Nothing, "ERROR", "HTTP_METHOD_MISMATCH", "MATCHED"}, tests \in {{}, {"one"}},
     architecture \in {"PASS", "BLOCKED", "NOT_CONFIGURED"}}
    \cup
  {[ChangeOf(CleanRepository) EXCEPT !.task = task, !.phase = phase, !.impact.known = known,
      !.nodes[1].readable = readable] :
     task \in {Nothing, "t"}, phase \in {"plan", "verify", "undo"}, known \in BOOLEAN, readable \in BOOLEAN}

SmallChanges == Audits \cup Optioned \cup VerifiedChanges

-----------------------------------------------------------------------------
(* HealthReview: chains from a manifest's entry and a cycle beside them;    *)
(* names in two spellings; pairs that share a place; nested loops.          *)

HealthNode(kind, path, exported) ==
  [kind |-> kind, path |-> path, exported |-> exported, visible |-> TRUE, packaging |-> FALSE, rust |-> TRUE]
Link(from, to, kind) == [from |-> from, to |-> to, kind |-> kind]

DeadReviews ==
  {[review |-> "dead", top |-> top, minimum |-> minimum, kinds |-> kinds, scope |-> scope, manifests |-> manifests,
    edges |-> {Link(1, 3, "contains"), Link(2, 4, "contains"), Link(2, 5, "contains")} \cup edges,
    nodes |-> <<HealthNode("file", first, FALSE), HealthNode("file", <<"p", "src", "bin", "b">>, FALSE),
                HealthNode("function", first, TRUE), HealthNode("function", <<"p", "src", "bin", "b">>, FALSE),
                HealthNode("function", <<"p", "src", "bin", "b">>, TRUE),
                [HealthNode("other", <<"p">>, FALSE) EXCEPT !.visible = FALSE]>>] :
     top \in {1, 9}, minimum \in {0, 50}, kinds \in {Nothing, {"file"}}, scope \in {Nothing, <<"p">>}, first \in {<<"index">>, <<"p", "x">>},
     manifests \in {{}, {[kind |-> "npm", dir |-> <<"p">>, valid |-> TRUE, entries |-> {<<"x">>}]},
                    {[kind |-> "cargo", dir |-> <<"p">>, entries |-> {}, package |-> FALSE],
                     [kind |-> "cargo", dir |-> <<"q">>, entries |-> {<<"index">>}, package |-> TRUE]}},
     edges \in SUBSET {Link(3, 4, "calls"), Link(4, 5, "references"), Link(5, 4, "calls"), Link(1, 2, "imports")}}

PackageName(path, spelling) == [path |-> path, spelling |-> spelling]
Uses(language, path, spelling, external) ==
  [language |-> language, package |-> PackageName(path, spelling), external |-> external, product |-> TRUE,
   test |-> FALSE, builtin |-> path = <<"os">>]
Declaration(ecosystem, path, spelling) ==
  [ecosystem |-> ecosystem, name |-> PackageName(path, spelling), manifest |-> "m", found |-> TRUE,
   development |-> FALSE, peers |-> {PackageName(<<"a">>, "dash")}]

DependencyReviews ==
  {[review |-> "dependencies", imports |-> imports, declarations |-> declarations, own |-> own] :
     own \in {{}, {PackageName(<<"a">>, "under")}},
     imports \in {x \cup y : x \in SUBSET {Uses("rust", <<"a">>, "dash", TRUE), Uses("rust", <<"a">>, "under", FALSE),
                                           Uses("typescript", <<"b">>, "dash", TRUE)},
                    y \in SUBSET {Uses("python", <<"yaml">>, "dash", TRUE), Uses("python", <<"os">>, "dash", TRUE),
                                  [Uses("go", <<"g", "s">>, "dash", TRUE) EXCEPT !.product = FALSE],
                                  Uses("go", <<"g", "t">>, "dash", TRUE), Uses("swift", <<"a">>, "dash", TRUE)}},
     declarations \in {{Declaration("cargo", <<"a">>, "under"), Declaration("cargo", <<"a">>, "dash")},
                       {Declaration("npm", <<"a">>, "dash"), Declaration("npm", <<"b">>, "dash")},
                       {Declaration("python", <<"pyyaml">>, "dash"), Declaration("go", <<"g">>, "dash"),
                        [Declaration("cargo", <<"a">>, "under") EXCEPT !.development = TRUE]},
                       {[Declaration("cargo", <<"a">>, "under") EXCEPT !.found = FALSE]}}}

Location(path, first, last) ==
  [path |-> path, first |-> first, last |-> last, startsInside |-> FALSE, endsInside |-> FALSE,
   class |-> "product", tests |-> 4..6]
ClonePair(id, tokens, left, right) ==
  [id |-> id, tokens |-> tokens, left |-> left, right |-> right, boilerplate |-> id = 3]

CloneReviews ==
  {[review |-> "clones", top |-> top, include |-> include, pairs |->
      <<ClonePair(1, 9, [Location("f", 1, 3) EXCEPT !.startsInside = inside], [Location("g", 4, 5) EXCEPT !.endsInside = inside]),
        ClonePair(2, 7, Location("f", 1, 3), Location("h", 3, last)),
        ClonePair(3, 8, [Location("k", 1, 1) EXCEPT !.class = class, !.endsInside = inside], Location("l", 1, 9)),
        ClonePair(4, 6, Location("l", 1, 9), Location(other, 2, 2))>>] :
     top \in 0..3, include \in {{}, {"test"}, {"test", "classified"}}, inside \in BOOLEAN, last \in {5, 9},
     class \in {"product", "classified"}, other \in {"m", "f"}}

LoopHeads == {<<"for", "(", ";", ")", "{">>, <<"while", "(", "&&", ")", "{">>, <<"if", "{">>, <<"for", ";", "{">>,
              <<"while", "if", "{">>}
HotReviews ==
  {[review |-> "hot", tokens |-> <<"{">> \o outer \o inner \o close \o last \o <<"}">>, lines |-> 4,
    callers |-> callers, calls |-> calls, minimum |-> 0, cyclomatic |-> cyclomatic, loopDepth |-> depth] :
     outer \in LoopHeads, inner \in LoopHeads, close \in {<<"}", "}">>, <<"}", ";", "}", ";">>},
     last \in {<<>>, <<"while", ";">>, <<"loop", "{", "}">>}, callers \in {0, 2}, calls \in {0, 1},
     cyclomatic \in {0, 3}, depth \in {0, 2}}

SmallReviews == DeadReviews \cup DependencyReviews \cup CloneReviews \cup HotReviews

-----------------------------------------------------------------------------
(* Contracts with path rules. A pattern is what is written and the tree it  *)
(* is read as.                                                              *)

PathCharacters == <<"-", ".", "/", "a", "b">>
Letter(c) == [text |-> <<c>>, tree |-> [is |-> "set", set |-> {c}]]
AnyOf(text, set) == [text |-> text, tree |-> [is |-> "set", set |-> set]]
AnyChar == AnyOf(<<".">>, Range(PathCharacters))
LiteralDot == AnyOf(<<"\\", ".">>, {"."})
NotSlash == AnyOf(<<"[", "^", "/", "]">>, Range(PathCharacters) \ {"/"})
AToB == AnyOf(<<"[", ".", "a", "-", "b", "]">>, {".", "a", "b"})
Dashed == AnyOf(<<"[", "\\", "-", "-", "\\", "/", "]">>, {"-", ".", "/"})
Both(p, q) == [text |-> p.text \o q.text, tree |-> [is |-> "cat", left |-> p.tree, right |-> q.tree]]
Either(p, q) == [text |-> p.text \o <<"|">> \o q.text, tree |-> [is |-> "alt", left |-> p.tree, right |-> q.tree]]
Grouped(p) == [text |-> <<"(">> \o p.text \o <<")">>, tree |-> [is |-> "group", left |-> p.tree]]
Bracketed(p) == [p EXCEPT !.text = <<"(", "?", ":">> \o @ \o <<")">>]
Optional(p) == [text |-> Append(p.text, "?"), tree |-> [is |-> "opt", left |-> p.tree]]
Starred(p) == [text |-> Append(p.text, "*"), tree |-> [is |-> "star", left |-> p.tree]]
Plus(p) == [text |-> Append(p.text, "+"), tree |-> [is |-> "plus", left |-> p.tree]]
FromBegin(p) == Both([text |-> <<"^">>, tree |-> [is |-> "begin"]], p)
ToEnd(p) == Both(p, [text |-> <<"$">>, tree |-> [is |-> "end"]])
Captured == [text |-> <<"$", "1">>, tree |-> [is |-> "ref"]]
AbsentPattern == [text |-> Nothing, tree |-> Nothing]

SmallPatterns ==
  LET ab == Bracketed(Either(Letter("a"), Both(Letter("b"), Letter("/"))))
      once == {Letter("a"), AnyChar, LiteralDot, NotSlash, AToB, Dashed, ab, Bracketed(Starred(Letter("a")))}
      some == once \cup {Starred(p) : p \in once} \cup {Plus(p) : p \in once} \cup {Optional(p) : p \in once}
      whole == {Both(p, q) : p \in some, q \in {Letter("/"), Plus(NotSlash), Optional(ab)}}
               \cup {Either(p, Letter("/")) : p \in once}
      open == {p \in whole : p.tree.is = "cat"}
  IN  whole \cup {FromBegin(p) : p \in open} \cup {ToEnd(p) : p \in open} \cup {FromBegin(ToEnd(Bracketed(p))) : p \in whole}

PathFiles == {<<"a">>, <<"a", "/", "b">>, <<".", "/", "b">>, <<"b", "/", "a", "a">>, <<"-", "a", "/", "a">>}
PathEdge(from, to, kind) == [from |-> from, to |-> to, kind |-> kind, coupling |-> "runtime"]
PathRuleOf(from, fromNot, to, toNot) ==
  [id |-> 1, unknown |-> FALSE, severity |-> Nothing, action |-> "forbid", reach |-> "direct", from |-> {}, to |-> {},
   kinds |-> {"imports"}, fromPath |-> from.text, fromPathNot |-> fromNot.text, toPath |-> to.text, toPathNot |-> toNot.text]
PathMeaning(from, fromNot, to, toNot) ==
  [fromPath |-> from.tree, fromPathNot |-> fromNot.tree, toPath |-> to.tree, toPathNot |-> toNot.tree]
PathContract(rules, meanings, edges) ==
  [rules |-> rules, meanings |-> meanings, edges |-> edges, whole |-> TRUE, diagnostics |-> {},
   components |-> <<[id |-> "A", paths |-> {<<"a">>}], [id |-> "B", paths |-> {<<"b">>, <<"a", "/", "b">>}]>>]
PathPolicyOf(from, fromNot, to, toNot, edges) ==
  PathContract(<<PathRuleOf(from, fromNot, to, toNot)>>, <<PathMeaning(from, fromNot, to, toNot)>>, edges)

EdgesToB == SetToSeq({PathEdge(f, <<"b">>, "imports") : f \in PathFiles})
EdgesBetween == SetToSeq({PathEdge(<<"a">>, <<"b">>, "calls")}) \o
                FlattenSeq(SetToSeq({SetToSeq({PathEdge(f, g, "imports") : g \in PathFiles}) : f \in PathFiles}))

Folder == FromBegin(Both(Grouped(Plus(NotSlash)), Letter("/")))
Misread == {<<"a", "*", "*">>, <<"(", "a">>, <<"a", ")">>, <<"[", "]">>, <<"a", "$", "b">>, <<"b", "^">>, <<"\\", "a">>,
            <<"a", "{">>, <<"(", "?", "a", ")">>, <<"[", "b", "-", "a", "]">>, <<"*">>, <<"\\">>, <<"[", "a">>}
BadPattern(text) == [text |-> text, tree |-> Nothing]

SmallPolicies ==
  {PathPolicyOf(p, AbsentPattern, Letter("b"), AbsentPattern, EdgesToB) : p \in SmallPatterns}
  \cup {PathPolicyOf(AbsentPattern, p, AbsentPattern, LiteralDot, EdgesToB) : p \in {Letter("a"), AnyChar, Folder}}
  \cup {PathPolicyOf(from, not, to, toNot, EdgesBetween) :
          from \in {Folder, FromBegin(Both(Optional(Grouped(Letter("-"))), Letter("a")))},
          not \in {AbsentPattern, FromBegin(Letter("b"))},
          to \in {AbsentPattern, FromBegin(AnyChar), FromBegin(Both(Captured, Letter("/")))},
          toNot \in {FromBegin(Captured), ToEnd(Both(Captured, Optional(AnyChar)))}}
  \cup {[PathPolicyOf(BadPattern(text), AbsentPattern, Letter("b"), AbsentPattern, EdgesToB) EXCEPT !.meanings = <<Nothing>>] :
          text \in Misread}
  \cup {[PathPolicyOf(from, AbsentPattern, AbsentPattern, to, EdgesToB) EXCEPT !.meanings = <<Nothing>>] :
          from \in {Letter("a"), AbsentPattern}, to \in {Captured, BadPattern(<<"$", "2">>)}}
  \cup {[PathPolicyOf(Letter("a"), AbsentPattern, Letter("b"), AbsentPattern, EdgesToB) EXCEPT
           !.meanings = <<Nothing, Nothing>>, !.rules = <<@[1], rule>>] :
          rule \in LET path == PathRuleOf(Letter("a"), AbsentPattern, Letter("b"), AbsentPattern)
                       none == PathRuleOf(AbsentPattern, AbsentPattern, AbsentPattern, AbsentPattern)
                   IN  {[path EXCEPT !.severity = "info"], [path EXCEPT !.unknown = TRUE], [path EXCEPT !.from = {"A"}],
                        [path EXCEPT !.to = {"B"}], [path EXCEPT !.kinds = {"imports", "import"}],
                        [none EXCEPT !.reach = "direkt"], [path EXCEPT !.reach = "transitive"], [path EXCEPT !.action = "allow_only"],
                        [path EXCEPT !.toPath = Nothing], [none EXCEPT !.action = "deny"],
                        [none EXCEPT !.action = "require", !.kinds = {"unresolved"}],
                        [none EXCEPT !.action = "allow_only", !.reach = "transitive"]}}
  \cup {[PathPolicyOf(Letter("a"), AbsentPattern, Letter("b"), AbsentPattern, EdgesToB) EXCEPT
           !.rules = <<@[1], [PathRuleOf(AbsentPattern, AbsentPattern, AbsentPattern, AbsentPattern) EXCEPT
                                !.id = 2, !.kinds = {"unresolved"}, !.from = from]>>,
           !.meanings = <<@[1], @[1]>>,
           !.diagnostics = {[file |-> f, message |-> m, spanned |-> m # 2] : f \in PathFiles, m \in 1..3}] :
          from \in {{"A"}, {"B"}, {"A", "B"}}}
  \cup {[PathPolicyOf(p, AbsentPattern, Letter("b"), AbsentPattern, EdgesToB) EXCEPT !.whole = FALSE] :
          p \in {Either(FromBegin(Letter("a")), LiteralDot), Either(LiteralDot, ToEnd(Letter("a")))}}

-----------------------------------------------------------------------------
(* Capabilities, budgets and observed folders.                              *)

EndpointNode(label, visible, files) == [label |-> label, visible |-> visible, files |-> files]
CapabilityOf(id, endpoints, components) == [id |-> id, endpoints |-> endpoints, components |-> components]

CapabilityReports ==
  {[tool |-> "capabilities", limit |-> limit, capabilities |-> capabilities,
    component |-> [f \in {"f", "g", "h"} |-> IF f = "f" THEN "A" ELSE IF f = "g" THEN "B" ELSE Nothing],
    nodes |-> {EndpointNode("x", visible, {"f"}), EndpointNode("x", TRUE, files), EndpointNode("y", TRUE, {"g"}),
               EndpointNode("z", FALSE, {"f"})}] :
     limit \in {0, 1, 5}, visible \in BOOLEAN, files \in {{"g"}, {"h"}},
     capabilities \in {Nothing, <<>>, <<CapabilityOf(Nothing, {"x"}, {})>>, <<CapabilityOf(1, {}, {})>>,
                       <<CapabilityOf(1, {"x"}, {}), CapabilityOf(1, {"y"}, {})>>}
                      \cup {<<CapabilityOf(1, first, c), CapabilityOf(2, second, {"B"})>> : c \in {{}, {"A"}},
                              first \in {{"x"}, {"x", "y"}, {"x", "z"}}, second \in {{"y"}, {"x", "w"}}}}

DeclarationText(kind, text) == [kind |-> kind, text |-> text \o <<"nl">>]
SmallDeclarations ==
  {DeclarationText("braces", <<"f", "(", ")", "{", "nl", "}">>),
   DeclarationText("braces", <<"f", "(", "{", "a", "}", ")", "{", "nl", "{", "}", "nl", "}">>),
   DeclarationText("braces", <<"f", "{", "//", "}", "quote", "nl", "/*", "/*", "*/", "}", "nl", "*/", "}">>),
   DeclarationText("braces", <<"f", "{", "quote", "}", "\\", "quote", "}", "quote", "nl", "tick", "}", "nl", "tick", "}">>),
   DeclarationText("braces", <<"f", "{", "raw", "}", "\\", "quote", "'", "}", "'", "nl", "'", "a", "nl", "}">>),
   DeclarationText("semicolon", <<"f", "(", ")", ";">>),
   DeclarationText("expression", <<"f", "(", ")", "=", "a">>)}

BudgetFile(path, component, declarations) ==
  LET source == FlattenSeq([k \in DOMAIN declarations |-> declarations[k].text])
      lines == <<[indent |-> 0, blank |-> FALSE], [indent |-> 4, blank |-> FALSE], [indent |-> 0, blank |-> TRUE],
                 [indent |-> 2, blank |-> FALSE], [indent |-> 0, blank |-> FALSE]>>
      python == declarations = <<>>
      Starts(j) == 1 + Cardinality({k \in DOMAIN FlattenSeq([d \in 1..(j - 1) |-> declarations[d].text]) :
                                      FlattenSeq([d \in 1..(j - 1) |-> declarations[d].text])[k] = "nl"})
  IN  [path |-> path, component |-> component, readable |-> path # "unreadable", python |-> python,
       source |-> source, lines |-> lines, declarations |-> declarations,
       functions |-> IF python THEN {1, 5} ELSE {Starts(j) : j \in DOMAIN declarations}]

BudgetReports ==
  {[tool |-> "budgets", limits |-> [file |-> file, function |-> function, cycles |-> cycles],
    cycles |-> {{"p", "q"}, {"q", "r"}},
    files |-> <<BudgetFile("p", component, <<d, e>>), BudgetFile("q", Nothing, <<>>), BudgetFile(path, "B", <<>>)>>] :
     d \in SmallDeclarations, e \in SmallDeclarations, component \in {"A", Nothing}, path \in {"r", "unreadable"},
     file \in {Nothing, 4}, function \in {1, 2}, cycles \in {1}}

ObservedGraph(edges) == [folder |-> [f \in 1..5 |-> <<1, 1, 2, 3, Nothing>>[f]], edges |-> edges]
FileLink(from, to, kind) == [from |-> from, to |-> to, kind |-> kind]
ObservedEdges == <<FileLink(1, 3, "imports"), FileLink(2, 3, "imports"), FileLink(3, 1, "calls"), FileLink(1, 2, "imports"),
                   FileLink(3, 4, "imports"), FileLink(4, 5, "imports"), FileLink(1, 4, "contains"), FileLink(4, 3, "calls")>>

InventoryReports ==
  {[tool |-> "inventory", detail |-> detail, max |-> max, room |-> room,
    graphs |-> <<ObservedGraph(ObservedEdges), ObservedGraph(SubSeq(ObservedEdges, 1, n))>>] :
     detail \in {"summary", "full"}, max \in 1..4, room \in {Nothing} \cup (0..5), n \in {0, 2, 4, 6, 8}}

SmallReports == CapabilityReports \cup BudgetReports \cup InventoryReports

-----------------------------------------------------------------------------
(* Workflows, actions, scripts and the changes they are to guard.           *)

CiStep(lines, uses) ==
  [name |-> <<>>, lines |-> lines, uses |-> uses, condition |-> Nothing, tolerated |-> Nothing, dir |-> Nothing]
CiJob(id, steps) ==
  [id |-> id, condition |-> Nothing, needs |-> {}, tolerated |-> Nothing, dir |-> Nothing, matrix |-> Nothing,
   reusable |-> Nothing, steps |-> steps]
CiWorkflow(name, filters, jobs) ==
  [path |-> <<".github", "workflows", name>>, extension |-> "yml", problem |-> Nothing, triggers |-> {"push", "pull"},
   filters |-> filters, dir |-> Nothing, jobs |-> jobs]
CiAction(steps) ==
  [path |-> <<".github", "actions", "local", "action">>, extension |-> "yml", problem |-> Nothing, composite |-> TRUE,
   steps |-> steps]
CiScript(name, lines) == [path |-> <<"scripts", name>>, extension |-> "sh", problem |-> Nothing, lines |-> lines]
CiPackage(scripts) == [path |-> <<"package.json">>, extension |-> "json", problem |-> Nothing, scripts |-> scripts]
CiPattern(negated, path) == [negated |-> negated, path |-> path]

CargoTest == <<"cargo", "test">>
FmtCheck == <<"cargo", "fmt", "--check">>
UsesLocal == <<".github", "actions", "local">>

CiRepository(files) ==
  [files |-> files, ignore |-> <<>>, excluded |-> <<>>, scope |-> Nothing, max |-> 9,
   scenario |-> [event |-> "push", branch |-> <<"main">>, files |-> {<<"src", "a">>}],
   changed |-> Nothing, members |-> {}, components |-> {}, rules |-> <<>>]
CheckedBy(lines) == CiRepository(<<CiWorkflow("ci", <<>>, <<CiJob("one", <<CiStep(lines, Nothing)>>)>>)>>)

(* Every filter of two patterns, and every scenario it is read in.          *)
CiPaths == {CiPattern(FALSE, <<"src", "**">>), CiPattern(FALSE, <<"docs", "**">>), CiPattern(FALSE, <<"src", "a">>),
            CiPattern(TRUE, <<"src", "a">>), CiPattern(FALSE, <<"*", "a">>), CiPattern(FALSE, <<"**">>)}
CiFilters ==
  {<<>>} \cup {"paths" :> <<p, q>> : p \in CiPaths, q \in CiPaths}
  \cup {"branches" :> <<[CiPattern(FALSE, b) EXCEPT !.negated = n]>> :
           b \in {<<"main">>, <<"dev">>, <<"**">>}, n \in BOOLEAN}
  \cup {(f :> <<CiPattern(FALSE, <<"src", "a">>)>>) @@ rest :
           f \in {"paths-ignore", "types"}, rest \in {<<>>, "paths" :> <<CiPattern(FALSE, <<"src", "**">>)>>}}
CiScenarios ==
  {[event |-> event, branch |-> branch, files |-> files] :
     event \in {Nothing, "push", "tag"}, branch \in {Nothing, <<"main">>},
     files \in {Nothing, {}, {<<"src", "a">>}, {<<"docs", "b">>, <<"lib", "a">>}}}
TriggeredChecks ==
  {[CiRepository(<<CiWorkflow("ci", "push" :> filter, <<CiJob("one", <<CiStep(<<CargoTest>>, Nothing)>>)>>)>>)
      EXCEPT !.scenario = scenario] : filter \in CiFilters, scenario \in CiScenarios}

(* Conditions, needs, tolerated failures and the action a step uses.        *)
CiTexts == {<<CargoTest>>, <<<<"echo", "cargo", "test">>, CargoTest, CargoTest>>, <<<<"cargo", "test", "||", "true">>>>,
            <<<<"if", "cargo", "audit">>, <<"cargo", "llvm-cov">>, <<"cargo", "clippy">>>>,
            <<<<"bash", "scripts/check">>, <<"sh", "scripts/lint">>>>, <<<<"npm", "run", "lint">>, <<"npx", "jest">>>>,
            <<<<"npx", "tsc", "--noEmit">>, <<"go", "vet">>, <<"./scripts/check">>>>,
            <<<<"yarn", "run", "none">>, <<"cargo", "tree", "grep">>, <<"cargo", "llvm-cov", "--fail-under-lines", "85">>>>}
CiBodies == <<CiPackage("lint" :> <<"npx", "eslint">>), CiScript("check", <<FmtCheck>>), CiScript("lint", <<FmtCheck, CargoTest>>)>>
ConditionedChecks ==
  {CiRepository(<<CiAction(<<[CiStep(<<FmtCheck, CargoTest>>, Nothing) EXCEPT !.condition = c, !.tolerated = t]>>),
      CiWorkflow("ci", <<>>, <<[CiJob("one", <<CiStep(text, Nothing),
                                   [CiStep(<<CargoTest>>, Nothing) EXCEPT !.condition = c, !.tolerated = t],
                                   CiStep(Nothing, UsesLocal)>>)
                                 EXCEPT !.condition = d, !.needs = needs]>>)>> \o CiBodies) :
     c \in {Nothing, "true", "false", "expression"}, t \in {Nothing, "true", "expression"}, text \in CiTexts,
     d \in {Nothing, "false"}, needs \in {{}, {"two"}}}

(* What cannot be read: documents, bodies, working directories.             *)
UnreadChecks ==
  {[CiRepository(<<[CiAction(<<CiStep(<<FmtCheck>>, nested)>>) EXCEPT !.composite = composite],
      [CiWorkflow("bad", <<>>, <<CiJob("two", <<CiStep(<<CargoTest>>, Nothing)>>)>>) EXCEPT !.problem = problem],
      CiWorkflow("ci", <<>>, <<[CiJob("one", <<CiStep(Nothing, uses)>>) EXCEPT !.reusable = reusable, !.matrix = matrix],
                               CiJob("three", <<>>)>>)>>)
      EXCEPT !.ignore = ignore, !.scope = scope] :
     composite \in BOOLEAN, nested \in {Nothing, UsesLocal}, problem \in {Nothing, "YAML aliases are unsupported"},
     uses \in {UsesLocal, <<"remote">>, <<".github", "..">>}, matrix \in {Nothing, "dynamic"}, scope \in {Nothing, "ci"},
     reusable \in {Nothing, <<".github", "workflows", "bad">>},
     ignore \in {<<>>, <<[form |-> "directory", path |-> <<".github", "workflows">>, negated |-> FALSE]>>,
                 <<[form |-> "extension", extension |-> "yml", negated |-> FALSE],
                   [form |-> "file", path |-> <<"workflows", "ci">>, negated |-> TRUE]>>}}
LostChecks ==
  {[CheckedBy(<<text>>) EXCEPT !.excluded = excluded, !.max = max,
      !.files = <<CiPackage(<<>>), [CiPackage(<<>>) EXCEPT !.path = <<"Cargo.toml">>]>> \o @ \o more] :
     text \in {CargoTest, <<"npm", "test">>}, max \in {0, 9},
     excluded \in {<<>>, <<[path |-> <<".github", "workflows", "big">>, reason |-> "too_large"]>>},
     more \in {<<>>, <<CiWorkflow("late", <<>>, <<CiJob("one", <<CiStep(<<CargoTest>>, Nothing)>>)>>),
                      CiScript("check", <<FmtCheck>>), CiScript("lint", <<FmtCheck>>)>>}}
BigChecks ==
  {[CheckedBy(<<CargoTest>>) EXCEPT !.files[1].jobs[1].steps = [k \in 1..4 |-> CiStep(<<CargoTest>>, Nothing)]]}
LocatedChecks ==
  {CiRepository(CiBodies \o <<[CiWorkflow("ci", <<>>, <<[CiJob("one", <<[CiStep(<<<<"npm", "run", "lint">>, <<"sh", "scripts/check">>>>, Nothing)
                                                 EXCEPT !.dir = dir]>>) EXCEPT !.dir = other]>>) EXCEPT !.dir = other]>>) :
     dir \in {Nothing, <<>>, <<"web">>, <<"..">>}, other \in {Nothing, <<"${{">>}}

(* A change of two members, the rules of its components and their checker.  *)
Verifying == <<"assert!(", "verify_architecture(", ")">>
CiSources == {<<Verifying>>, <<<<"//">> \o Verifying>>, <<<<"verify_architecture(", ")">>>>,
              <<<<"a", "/*">>, Verifying, <<"*/", "verify_architecture(", ")", "?">>>>, <<<<"/*">>, Verifying>>}
CiMember(id, targets, tasks) ==
  [id |-> id, name |-> id, path |-> <<id>>, manifest |-> <<id, "Cargo.toml">>, targets |-> targets, tasks |-> tasks]
ProtectedChanges ==
  {[CheckedBy(<<<<"npm", "run", "lint">>, check>>) EXCEPT
      !.files = @ \o <<[path |-> <<"b", "tests", "policy">>, extension |-> "rs", problem |-> Nothing, lines |-> source]>>,
      !.files[1].jobs[1].tolerated = tolerated, !.files[1].jobs[1].steps[1].dir = dir,
      !.members = {CiMember("a", {}, {"lint"}), CiMember("b", {[kind |-> "test", name |-> "policy", path |-> <<"tests", "policy">>]}, {})},
      !.components = {[id |-> "A", paths |-> {<<"a">>}], [id |-> "B", paths |-> {<<"b">>, <<"a", "b">>}]},
      !.rules = <<[id |-> 1, from |-> {"A"}], [id |-> 2, from |-> {"A", "B"}], [id |-> 3, from |-> {"B"}]>>,
      !.changed = changed] :
     source \in CiSources, tolerated \in {Nothing, "true"}, dir \in {Nothing, <<"a">>, <<"b">>},
     check \in {<<"cargo", "test", "--test", "policy">>, <<"cargo", "test", "-p", "b", "--test", "policy">>, CargoTest,
                <<"cargo", "test", "--test", "none">>, <<"weavatrix", "tool", "verify_architecture">>},
     changed \in {<<>>, <<<<"a", "x">>>>, <<<<"a", "b">>, <<"b", "tests", "policy">>>>,
                  [k \in 1..6 |-> <<<<"a">>, <<"b">>, <<"c">>>>[1 + (k % 3)]]}}

SmallWorkflows == TriggeredChecks \cup ConditionedChecks \cup UnreadChecks \cup LostChecks \cup BigChecks
                    \cup LocatedChecks \cup ProtectedChanges

-----------------------------------------------------------------------------
(* Traces of three lines over two files of the same name.                   *)

TraceSymbol(by, parts) == [by |-> by, parts |-> parts]
TraceLine(form, symbol, path, numbers) == [form |-> form, symbol |-> symbol, path |-> path, numbers |-> numbers]
TracePaths == {<<"com", "f">>, <<"other", "f">>, <<"f">>, <<"g">>, <<"node_modules", "f">>}
TraceLines ==
  {TraceLine("at", s, p, n) : s \in {Unstated, TraceSymbol(".", <<"com", "T", "m">>)}, p \in TracePaths \cup {Unstated}, n \in {<<>>, <<3, 1>>}}
  \cup {TraceLine("at", TraceSymbol(".", parts), <<"f">>, <<3>>) :
           parts \in {<<"java", "lang", "run">>, <<"object", "exports", "run">>, <<"m">>}}
  \cup {TraceLine("python", TraceSymbol(".", <<"m">>), <<"com", "f">>, <<5>>), TraceLine("text", Unstated, Unstated, <<>>),
        TraceLine("panic", Unstated, <<"com", "f">>, <<3, 1>>), TraceLine("panic", Unstated, <<"f">>, <<>>)}
Numbered(name) == TraceLine("numbered", TraceSymbol("::", <<"std", name>>), Unstated, <<>>)
TraceNode(kind, label, file, line) == [kind |-> kind, label |-> label, file |-> file, line |-> line]
TraceNodes ==
  <<TraceNode("file", <<"com", "f">>, Unstated, Unstated), TraceNode("function", "m", <<"com", "f">>, 1),
    TraceNode("function", "n", <<"com", "f">>, 2), TraceNode("function", "m", <<"com", "f">>, 4),
    TraceNode("function", "p", <<"com", "f">>, Unstated), TraceNode("file", <<"other", "f">>, Unstated, Unstated)>>
SmallTraces ==
  {[lines |-> <<first, second, third>>, max |-> max, nodes |-> nodes] :
     first \in {Numbered("boom"), TraceLine("numbered", TraceSymbol("::", <<"fixture", "n">>), Unstated, <<>>)}, second \in TraceLines,
     third \in {TraceLine("at", Unstated, <<"com", "f">>, <<3, 1>>), Numbered("last"), TraceLine("at", Unstated, <<"f">>, <<1>>)},
     max \in {1, 5}, nodes \in {TraceNodes, SubSeq(TraceNodes, 1, 5)}}

-----------------------------------------------------------------------------
(* Series over four revisions of two files; a revision that is not known.   *)

Body(name, line, body) == [name |-> name, line |-> line, body |-> body]
Blob(blob, text, declarations) == [blob |-> blob, text |-> text, declarations |-> declarations]
MeasuredRevisions ==
  [A |-> [f |-> Blob(1, TRUE, {Body("m", 1, 1), Body("n", 2, 1)}), g |-> Blob(1, TRUE, {Body("p", 1, 1)})],
   B |-> [f |-> Blob(2, TRUE, {Body("m", 1, 2), Body("n", 2, 1)}), g |-> Blob(1, TRUE, {Body("p", 1, 1)})],
   C |-> [f |-> Blob(3, TRUE, {Body("m", 1, 2), Body("n", 3, 1)}), g |-> Blob(2, FALSE, {Body("p", 1, 1)})],
   D |-> [f |-> Blob(3, TRUE, {Body("m", 1, 2), Body("n", 3, 1)})]]
Column(word, case) == [word |-> word, case |-> case]
MeasuredRow(revision, values) == [revision |-> revision, values |-> values]
MeasuredRows == {MeasuredRow(r, <<v, 1>>) : r \in {"A", "B", "C", "D"}, v \in {0, 10}}
                  \cup {MeasuredRow("zz", <<7, 1>>), MeasuredRow(Nothing, <<7, 1>>), MeasuredRow("A", <<Nothing, 1>>)}
MeasuredSeries(columns, metric, rows, max, flat, lower, hidden) ==
  [columns |-> columns, metric |-> metric, rows |-> rows, max |-> max, flat |-> flat, lowerIsBetter |-> lower,
   hidden |-> hidden, revisions |-> MeasuredRevisions]
SmallSeries ==
  {MeasuredSeries(<<Column("time", "upper"), Column("time", "lower")>>, Column("time", "upper"), <<first, second, third, fourth>>,
                  max, 50, TRUE, {}) :
     first \in {MeasuredRow("A", <<10, 1>>), MeasuredRow("B", <<0, 1>>)}, second \in MeasuredRows, third \in MeasuredRows,
     fourth \in {MeasuredRow("B", <<12, 1>>), MeasuredRow("D", <<-6, 1>>)}, max \in {2, 4}}
  \cup {MeasuredSeries(columns, Column("time", "lower"), <<first, MeasuredRow("B", <<14, 12>>), MeasuredRow("B", <<14>>),
                       MeasuredRow("D", <<8, 20>>)>>, max, flat, lower, hidden) :
           columns \in {<<Column("time", "upper"), Column("time", "lower")>>, <<Column("time", "upper")>>, <<Column("note", "lower")>>},
           first \in MeasuredRows, max \in {1, 3}, flat \in {0, 50}, lower \in BOOLEAN, hidden \in {{}, {"g"}}}

-----------------------------------------------------------------------------
(* Changes of three files beside two suites; f tracked and perhaps not      *)
(* scanned, n new.                                                          *)

TestGraphs ==
  {{}, {<<"f.test", "f">>}, {<<"g", "f">>, <<"t.test", "g">>}, {<<"g", "f">>, <<"t.test", "g">>, <<"f.test", "f">>, <<"f", "g">>},
   {<<"f.test", "f">>, <<"t.test", "f">>, <<"g", "f">>}}
TestChange(files, target, diff, base, disk, scanned, graph, limits) ==
  [files |-> files, target |-> target, diff |-> diff, base |-> base, disk |-> disk, scanned |-> scanned,
   head |-> NoFile, baseIsHead |-> TRUE, ignored |-> {},
   nodes |-> scanned, suites |-> {"f.test", "t.test"}, stem |-> [p \in Paths |-> p],
   covers |-> [p \in Paths |-> IF p = "f.test" THEN "f" ELSE "t"],
   edges |-> {[from |-> e[1], to |-> e[2]] : e \in {d \in graph : d[1] \in scanned /\ d[2] \in scanned}},
   depth |-> limits[1], max |-> limits[2], shown |-> limits[3]]
TestLimits == {<<2, 3, 2>>, <<3, 1, 1>>, <<1, 3, 2>>, <<3, 2, 2>>}
Tracked(f) == [p \in {"f", "g", "f.test", "t.test"} |-> IF p = "f" THEN f ELSE 1]
OnDisk == {Tracked(1), Tracked(2), [p \in Paths |-> IF p = "n" THEN 1 ELSE Tracked(2)[p]],
           [p \in {"g", "t.test", "f.test"} |-> IF p = "t.test" THEN 2 ELSE 1]}
ListedChanges ==
  {TestChange(files, target, diff, Tracked(1), Tracked(2), DOMAIN Tracked(2), graph, limits) :
     files \in {NoFile, <<"f">>, <<"g", "f">>, <<"t.test", "n">>}, target \in {NoFile, "f"},
     diff \in {NoFile, <<[mark |-> "---", path |-> "f"], [mark |-> "+++", path |-> NoFile], [mark |-> "text", path |-> "n"]>>},
     graph \in TestGraphs, limits \in TestLimits}
FoundChanges ==
  {[TestChange(NoFile, NoFile, NoFile, Tracked(1), disk, scanned, graph, <<2, 3, 2>>) EXCEPT
      !.head = head, !.baseIsHead = baseIsHead, !.ignored = ignored] :
     disk \in OnDisk, scanned \in {DOMAIN d : d \in OnDisk} \cup {{"g", "f.test", "t.test"}},
     graph \in TestGraphs, head \in {NoFile, Tracked(2)}, baseIsHead \in BOOLEAN, ignored \in {{}, {"n"}}}
SmallSelections ==
  ListedChanges \cup {c \in FoundChanges : c.scanned \subseteq DOMAIN c.disk \cup {"f"}}

-----------------------------------------------------------------------------
(* Three commits of files 1 to 4, and graphs of two files.                  *)

SmallCommit(root, paths) == [root |-> root, paths |-> paths]
SmallCommits == {SmallCommit(FALSE, paths) : paths \in SUBSET (1..4)} \cup {SmallCommit(TRUE, {1, 2})}
HistoryNode(id, file, span, hash) == [id |-> id, file |-> file, span |-> span, hash |-> hash]
HistoryEdge(from, to, kind) == [from |-> from, to |-> to, kind |-> kind]
HistoryGraph(nodes, edges) ==
  [nodes |-> nodes, edges |-> {e \in edges : {e.from, e.to} \subseteq {n.id : n \in nodes}}]
HistoryEdges == {HistoryEdge("m", "n", "calls"), HistoryEdge("m", "p", "calls"), HistoryEdge("n", "p", "imports"), HistoryEdge("q", "m", "calls")}
HistoryNodes(hash) ==
  {{HistoryNode("m", "f", 1, hash), HistoryNode("n", "f", 2, hash), HistoryNode("p", "g", 1, hash)},
   {HistoryNode("m", "f", 1, hash), HistoryNode("n", "f", 3, hash), HistoryNode("q", "f", 2, hash)},
   {HistoryNode("m", "f", 1, hash), HistoryNode("q", "h", 2, hash), HistoryNode("p", "g", 1, hash)}}
SmallHistories ==
  {[analytics |-> TRUE, commits |-> <<first, second, SmallCommit(FALSE, {1, 2, 4})>>, degrees |-> [p \in {1, 2} |-> p], top |-> 2, pairs |-> 1,
    minimum |-> minimum, baseline |-> HistoryGraph({}, {}), target |-> HistoryGraph({}, {})] :
     first \in SmallCommits, second \in SmallCommits, minimum \in {1, 2}}
  \cup {[analytics |-> FALSE, commits |-> <<>>, degrees |-> [p \in {} |-> 0], top |-> 0, pairs |-> 0, minimum |-> 0,
         baseline |-> HistoryGraph(before, old), target |-> HistoryGraph(after, new)] :
           before \in HistoryNodes("git"), after \in HistoryNodes("scan"),
           old \in {HistoryEdges} \cup {HistoryEdges \ {e} : e \in HistoryEdges}, new \in {HistoryEdges, {}}}

-----------------------------------------------------------------------------
(* SchemaImpact: pairs of schemas of one tool, with open and closed objects  *)
(* and each kind of bound, then catalogs that several files hold.            *)

RequestValues ==
  [type : {"integer"}, v : {0, 2, 4, 6}] \cup [type : {"number"}, v : {3}]
    \cup [type : {"boolean"}, v : {0, 1}] \cup [type : {"string"}, v : {2, 3, 4, 6}]

AnyBounds == [k \in {"imin", "emin", "imax", "emax", "lmin", "lmax"} |-> Nothing]
Property(type) == [ref |-> FALSE, words |-> {}, type |-> type, enum |-> Nothing, bounds |-> AnyBounds]
OneOf(type, values) == [Property(type) EXCEPT !.enum = {[type |-> type, v |-> v] : v \in values}]
Bounded(type, form, at) == [Property(type) EXCEPT !.bounds[form] = at]

ToolProperties ==
  {Property("integer"), Property("number"), Property("string"), Property("boolean"),
   OneOf("boolean", {0, 1}), OneOf("boolean", {0}), OneOf("string", {2}), OneOf("string", {2, 4}),
   Bounded("integer", "imin", 2), Bounded("integer", "emin", 2), Bounded("number", "imax", 4),
   Bounded("number", "emax", 4), Bounded("number", "imax", 3), Bounded("string", "lmax", 1),
   Bounded("string", "lmin", 2)}

Schema(additional, required, properties) ==
  [ref |-> FALSE, words |-> {}, root |-> "object", additional |-> additional, required |-> required,
   properties |-> properties]

ToolSchemas ==
  {Schema(additional, {}, Nothing) : additional \in {"absent", "false"}}
    \cup {Schema(additional, required, [p \in {"p"} |-> property]) :
            additional \in {"absent", "false"}, required \in {{}, {"p"}}, property \in ToolProperties}

UnknownSchemas ==
  {[Schema("false", {}, Nothing) EXCEPT !.words = {"oneOf"}], Schema("schema", {}, Nothing),
   [Schema("true", {}, Nothing) EXCEPT !.root = "absent"],
   Schema("true", {}, [p \in {"p"} |-> Property("array")]),
   Schema("true", {}, [p \in {"p"} |-> [Property("string") EXCEPT !.words = {"pattern"}]]),
   Schema("true", {}, [p \in {"p"} |-> [Property("integer") EXCEPT !.words = {"multipleOf"}]])}

Fetch(schema) == [name |-> "fetch", schema |-> schema, description |-> "fetches"]

Document(path, tools) ==
  [path |-> path, explicit |-> TRUE, named |-> TRUE, scope |-> "tools", cursor |-> FALSE, complete |-> TRUE,
   tools |-> tools, transforms |-> <<>>]

Inject(upstream, names) == [exposure |-> "fetch", upstream |-> upstream, inject |-> names]

Compared(files, skills, max) ==
  [files |-> files, before |-> <<"old">>, after |-> <<"new">>, skills |-> skills, max |-> max]

SchemaPairs ==
  {Compared(<<Document(<<"a", "old">>, <<Fetch(l)>>),
              [Document(<<"a", "new">>, <<Fetch(r)>>) EXCEPT !.transforms = transforms]>>, <<>>, 2) :
     l \in ToolSchemas, r \in ToolSchemas, transforms \in {<<>>, <<Inject("get", {"p"}), Inject("put", {})>>}}

PlainSchema == Schema("absent", {}, Nothing)
SmallSkills ==
  <<[path |-> <<"a", "skills", "s", "SKILL.md">>, declares |-> {"fetch"}],
    [path |-> <<"skills", "s", "SKILL.md">>, declares |-> {"fetch", "list"}],
    [path |-> <<"b", "skills", "s", "SKILL.md">>, declares |-> {"fetch"}]>>

CatalogPairs ==
  {Compared(<<Document(<<"a", "old">>, <<Fetch(schema), [Fetch(PlainSchema) EXCEPT !.name = "list"]>>)>>
              \o [k \in DOMAIN places |-> [Document(places[k], tools[k]) EXCEPT !.cursor = k = cut,
                                             !.explicit = explicit, !.complete = complete]],
            SmallSkills, max) :
     schema \in UnknownSchemas \cup {PlainSchema}, max \in 1..2, cut \in 0..2, explicit \in BOOLEAN,
     complete \in {TRUE, FALSE, Nothing}, places \in {<<<<"a", "new">>, <<"b", "new">>>>},
     tools \in {<<<<>>, <<>>>>, <<<<Fetch(PlainSchema)>>, <<>>>>,
                <<<<Fetch(PlainSchema)>>, <<[Fetch(PlainSchema) EXCEPT !.description = "gets"]>>>>,
                <<<<>>, <<Fetch(Nothing)>>>>}}

SmallComparisons == SchemaPairs \cup CatalogPairs

-----------------------------------------------------------------------------
(* AbiImpact: two artifacts of one or two members, the same or changed in    *)
(* one part, a third one of another contract, and a source that calls them;  *)
(* then sources of three calls.                                              *)

Param(type) == [type |-> type, indexed |-> FALSE, name |-> "a", components |-> <<>>]
AbiMember(kind, name, inputs) ==
  [kind |-> kind, name |-> name, inputs |-> inputs, outputs |-> <<>>, mutability |-> "view", anonymous |-> FALSE]

Paid == AbiMember("event", "Paid", <<[Param("address") EXCEPT !.indexed = TRUE], Param("uint")>>)
Pay == AbiMember("function", "pay", <<Param("address")>>)
Tuple == [Param("tuple") EXCEPT !.components = <<Param("address"), Param("uint256")>>]

PaidForms ==
  {Paid, [Paid EXCEPT !.anonymous = TRUE], [Paid EXCEPT !.inputs[2].type = "uint256"],
   [Paid EXCEPT !.inputs[1].indexed = FALSE, !.inputs[2].indexed = TRUE], [Paid EXCEPT !.inputs[1].name = "b"],
   [Paid EXCEPT !.name = "Sent"], [Paid EXCEPT !.kind = "error"]}
PayForms ==
  {Pay, [Pay EXCEPT !.inputs[1].type = "bytes32"], [Pay EXCEPT !.outputs = <<Param("bool")>>],
   [Pay EXCEPT !.inputs = <<Tuple>>], [Pay EXCEPT !.mutability = "payable"], [Pay EXCEPT !.kind = "event"]}
AbiForms == {<<paid, pay>> : paid \in PaidForms, pay \in PayForms}
              \cup {<<Pay, [Pay EXCEPT !.inputs[1].type = "bool"]>>, <<Paid>>, <<Paid, Pay, Pay, Pay>>, <<>>}

Artifact(path, members) == [path |-> path, whole |-> TRUE, members |-> members]
AbiCall(at, api, member) ==
  [at |-> at, end |-> at + 2, api |-> api, object |-> TRUE, spread |-> FALSE, abi |-> "abi", member |-> member]
Client(path, abi, calls) == [path |-> path, library |-> TRUE, imports |-> [l \in {"abi"} |-> abi], calls |-> calls]

AbiQuestion(sources, artifacts, max) ==
  [sources |-> sources, artifacts |-> artifacts, baseline |-> <<"old">>, candidate |-> <<"new">>, max |-> max]

AbiClients(abi) ==
  <<Client("c", abi, <<AbiCall(8, "readContract", "pay"), AbiCall(12, "decodeEventLog", "Paid")>>),
    Client("d", <<"b", "abi">>, <<AbiCall(8, "readContract", "pay"), AbiCall(12, "readContract", Nothing)>>)>>

AbiPairs ==
  {AbiQuestion(AbiClients(abi),
               <<Artifact(<<"a", "old">>, old), Artifact(<<"b", "abi">>, <<Pay>>),
                 Artifact(<<"a", "new">>, new)>>, max) :
     abi \in {<<"a", "old">>, <<"a", "new">>}, old \in AbiForms, new \in AbiForms, max \in {1}}
    \cup {AbiQuestion(AbiClients(<<"a", "old">>), <<Artifact(<<"a", "old">>, <<Paid, Pay>>),
                         [Artifact(<<"a", path>>, <<Pay>>) EXCEPT !.whole = whole]>>, 3) :
            path \in {"new", "other"}, whole \in BOOLEAN}

AbiCalls ==
  {[AbiCall(at, api, "pay") EXCEPT !.object = object, !.spread = ~object] :
     at \in {8, 12, 16}, api \in {"readContract", "getContract", "decodeEventLog"}, object \in BOOLEAN}
CallSources ==
  {AbiQuestion(<<[Client("c", <<"a", "old">>, <<first, second, third>>) EXCEPT !.library = library]>>,
               <<Artifact(<<"a", "old">>, <<Pay, Paid>>), Artifact(<<"a", "new">>, <<Paid>>)>>, 2) :
     first \in {c \in AbiCalls : c.at = 8}, second \in {c \in AbiCalls : c.at = 12},
     third \in {c \in AbiCalls : c.at = 16}, library \in BOOLEAN}

SmallAbis == AbiPairs \cup CallSources

-----------------------------------------------------------------------------
(* AbiTrace: graphs of up to four edges in every order and one with a short  *)
(* and a long way round, read again once in another order.                   *)

TraceEdge(from, to) == [from |-> from, to |-> to]
TraceEdges == {TraceEdge(1, 2), TraceEdge(2, 3), TraceEdge(1, 3), TraceEdge(4, 3), TraceEdge(1, 4)}
RoundWay == <<TraceEdge(3, 4), TraceEdge(4, 5), TraceEdge(5, 2), TraceEdge(5, 6)>>
TraceGraphs ==
  UNION {SetToSeqs(edges) : edges \in {e \in SUBSET TraceEdges : Cardinality(e) <= 4}}
    \cup {<<TraceEdge(1, 2), TraceEdge(3, 1)>> \o RoundWay, <<TraceEdge(3, 1), TraceEdge(1, 2)>> \o RoundWay}
SmallTraceQuestions ==
  {[graphs |-> <<graph, Reverse(graph)>>, seed |-> 1, depth |-> depth, max |-> max] :
     graph \in TraceGraphs, depth \in 1..3, max \in {2, 4}}

-----------------------------------------------------------------------------
(* The components *)

VARIABLES mode, given, state

vars == <<mode, given, state, selectionVars, verifyVars, historyVars, traceVars, apiVars, nameVars,
          extractionVars, scanVars>>

(* TestSelection outside a call.                                             *)
Resting ==
  /\ request = NoFile /\ stage = "idle" /\ listed = <<>> /\ considered = 0
  /\ waiting = <<>> /\ reached = {} /\ cutShort = {} /\ reasons = {}

(* VerifiedChange outside a call.                                            *)
Idle ==
  /\ change = Nothing /\ due = "idle" /\ context = <<>> /\ checks = [c \in CheckNames |-> Nothing]
  /\ suggested = {} /\ answer = Nothing

(* RevisionHistory outside a call.                                           *)
Closed ==
  /\ history = {} /\ part = "idle" /\ walked = 0 /\ frequency = <<>> /\ coupling = <<>>
  /\ rolled = <<>> /\ compared = {}

(* StackTrace outside a call.                                                *)
Unread ==
  /\ trace = {} /\ reading = "idle" /\ linesRead = 0 /\ pending = Unstated
  /\ frames = <<>> /\ mapped = <<>>

(* ApiContracts outside a call.                                              *)
Unasked ==
  /\ integration = {} /\ matched = {} /\ contracts = <<>> /\ unmatched = 0 /\ usedLabels = {}
  /\ client = 1 /\ mismatches = {} /\ verdict = Absent

(* NameResolution outside a call.                                            *)
Unparsed ==
  /\ parsedFiles = {} /\ resolving = "idle" /\ pendingItems = {} /\ symbolIndex = {}
  /\ pendingMethods = {} /\ resolvedEdges = {} /\ unresolvedImports = 0
  /\ forwards = {} /\ visibleFiles = {} /\ importBindings = {}

(* TransportExtraction outside a file.                                       *)
Unopened ==
  /\ sourceFile = {} /\ nextStatement = 0 /\ observations = {} /\ transports = {}
  /\ resources = {} /\ groups = {}

(* TransportContracts outside a question.                                    *)
Unsurveyed == estate = {} /\ scan = [answer |-> NoName]

Building == INSTANCE BuildModel WITH Trees <- SmallTrees

Reviewing == INSTANCE HealthReview WITH Reviews <- SmallReviews

Policing == INSTANCE PathPolicy WITH Policies <- SmallPolicies, Characters <- PathCharacters

SummaryShown == [coupling |-> 2, cycles |-> 1, components |-> 2]
Reporting == INSTANCE ArchitectureReport WITH Reports <- SmallReports, Shown <- SummaryShown

Guarding == INSTANCE CiRestrictions WITH Repositories <- SmallWorkflows, MaxConfigs <- 6, MaxSteps <- 3, Shown <- 4, Bound <- 2

Measuring == INSTANCE MeasuredSteps WITH Measured <- SmallSeries, Whole <- 12

Schemas == INSTANCE SchemaImpact WITH
  Comparisons <- SmallComparisons, Values <- RequestValues, Extra <- "extra"

Abis == INSTANCE AbiImpact WITH
  Questions <- SmallAbis, Apis <- <<"readContract", "getContract", "decodeEventLog">>, MaxMembers <- 3

Walking == INSTANCE AbiTrace WITH Questions <- SmallTraceQuestions

Init ==
  /\ mode \in Modes
  /\ \/ mode = "names" /\ NamesInit /\ given = Nothing /\ state = Nothing
     \/ mode = "events" /\ ScanInit /\ given = Nothing /\ state = Nothing
     \/ mode = "extraction" /\ ExtractionInit /\ given = Nothing /\ state = Nothing
     \/ mode = "contracts" /\ ApiInit /\ given = Nothing /\ state = Nothing
     \/ mode = "build" /\ Building!Init
     \/ mode = "changes" /\ VerifyInit /\ given = Nothing /\ state = Nothing
     \/ mode = "reviews" /\ Reviewing!Init
     \/ mode = "policies" /\ Policing!Init
     \/ mode = "reports" /\ Reporting!Init
     \/ mode = "guards" /\ Guarding!Init
     \/ mode = "traces" /\ TraceInit /\ given = Nothing /\ state = Nothing
     \/ mode = "series" /\ Measuring!Init
     \/ mode = "tests" /\ SelectionInit /\ given = Nothing /\ state = Nothing
     \/ mode = "history" /\ HistoryInit /\ given = Nothing /\ state = Nothing
     \/ mode = "schemas" /\ Schemas!Init
     \/ mode = "abis" /\ Abis!Init
     \/ mode = "walks" /\ Walking!Init
  /\ mode # "tests" => Resting
  /\ mode # "changes" => Idle
  /\ mode # "history" => Closed
  /\ mode # "traces" => Unread
  /\ mode # "contracts" => Unasked
  /\ mode # "names" => Unparsed
  /\ mode # "extraction" => Unopened
  /\ mode # "events" => Unsurveyed

Next ==
  /\ UNCHANGED mode
  /\ \/ mode = "names" /\ NamesNext /\ UNCHANGED <<given, state>>
     \/ mode = "events" /\ ScanNext /\ UNCHANGED <<given, state>>
     \/ mode = "extraction" /\ ExtractionNext /\ UNCHANGED <<given, state>>
     \/ mode = "contracts" /\ ApiNext /\ UNCHANGED <<given, state>>
     \/ mode = "build" /\ Building!Next
     \/ mode = "changes" /\ VerifyNext /\ UNCHANGED <<given, state>>
     \/ mode = "reviews" /\ Reviewing!Next
     \/ mode = "policies" /\ Policing!Next
     \/ mode = "reports" /\ Reporting!Next
     \/ mode = "guards" /\ Guarding!Next
     \/ mode = "traces" /\ TraceNext /\ UNCHANGED <<given, state>>
     \/ mode = "series" /\ Measuring!Next
     \/ mode = "tests" /\ SelectionNext /\ UNCHANGED <<given, state>>
     \/ mode = "history" /\ HistoryNext /\ UNCHANGED <<given, state>>
     \/ mode = "schemas" /\ Schemas!Next
     \/ mode = "abis" /\ Abis!Next
     \/ mode = "walks" /\ Walking!Next
  /\ mode # "tests" => UNCHANGED selectionVars
  /\ mode # "changes" => UNCHANGED verifyVars
  /\ mode # "history" => UNCHANGED historyVars
  /\ mode # "traces" => UNCHANGED traceVars
  /\ mode # "contracts" => UNCHANGED apiVars
  /\ mode # "names" => UNCHANGED nameVars
  /\ mode # "extraction" => UNCHANGED extractionVars
  /\ mode # "events" => UNCHANGED scanVars

Spec == Init /\ [][Next]_vars

-----------------------------------------------------------------------------
(* The properties of the modules, each about the behaviours of its own      *)
(* operation; the module that is named states it and says what it is about. *)
(* NoSuiteIsMissed is TestSelection's own, VerdictIsEarned VerifiedChange's, *)
(* HistoryAddsUp RevisionHistory's, FramesAreMapped StackTrace's,           *)
(* ContractsAgree ApiContracts', NamesAreResolved NameResolution's,         *)
(* ExactIsProven TransportExtraction's and ContractsAreReal                 *)
(* TransportContracts'.                                                     *)

TopologyIsWhole == mode = "build" => Building!TopologyIsWhole
ReviewIsSound == mode = "reviews" => Reviewing!ReviewIsSound
RulesAreEvaluated == mode = "policies" => Policing!RulesAreEvaluated
ReportsAreEvidence == mode = "reports" => Reporting!ReportsAreEvidence
ChecksAreEvidence == mode = "guards" => Guarding!ChecksAreEvidence
StepsAreWhole == mode = "series" => Measuring!StepsAreWhole
(* A verdict on tools, a change of an ABI and a walk over it are what the  *)
(* files say.                                                              *)
ImpactsAreProven ==
  /\ mode = "schemas" => Schemas!VerdictsAreProven
  /\ mode = "abis" => Abis!ChangesAreReal
  /\ mode = "walks" => Walking!TraceIsHonest
UnsupportedIsUndetermined == mode = "schemas" => Schemas!UnsupportedIsUndetermined
DepthIsWalked == mode = "walks" => Walking!DepthIsWalked
=============================================================================
