# TLA+ verification of weavatrix-rust

weavatrix-rust turns source repositories into a typed graph (files, symbols,
endpoints, agents, contracts), keeps the graphs of recently used repositories
in one process, and answers some fifty read-only operations about them
(architecture policy, impact, history, health, traces across services). This
directory holds TLA+ models of that code, the TLC configurations that check
them on small instances, and TLAPS proofs about them.

All paths below are relative to the repository root; the Rust sources are under
`src/`.

## 1. Inventory

### 1.1 Components

| Component | Files | State it keeps | Operations |
| --- | --- | --- | --- |
| Engine session | `src/engine/session.rs`, `src/engine/mod.rs`, `src/operations/mod.rs` | the active `RepositoryState`, `known_states` (root to state), `last_used` (root to instant), `tool_cache` | `open`, `rebuild`, `refresh_if_stale`, `open_repository(_with_build)`, `call`, `ensure_repository_state`, `remember_tool_result`, `unload_idle_at` |
| Repository state | `src/engine/repository_state.rs` | immutable snapshot, graph, scan, evidence; two lazily initialised cells (`weak_components`, `census`) | `build`, `from_scan`, `coupled_components`, `warm_communities`, `resolve_node`, `git_head` |
| Evidence capture | `src/model/captured.rs` | the bytes and hashes of the evidence files of one instant | `capture`, `generation` |
| Analyzer pipeline | `src/analyzer/pipeline.rs` | a cursor and a locked vector shared by the parsing threads; one buffer and one batch per scanner thread | `analyze_with_report`, `analyze_report`, `parse_parallel` |
| Analyzer resolution | `src/analyzer/references.rs`, `imports/`, `state/`, `mounts.rs`, `support.rs` | symbol and file indexes of one analysis | `integrate`, `resolve_references`, import candidates, `into_snapshot` |
| Language adapters | `src/language/**` | none between files | per-language parsing to `ParsedSource`; agent, Dify, Mermaid, n8n, Web3, Protobuf, GraphQL, YAML readers |
| Graph operations | `src/operations/graph/**`, `domain_walk/`, `visibility.rs` | none | path, query, dependents, trace, pagination, communities |
| Architecture policy | `src/operations/architecture/**` | none | firewall rules, verdict against a baseline, reachability, budgets, observed components and cycles |
| Change and history | `src/operations/history/**`, `src/operations/workflow/**` | none | diff of revisions, co-change, change impact, verified change, stack traces |
| Service contracts | `src/operations/transport_contracts/**`, `workflow/api_trace` | none | HTTP, GraphQL, broker and RPC contracts matched across repositories |
| Health | `src/operations/health/**`, `perf/` | none | dead code, cycles, clones, coverage, dependencies, hot paths |
| Build and CI | `src/operations/build/**`, `ci/**` | none | build graph, action inventory and restrictions |
| Agent, Dify, n8n, Web3, diagram operations | `src/operations/{agent,dify,n8n,web3,diagram,occurrence}` | none | views, impact, schema and ABI comparison |
| Catalog and limits | `src/operations/catalog/**`, `token_budget.rs`, `args.rs` | none | the operation table, argument validation, response budgets |
| Report and CLI | `src/report/**`, `src/main.rs`, `src/lib.rs` | none | HTML and Markdown, process exit codes |

### 1.2 Interactions

A session owns one active state and a shelf of others. Every entry point takes
`&mut self`, so operations of one session never overlap; what they race with is
the file system, which other programs write between the scan, the parse and the
evidence capture of a single operation, and the clock, which passes the idle
window during long builds. `operations::call` prepares the session (unloads
what is idle), checks the expected repository, dispatches, and finally applies
the token budget, which can still fail. A trace over several repositories loads
them one after another through `ensure_repository_state`, then looks all of
them up, and caches its answer under their revisions.

Inside a build, two thread schemes parse files: `parse_parallel` (a refresh)
hands out indices through an atomic cursor and collects results under a mutex;
the one-pass build parses inside the scanner's own threads and flushes a batch
when a visitor is dropped. Both then restore file order, so that the graph does
not depend on the schedule.

Everything after the parse is sequential and deterministic; what can go wrong
there is algorithmic: resolution priorities, reachability, matching, and above
all bounds and partial evidence. Nearly every operation may be cut by a limit,
may lack an input, or may be unable to read one, and then has to say so; an
operation that builds on others (`verified_change`, `select_tests`,
`ci_restrictions`) has to pass on what they could not see.

### 1.3 What makes each part correct, and what is hard about it

| Part | Correct when | Hard because |
| --- | --- | --- |
| Engine session | the live state is the remembered one, a graph is loaded exactly when it has a use time, no cached answer outlives a graph it is about, a failed operation changes nothing, every operation ends | writers race the scan, the parse and the capture; the clock passes the idle window inside an operation; one trace loads several repositories; each of five paths has to forget the cache |
| Analyzer pipeline | every file is parsed once, from its own bytes, and the result is the sequential one | threads claim, fail and panic in any order; buffers are reused; batches are flushed by destructors |
| Router mounts | a file has the prefixes of all chains of mounts that lead to it | a memoised depth-first search with a cycle guard and two limits |
| Graph operations | what is returned is part of the graph and was reached; what calls itself complete is; distances and paths are shortest | three limits cut at different places; filters, hubs and hidden nodes; four quotas filled in passes |
| Domain walks | uncut answers are whole, hops are shortest, cycles are real | ports and owners stand for each other without a hop; several relations share one limit |
| Change impact | every declaration is accounted for once, edits are walked, comments are not; every dependent is found in the right revision | ids, names and texts compete for pairs; two graphs with the same ids; one seed's cut makes the whole partial |
| Runtime cycles | the cycles are the strong components | an iterative Kosaraju with re-pushed nodes, over two different graphs |
| Architecture policy | PASS means the rules hold, for files with nothing accepted at least | fingerprints of findings are remembered while the code changes |
| Name resolution | a name means what the nearest scope that declares it uniquely says, and nothing is invented where nothing is declared | files are integrated in order, re-exports are forwarded in layers under two limits, excluded files exist but are not indexed |
| Transport contracts | a match is one the broker would deliver, exactness is claimed only where one transport fits, a silent or contradicted contract is not called connected | two limits over several repositories, aliases, wildcards of three kinds, reports of other runs and other revisions |
| Typed and HTTP contracts | a gate passes only on contracts that agree, and absence is only claimed of what was read whole | providers cut before they are compared; names in normalised forms; clients that do not parse |
| Verified change and audit | PASS has a reason for every check, and is not given on partial evidence; inherited debt is told from new | five checks, each of which may be cut, refused or inapplicable, and a baseline review with its own cap |
| Health | nothing reachable is called dead; families, dependencies and hot paths are those of the graph | filters, pages and cuts over closures; brace counting over text |
| Architecture rules and reports | every rule a contract states is applied as its patterns read; totals and pages agree with what they summarise | a hand-written expression compiler; captures carried from source to target; reports trimmed to a budget |
| Build topology | a manifest is the member of one place, nothing is lost, a file belongs where the nearest manifest says | six ecosystems with different globs, exclusions and nesting; claims made in one pass and read in another |
| CI restrictions | what applies was reached, what is complete was read, what is bound was verified | triggers, filters, conditions, softened steps, composite actions and scripts, under bounds |
| Stack traces | a frame is given the file that fits it, and the declaration around its line | places that follow their symbol on a later line; partial paths that fit several files |
| Performance series | each pair of neighbours is a step, and what is credited adds up to what was measured | rows without values, repeated revisions, a window, a baseline of zero |
| Test selection and history | no suite that a change reaches is missed; what is rolled up adds up to what differs | Git and the scan disagree about files; an edge has ends in two graphs |
| Changes of tools and ABIs | a verdict holds for every request, a removal is only claimed of catalogs read whole, and every member whose wire form changed has a row with the calls that are bound to it | keywords that are not understood; catalogs of several files, cut pages and transforms; overloads, anonymous events, indexed inputs; calls found by searching text |
| Web3 walk | an answer that is not truncated is whole, and the pages of a client are one walk of one revision | a bounded walk that takes the last node first; the repository is read again between pages |

Every hazard is listed in `PROJECT.json` under `hazards`, at its line and with
the properties that would notice it going wrong.

## 2. Modules

In the order in which they were written; a module below another one uses it.

| Module | Models | Kind |
| --- | --- | --- |
| `AnswerCache` | the promise of the answer cache, without saying how | abstract specification |
| `Session` | `struct Weavatrix`: the session, its callers, the disk and the clock | component, implements `AnswerCache` |
| `SessionProofs` | theorems about both | proofs |
| `ParallelParse` | `parse_parallel` | component |
| `OnePassParse` | `analyze_with_report` and the visitors of the scanner | component |
| `DataInduction` | induction over numbers, iterated functions, listings of a set and queues | lemmas for proofs |
| `AnalyzerParseProofs` | theorems about `ParallelParse`, `OnePassParse`, `MountPrefixes` and `NameResolution` | proofs |
| `GraphWalk` | `walk`, `query`, `dependents` | component |
| `GraphWalkProofs` | theorems about `GraphWalk`, `TransportExtraction` and `TransportContracts` | proofs |
| `BoundedPath` | `bounded_path`, `classify` | component |
| `RelatedPick` | `pick_related` | component |
| `EndpointTrace` | `execution_path` and the claim of completeness | component |
| `CoupledComponents` | `coupled_components` | component |
| `GraphSearchProofs` | theorems about `BoundedPath`, `EndpointTrace` and `ApiContracts` | proofs |
| `GraphGroupsProofs` | theorems about `RelatedPick`, `CoupledComponents` and `RuntimeCycles` | proofs |
| `MountPrefixes` | `prefixes` | component |
| `ChangeSymbols` | `diff`, `pair`, `unique`, `classify` | component |
| `ChangeRadius` | `walk_seeds`, `reverse_hits` | component |
| `ChangeProofs` | theorems about `ChangeSymbols`, `ChangeRadius`, `TestSelection` and `RevisionHistory` | proofs |
| `RuntimeCycles` | `runtime_dependency_cycles`, `strongly_connected_nodes` | component |
| `DomainWalk` | `walk_relation`, `relation_has_cycle` | component |
| `ArchitectureRatchet` | `verify`, `all_violations`, baseline and exceptions | component and its team |
| `ArchitectureProofs` | theorems about `ArchitectureRatchet`, `VerifiedChange` and `StackTrace` | proofs |
| `NameResolution` | `AnalysisState`: integration, imports, re-exports, references | component |
| `TransportContracts` | `event_contracts`: the scan under its bounds, runtime reports, matching, the gate | component |
| `TransportExtraction` | aliases, statements and calls of one source file | component |
| `ApiContracts` | `typed_contracts`, `http_contracts` and their comparison | component |
| `BuildModel` | `build_graph`: manifests, workspaces, members, targets | component |
| `VerifiedChange` | `verified_change`, `run_audit`, the runtime review and the debt against a baseline | component |
| `HealthReview` | dead code, dependencies, clone families, hot paths | component |
| `PathPolicy` | path patterns, templates, path rules, unresolved imports, validation | component |
| `ArchitectureReport` | capabilities, function and file budgets, the observed architecture in pages | component |
| `CiRestrictions` | `ci_restrictions`, `explain_restriction`, `ci_protection` | component |
| `StackTrace` | `map_stacktrace` | component |
| `MeasuredSteps` | `perf_attribution` | component |
| `TestSelection` | `select_tests`, changed files | component |
| `RevisionHistory` | `git_history` analytics, `graph_diff` | component |
| `SchemaImpact` | `agent_change_impact`: catalogs, schemas, their comparison and its consumers | component |
| `AbiImpact` | `web3_impact`: members of ABI artifacts, calls of client sources, rows of a comparison | component |
| `AbiTrace` | `web3_trace`: the walk, its pages and cursors, a repository that is read again | component |
| `MCSession`, `MCAnalyzerParse`, `MCGraphWalk`, `MCGraphQueries`, `MCOperations`, `MCAnswers` | instances for TLC with their inputs | model checking |

`map` in `PROJECT.json` gives the source lines of every definition. Operators
called "Mutant of ..." are wrong versions of the definition after them; each
is there to show that a property notices.

### 2.1 The session

`active`, `known`, `lastUsed` and `toolCache` are the four fields of `Weavatrix`;
`step`, `task`, `draft`, `ensured` and `reply` are the program counter, the
arguments and the locals of the operation that runs (`&mut self` allows one);
`disk`, `writes` and `now` are the environment. `asked` is history only.

A repository is two versions: the one of the sources the scan hashes, and the
one of the configuration that only the evidence capture reads. A loaded state
keeps the revision (the hash of the scan) and apart from it `content`, the
version that was parsed, because the code reads the disk twice and nothing
compares them. Each read of the disk is a step of its own, between which
`Write` may happen: `Analyze` scans and parses in one pass, `Refresh` scans,
`Compare` captures and compares generations, `Reparse` reads again, `Install`
captures and installs. Every step of the engine that can fail in the code
(`Fail`) does so nondeterministically. `Ensure` is one selector of a trace,
`Respond` the lookups, the cache and the answer. A malformed `token_budget` is
noticed after the operation (`lateError` in `Finish`).

Abstracted: hashes are collision-free (a revision is the version it hashes);
the incremental scan is exact (it is the scanner crate's promise); the parse of
the one-pass build reads each file once and so binds content and revision per
file, of which a repository is one version; the capture is one instant
(it reads its files one after another).
The live reads of the transport extractors appear as `answer.sources`, what the
disk held when an answer was computed.

### 2.2 The parsing threads

`ParallelParse` has one process per worker, whose steps are the atomic
`fetch_add` (`Claim`), the read and parse (`Fetch`, with the outcome of the file
chosen at the start: parsed, failed or panicking) and the push under the mutex
(`Push`). The scope ends when all workers have (`Collect`); a panic is passed on
there. `OnePassParse` has one process per visitor of the scanner, which receives
file starts, chunks and ends, reuses one buffer and flushes its batch when it is
dropped; a scan that fails may stop it in the middle of a file. It extends
`ParallelParse`, which has the sources and the outcomes of parsing them; what the
visitors push into their common sink is one sequence.

### 2.3 Operations over one graph

Each is a loop in the code, and a sequence of steps in its module: an action
takes the next node off the queue or looks at one edge. Where the code iterates
over edges in their index order and no property is about it, the order is left
open, which only adds behaviours. Nodes and edges are numbers; kinds are
strings; what the JSON looks like is left out. `GraphWalk` keeps the three
limits, the two modes, hubs, the frontier, the truncation reasons with their
priority (`Prefer`) and the hiding of nodes and cutting to budget of the two
callers. `WorkPerNode` and `WorkFloor` stand for the constants of `traverse`.
`EndpointTrace` has one action per loop of `execution_path` (handlers, expose
edges, owners, imports, members, calls), all of which push through one limit;
what seeds the walk over the calls is queued one node at a time.
`CoupledComponents` joins the ends of one edge in a step; the root of a node is
the smallest node that the edges looked at so far join it to.

### 2.4 Operations over a repository

`MountPrefixes` has the recursion of `prefixes` as an explicit stack of calls
(`calls`, the last one first) with the shared cache: `Ask` is an iteration of
`apply` over the files, `Follow` looks up the parent of the next mount, and
`Return` keeps what a call has collected and hands it to its caller. `ChangeSymbols` keeps for a declaration its place, name,
export flag, code and comment; id, fingerprint and `code_only` are functions of
them. `ChangeRadius` takes its seeds from there as data, walks two graphs, and
absorbs the hits of a seed one at a time, as the code does.
`RuntimeCycles` runs the same component algorithm first over files, then over
calls. `DomainWalk` has the projection to owners and the search for a cycle as
folds. `ArchitectureRatchet` puts `verify` into the hands of a team: `Edit`
changes the code, `Ratchet` writes the baseline, and `Verify` judges. A
fingerprint is the id of the rule and what the code puts behind it. The rules of
a contract are a sequence, since rules may share an id and then share
fingerprints: of an edge the finding of the first is kept, of a file that of the
last (`or_insert_with` and `insert` of one `BTreeMap`).

### 2.5 Operations that answer from one input

The seventeen modules from `NameResolution` to `AbiTrace` have one form.
`given` is the input: what the repository, the captured evidence, Git and the
caller's arguments hold when the operation is called. `state` is a record of the
operation's locals, of where it is, and of the answer. An action is one turn of
the loop the code runs in (a file, a manifest, a statement, an edge, a row, a
commit) or one phase between loops; the operators are the functions the loop
calls. The operations share no state, in the program either, and each begins in
every one of its inputs. `AbiTrace` alone is about several calls: a client follows
the cursor of a page, and between two calls the repository may be read again
(`Reload`), which changes the graph and the revision that cursors are bound to.

What the words in a file mean to the code is kept, what they are is not:

- a path is the sequence of its segments, a routing key or a command the sequence
  of its words, a pattern the sequence of its characters (`PathPolicy` runs
  compiler and machine on them);
- a statement, a manifest, a workflow step or a line of a trace is the record of
  the fields the code takes from it, with the outcomes of reading it (absent,
  unreadable, not understood) as values of their own;
- a name that is normalised is an identity with a spelling, so that two
  spellings of one name and two names are different cases;
- a schema keeps the keywords its comparison tells apart and a set of the words
  it does not read; a request is a value for each property out of a small set,
  with numbers counted in halves, and whether a schema accepts it is written
  down independently of the comparison;
- a selector or a topic is the signature it is the hash of, and an artifact holds
  one contract;
- the outcome of a library is data: clone pairs, parsed documents, the status Git
  reports. What the code makes of a bad outcome is modelled.

`VerifiedChange` takes what its checks find as data with their limitations, and
models how they combine; the findings themselves are those of `HealthReview`,
`ArchitectureRatchet` and `ApiContracts`. A finding of the runtime review is a
place (file, line, rule), in the order in which the code meets them, and its
identity is the rule, the path and the text of the line; debt is told in sets of
findings. `TestSelection` leaves the order of a walk open, as `GraphWalk` does,
and keeps its bound. The locals of these two and of `RevisionHistory`,
`StackTrace`, `ApiContracts`, `TransportExtraction` and `NameResolution` are
variables of their own (`checks`, `due`, `reached`, `frequency`, `frames`, `matched`, `visibleFiles` and
others), since there are proofs about them.

## 3. Runs

Deadlock is checked in the session runs. The other systems stop when they have
answered, and their configurations say so.

### 3.1 Runs that pass

| Run | Instance | Shows |
| --- | --- | --- |
| `session_safety` | two roots, two source versions, one configuration, three traces, cache of one, idle window 1, one tick, two writes; sources and configurations symmetric | the live state is the remembered one and graphs are loaded exactly when timed (`CopiesAgree`); a trace never loses a repository it loaded (`TraceKeepsItsStates`); what was asked for inside the window is loaded (`RequestedStayLoaded`); a failing operation leaves the target alone (`TargetChangesOnlyOnSuccess`); the session implements the abstract cache (`ImplementsAnswerCache`) |
| `session_progress` | as above with two configurations, one trace, no clock, no symmetry | every operation ends (`OperationsEnd`); whoever keeps refreshing sees the revision and evidence of the quiet disk in the end (`EvidenceCatchesUp`) |
| `analyzer_parse` | four files on three threads and on one; three streamed files, two visitors | every file once (`EachFileOnce`), the answer is the sequential one (`AnswerIsDeterministic`, `BuildIsDeterministic`), and it comes (`Returns`) |
| `graph_walk` | every multiset of three edges on three nodes, at most one filtered out, and one graph with two ways; a hub; two modes, three directions; depth 1 to 2, 2 to 4 nodes, work 3 to 4 | complete walks are closed (`CompleteIsClosed`), walks are witnesses (`WalkIsWitness`), distances are shortest and untruncated answers are whole (`ClaimsAreTrue`) |
| `graph_queries` | all graphs of four edges (paths), lists of up to four edges (related nodes), six edges (traces), four edges on five nodes (communities), with limits that cut | a path is a chain of calls, shortest, and absent only if there is none (`PathIsExact`); no node twice and a callee beside busy callers (`BundleIsFair`); a complete trace is exactly what the depth allows (`TraceIsExact`); communities are components (`CommunitiesAreComponents`) |
| `operations` | up to four mounts between four routers, every content of three places in two revisions, three dependencies of eight nodes, five links of a program, four flows of a platform, four contracts (one of two rules with one id) and every beginning of seven edges with two edits | prefixes are those of the chains of mounts (`PrefixesAreExact`); every declaration is accounted for once, edits are walked, comments are not (`ChangesAreExact`); an uncut radius is whole and an uncut walk too, and its cycle is one (`RadiusIsExact`, `WalkIsExact`); runtime cycles are the strong components (`CyclesAreExact`); PASS means the rules hold, the nearest target is reported, and a clean file stays guarded (`RatchetHolds`) |
| `answers` | the inputs of `MCAnswers`, seventeen families of them | one property per component, below |

The properties of `answers`. Each compares the answer with a definition that is
not the algorithm's (a quantifier over chains, over valuations of a pattern, over
scenarios, over the whole repository instead of the part that was kept):

| Property | States |
| --- | --- |
| `NamesAreResolved` | every edge of a reference has evidence in a scope the file reaches, a method belongs to one symbol of its owner's name, and the only symbol of an unqualified, unrenamed name that a file sees is what the reference becomes an edge to |
| `ContractsAreReal` | a match has a producer and a consumer that name the same thing or that a binding joins; no pair the broker would deliver is called a mismatch, except under a binding that ends in two `#`; a report of another revision, schema or time confirms and completes nothing, nor explains a computed destination; a file that could not be read fails the answer, unless its repository is the backend under another name or the bound on files is used up |
| `ExactIsProven` | no side of a contract is of a transport for which nothing speaks, and one that is called exact is of the one transport its call is known to come from or is written in the way of, never where several are known, however variables were assigned and reassigned before it |
| `ContractsAgree` | each client operation is a matched signature or one mismatch; a provider is called missing only if there is none or the answer says it was cut; an HTTP callsite is a call of that route |
| `TopologyIsWhole` | no package is lost, one that stands alone is in no workspace besides, local dependencies lead to members that are what they name, a script is cyclic exactly if it comes back to itself, a file has all the members around it |
| `VerdictIsEarned` | PASS, FAIL and UNKNOWN have their reasons in checks that were made, and a finding counts as new only if the baseline's review, read whole, does not have it |
| `ReviewIsSound` | nothing a root reaches is called dead, dependencies called unused or missing are, clone families hang together, nesting of loops is that of the text |
| `RulesAreEvaluated` | a contract is rejected exactly for a pattern outside the subset, else the edges its expressions select are the violations, with the captures of their source; unresolved imports a rule forbids are violations |
| `ReportsAreEvidence` | capabilities hold in the graph, measured functions are those of the text, following the cursors gives every edge once, totals count what there is, and what a list of the summary misses is told by its flag or, where a token budget took it, by the status |
| `ChecksAreEvidence` | a check that applies is reached in the scenario, complete means read, bound means verified |
| `FramesAreMapped` | the file of a frame fits it better than any other, its declaration is the nearest of that file, a symbol is used for the frames the trace states it for; where the trace names a runtime or a dependency nothing is matched |
| `StepsAreWhole` | each row is measured, skipped with a reason or older than the bound; deltas add up to the change of the series, credits to the deltas; isolated means alone |
| `NoSuiteIsMissed` | every tracked file that differs is among the changed ones, and every suite that depends on one within the depth is selected, unless that walk was cut |
| `HistoryAddsUp` | pairs are counted in the commits that hold both, no hotter file and no closer pair is left out, what is rolled up is the difference of the two graphs edge for edge, each entry counting what its files gained in the target and lost in the baseline; removed edges with an end in another file by now are excepted (`Uprooted`) |
| `ImpactsAreProven` | a schema change called compatible rejects no request that was accepted, one called incompatible rejects one, and a tool is called removed only if all that was read is whole; every ABI member whose wire form changed has a row, a silent misdecode is called one, and the consumers are the calls bound to it; a Web3 trace that is not truncated holds all that is connected, and its pages are one walk of one revision |

The exact statements are in the modules, each with the code it is about.

Why these bounds are enough to be interesting: two roots are what it takes to
switch away and come back, and a trace of two is what it takes to load one
while the other waits; two writes are what it takes to change a file and to
restore it; one tick is an idle window, so that a root becomes idle inside an
operation. A cache of one is full after one answer. Four files on three
threads let every thread claim again and run out while others work. In the
graph runs the limits are smaller than some of the graphs and larger than
others, so that each limit cuts somewhere and nowhere; three edges make a
cycle, a diamond needs four or five and is added by name where it matters
(`TwoWays`, `Diamond`, `LargerNeeds`). Three
prefixes are the limit of the mounts: some files stay below it, one chain of
double mounts exceeds it.

The inputs of `answers` are not all inputs of a size, which would be too many and
nearly all of them dull: each family is a product of the choices that a decision
of the code depends on (which of two files declares a name and whether it is
exported, where a limit falls, which of the checks is cut, in which order two
manifests stand), around a repository that has the structure the operation is
made for. Limits of the code that are large (`MAX_TARGETS`, the steps of a job,
the paths of a commit that are paired) are constants with small values, so that
they fall inside an input, at its end and beyond it. `MCAnswers` says of each
family what it varies. Of the neighbours of a subject (`graph_queries`) two differ
in name only, so lists that differ by exchanging them are given once.

`MCAnalyzerParse`, `MCGraphQueries`, `MCOperations` and `MCAnswers` hold several components
that share nothing in the program. A variable `mode` chooses which of them a
behaviour is about. `MCAnalyzerParse` and `MCGraphQueries` extend their
components, and so do `MCOperations` and `MCAnswers` those with theorems; the variables of a
component that is not asked keep what they hold before a question, of which its
properties say nothing. The other components are instances, whose variables
rest at `Nothing` and whose properties are guarded by `mode`. So one run checks
several components without multiplying their state spaces.

### 3.2 Runs in which the code contradicts its documentation

| Run | Statement | What the code does |
| --- | --- | --- |
| `session_aba` | "`RepositoryState` binds a graph to one repository revision and scan report" (docs/architecture.md) | a write between scan and re-read of a refresh is parsed under the old revision; restoring the file hides it for good |
| `related_quotas` | "keeps caller, callee, contract, and test quotas" (README.md) | a pass that does not fill its quota uses up the neighbours of the later ones |
| `change_deletion` | "a deletion keeps callers from the base graph" (CHANGELOG.md) | of two declarations of one name, deleting one can report the other, and the deleted one is not walked in the base |
| `unread_keywords` | "Unsupported keywords stay undetermined" (docs/tool-reference.md) | a keyword outside the list of marked ones is not read at all, so a schema that gains one is called compatible |
| `short_walk` | "`web3_trace` walks the requested depth" (CHANGELOG.md) | the walk takes the last node first and keeps the first hop it finds, so what has a short way and a long one may be left behind the depth |

Each is described under `findings` in `PROJECT.json`. Section 7 lists what was read
and has no run.

## 4. Fairness

`session_progress` assumes weak fairness of `Engine`, the steps of the running
operation: it runs in one thread, each step is local computation or a system
call, and none waits for another actor. Nothing is assumed of writers, the clock
or callers, so operations end although the disk never rests. `EvidenceCatchesUp`
is conditional on a consumer that keeps refreshing (`KeepsRefreshing`, which is
in the property, not in the specification): it asks again and again, and not
every scan and read fails. `analyzer_parse` assumes weak fairness of every
worker and of the joining thread: the operating system runs all threads, and
no worker waits for another except for the mutex, which is held for one push.
The other runs check safety only.

## 5. Proofs

TLAPS proves, for every value of the constants under the named assumptions:

| Theorem | Module | States |
| --- | --- | --- |
| `TypesAlways` | `SessionProofs` | types, and every step belongs to its operation |
| `MapsAgree` | | `CopiesAgree` |
| `AnswersNeverStale` | | cached answers are about loaded graphs |
| `RequestedAlwaysLoaded` | | `RequestedStayLoaded` |
| `TracesKeepTheirStates` | | `TraceKeepsItsStates`, for any number of selectors |
| `FailuresKeepTheTarget` | | `TargetChangesOnlyOnSuccess` |
| `CacheAlwaysBounded` | | the capacity of the cache |
| `SessionImplementsAnswerCache` | | `ImplementsAnswerCache` |
| `RememberedAnswersAreCurrent` | | what the abstract cache promises, of the session seen through the mapping |
| `EveryFileIsParsedOnce` | `AnalyzerParseProofs` | `EachFileOnce`, for any number of files and cores |
| `AnswersDoNotDependOnTheSchedule` | | `AnswerIsDeterministic` |
| `BuildsDoNotDependOnTheScan` | | `BuildIsDeterministic`, for any number of files and visitors |
| `PrefixesOfMountsAreExact` | | `PrefixesAreExact`: for every list of mounts |
| `NamesResolve` | | `NamesAreResolved`: for every repository and every web of imports and re-exports |
| `CompleteWalksAreClosed` | `GraphWalkProofs` | `CompleteIsClosed` |
| `WalksAreWitnesses` | | `WalkIsWitness` |
| `WalksAreBounded` | | no limit of nodes, depth or work is exceeded |
| `WalkTypes` | | types (`TypeOK`, which `graph_walk` does not repeat) |
| `ClaimsHold` | | `ClaimsAreTrue`: breadth first no followed edge gives a shorter way, and an answer that is not called truncated is whole |
| `ExactnessIsProven` | | `ExactIsProven`: for every source file |
| `EventsAreReal` | | `ContractsAreReal`: for all repositories, reports and limits |
| `PathsAreExact` | `GraphSearchProofs` | `PathIsExact`: over chains of any length |
| `TracesAreExact` | | `TraceIsExact` |
| `ContractsAreCompared` | | `ContractsAgree`: for every backend, clients, filter and limit |
| `BundlesAreFair` | `GraphGroupsProofs` | `BundleIsFair` |
| `CommunitiesAreExact` | | `CommunitiesAreComponents` |
| `CyclesAreFound` | | `CyclesAreExact`: Kosaraju's two passes, over any graph |
| `ChangesAreReported` | `ChangeProofs` | `ChangesAreExact` |
| `RadiusIsReported` | | `RadiusIsExact` |
| `SuitesAreSelected` | | `NoSuiteIsMissed`: for every repository, change and graph |
| `HistoriesAddUp` | | `HistoryAddsUp`: for every history and every two graphs |
| `RatchetIsKept` | `ArchitectureProofs` | `RatchetHolds`: for every graph, contract and history of edits |
| `VerdictsAreEarned` | | `VerdictIsEarned`: for every repository, call and cap on findings |
| `TracesAreMapped` | | `FramesAreMapped`: for every trace and every graph |

Data. The induction theorems of the library take an operator, so `DataInduction`
states induction for sets of numbers: numbers that satisfy something have a
smallest one, hence a set with 0 that has with each number the next one has them
all. From this follow that a recursive function over `0..N` exists and is what
its equation says (`IterationExists`, `IndexedIterationExists`), and that a
finite set can be listed in a strict order by counting predecessors
(`ListedInOrder`), which is what sorting comes to. Each proof below introduces a
recursive function of its module once, as such an iteration, and then reasons
about its steps.

Session. Assumed are `SessionAssumption` (there is a root, traces name at least
two, window and capacity are positive) and nothing about times or writes. Types
alone are not inductive, since a step reads `task` and `draft`; `Control` says
which operation each value of `step` belongs to and that its draft is about the
root it works on. On top of it `CoherentInv` adds that copies agree, that
loaded and timed roots are the same, and that cached answers are about what is
loaded: none of the three is inductive without the others, because pruning reads
the times, and the answers survive only as long as what is pruned is known.
`UsesCoverRequests` (a request is never younger than the recorded use)
strengthens `RequestedStayLoaded`. The refinement maps `known` to `loaded` and
every cached entry to the graphs it is about; every step is `Load` (an ensured
root), `Change` (whatever replaces or unloads, with the cache emptied), `Learn`
(a remembered answer) or a stutter.

The file readers. In `ParallelParse` the indices below the cursor are split
without overlap among the results, the workers that hold one and the workers a
panic has killed (`IInv`), and a thread dies only of a file whose parser panics.
When all are joined every file has left its result; listed by index these are the
files in order whatever the schedule was, and the error is that of the first that
failed. In the one-pass build the buffer of a visitor holds the bytes of its file
and no others, no file has two results, every selected file that was given out is
in a visitor, a batch or the sink, and a visitor is dropped with nothing in hand
(`BInv`).

Router mounts. `PrefixInv` says what the cache and every open call hold. Of any
file they hold prefixes of ways over files that are cached themselves, each
once, and the file of an open call is not cached: so a way that a parent gives
does not pass through the file, and the mount can be put at its end
(`WaysGrow`). Of a whole file, one no cycle leads to and whose lists stay below
the limit, a cached list is complete, and an open call has everything that comes
through the mounts it has followed. The guard of the cycle cuts nothing there:
the files of the open calls mount each other in turn, so a parent whose own call
is open is in a cycle (`EnteredIsInCycle`); and the limit is not reached, since a
list without repetition is no longer than the set of prefixes it is drawn from,
which is finite. What a call returns is then complete because every way that is
not empty is a shorter one with a mount behind it (`WaysShrink`). A prefix of a
file in a cycle is sound too, but may be missing.

Names. `NamesInv` says of every phase what the ones before it left: which
symbols are indexed and which methods are linked, that what a file sees and binds
comes from where its imports lead (`ImportsLead`) and that nothing they lead to
is missing (`ImportsAreSeen`), and that a reference already taken has become an edge
to what it resolves to (`ReferencesAreEdges`). The search behind a specifier is
where the order could matter: what it finds is among `Barrels`, which is a set of
steps without an order, and as long as those are at most one more than the limit
the break and the truncation cut nothing, so that all of them are found, by
induction over the layers. A symbol that is the only one of its name is then the
only one in each scope that has the name, and a scope before the one that must
have it is empty or holds the same symbol. Assumed of the input is that only a
call has a receiver and that a Rust or Go path names a file of that language;
the latter is needed where an import is not made visible (an inline `use`, a Go
specifier whose package is elsewhere) and the repository-wide scope, which is of
one language, has to have the name.

Graph walk. `IInv` holds the types, the limits, that edges join seen nodes and
seen nodes were reached, that the expanded node conducts, and `Accounted`: each
edge entry of a seen conducting node is followed, or still to look at, or its
node is queued, or the walk already has a reason not to be complete. The last is
what makes completeness inductive: a limit that cuts has to leave its reason
before the queue is dropped. The order in which edges are listed does not matter.

What a walk says of itself rests on the classical invariant of a breadth first
search, made to live with limits (`BreadthInv`): the queue is sorted by distance;
nothing seen is more than one step beyond the node that is expanded or, between
expansions, the one that is next; nothing that waits is nearer than the expanded
one; and every edge of a node that was expanded is near, that is, its end is seen
within one step or the walk is `Full`. A walk is full once a limit on nodes or on
work is reached; that is stable, and a full walk discovers nothing, so a node an
expanded one missed is never seen later at a distance the edge would contradict.
Depth first the queue is a stack and nothing is claimed. For answers
(`AnswerIsTold`), `get_dependents` needs that the seed itself is seen
(`SeedIsSeen`): its limit is one above what was asked because the seed is not
among the answers.

Searches. A path is found breadth first (`BreadthFirst`): there are distances by
which the nodes that were seen form a tree with the source as its root, the
queue is sorted, and a step from a node that was expanded leads to a seen one at
most one further. A chain of kept edges is then followed node by node, by
induction over its length, so that none is shorter than the path that is found
and none within the bounds exists when the search calls itself exhausted. In the
trace of an endpoint `Gathered` says which handlers, imports and declarations are
in the answer or still to be looked at, `SeenBelongs` that nothing else is, and
`LayerByLayer` is the same argument for the walk over the calls. All three hold
as long as nothing was omitted, and only such an answer may be called complete.

Groups. `CalleesAreKept` says why callers leave room: until a callee is shown, no
node that is a callee and nothing else has been used, and the passes have not
come to its edge. The parents of `CoupledComponents` form a forest (`Forest`) in
which links lead to smaller nodes; there is a root for each node, and nodes with
one root are those that every set closed under the edges looked at holds
together. Making a path shorter keeps the roots.

Cycles. That one node leads to another is said without paths: every set that
holds the one and is closed under the edges holds the other, so that an argument
about paths becomes the choice of a set. The classical proof orders finishing
times; here the invariant is `LeftBehind`: where a node of the first pass that
was left leads to without a way back, some node of its own component was left
later or is on the way still. It needs `WayUp`: a node that is on the way leads
to everything above it on the stack, and its neighbours have been met or lie
above it. In the second pass this becomes `LastIsOutermost`, and `Gathering`
holds: what is at hand is mutual, what is assigned is whole components, and a
node at hand has been taken from the list, so that a predecessor that is not
assigned yet cannot belong to a component that is still to come.

Changes. `ChangeInv`: pairs do not share a declaration, the two of a pair have
one text or one name in one file, what is told is made of the pairs and of what
has none, and where nothing changed under unique names each declaration has been
paired with the one that does the same. When no seed is left the pairs are a
bijection that preserves names, exports and code, so that the counts of both
revisions agree. The radius of a seed grows by layers (`WalkInv`): all within
the distance at hand has been met, the queue is sorted and at most one step
ahead, and what is not in it has no dependents that were not met; once it is
empty all within the depth is met. `WholeSoFar` carries this over to the seeds
that are done, as long as none was cut.

Test selection. The walk takes any nodes its room allows, so the proof may not
use which. `WalkAtHand` says that the line of nodes is sorted, that what was met
stands at most one step beyond its head, and, while the file is not marked as
cut, that a node out of the line below the depth has all that need it met one
step further at most (`NoneIsLeft`). When the line is empty the layers of
dependents follow by induction (`EndedWalkIsWhole`), and `WalksAreWhole` keeps
them as reasons for the files already done; the bound enters only through the
mark. `AskedTells` is about the list: what differs from the base is in it
whether Git's status or the bytes on disk were compared.

History. A count is the number of commits read so far that hold its key, for
files and for pairs alike (`IsTally`); a pair is then in no more commits than one
of its files because the ones are among the others. What is before a hotter file
is before the cooler one too, so that a place among the first is inherited
(`PlacesAreInherited`). Sums over the roll-up are numbers of tokens, as many of an
entry as it counts; each rolled edge adds exactly one on its side (`TokensGrow`),
and edges and nodes that differ make up the difference of the two sets
(`SidesDiffer`). Entry by entry the invariant is sharper (`EntriesCount`): an
entry counts the edges rolled up so far that have its pair of files, on each
side. That this pair is where a revision places the edge is `EdgesKeepTheirPlace`,
which holds for every added edge, since the target is asked first and has its
ends, and for a removed edge only while neither end is in another file in the
target: hence the exception, and the bound on how much it can add to an entry
(`EntriesArePlaced`).

Architecture. A report is that of the code as it is, because every change
withdraws it: `RatchetInv` says so and is inductive, and what is left is to show
what `Judged` means. That `shortest_path` answers with a nearest target, or none
if there is none within its hops, is the argument about layers again; the model
expands as many items as there are nodes, and a count shows that the queue is
empty by then (a node is queued when it is first seen, so that what was taken and
what waits are as many as were seen). Of the rules that share an id one
keeps the finding; if all of them are errors it blocks.

Verdicts. A step reads what earlier checks said, so that `VerdictIsEarned` is not
inductive. `VerifyInv` follows the order of the phases: of every check that is no
longer due, `checks` holds what the repository says (`BaselineSays`, `AuditSays`
and the others), none of them failed, and an answer is a failure, the assessment
of these checks or the audit that was asked for. What is left is about the
operators. Files, lines and rules are finitely many, so a review has a first
place whenever a rule is met anywhere, and keeps it whatever the bound above zero
(`ReviewKeeps`); a passing audit therefore means that no rule is met
(`AuditedTells`, `ChangeAuditTells`). New and inherited findings are a partition
of today's, and a cycle has no identity in common with a line (`DebtTells`), which
gives the counts; a baseline whose review is below the cap has kept all its
places, so what is called new is found nowhere in it. Nothing is assumed about
how many files, lines or findings there are, nor about the cap.

Stack traces. What a frame is mapped to follows from the frame and the graph
alone (`MappedTo`, `MappingIsStable`), so that the induction only says in
`FramesInOrder` that each answer is that of its frame. That a symbol is given to
no more frames than lines state it is not inductive, since it may be waiting:
`SymbolsAreCounted` counts the frames that have it and the wait for its place
against the lines read so far. A file that was hit alone is the best by
`OverlapTells` (paths that overlap end in the same segment) and `HitIsBest`: one
that fits as well was either hit too or ruled out by the package. The nearest
declaration exists because numbers that satisfy something have a smallest one
(`PreferredTells`).

Typed and HTTP contracts. Two passes write one answer, and what the property
relates is spread over both: `TypedSoFar` says what the providers gone through
have as contracts and what the clients before the next one have as mismatches
and as used labels, each in both directions (everything that belongs there is
there, and nothing else). A label that some provider has is then a contract with
a caller and no mismatch, any other is one mismatch (`OperationsAreAccounted`). A
mismatch was drawn from the providers that the limit left; that there is no such
operation at all follows only if nothing was cut (`NothingIsCut`), which is why
the answer has to say so. `HttpSoFar` counts the providers; a callsite has the
static parts of the route because a literal that contains the route does and one
that does not was asked for them (`StaticPartsOccur`), and the method because a
resolved one is given by the call (`MethodIsGiven`).

Event calls. Where an identifier may come from is a set that only grows while the
statements are gone through, and the property may not read it from there: a trace
of one call includes whatever was assigned to its receiver before, by calls that
were classified the same way. `ExtractionInv` therefore holds the set between two
that are asked backwards through the file (`OriginsBetween`): what is assigned
passes on surely (`Surely`), and what is also known from the words of a call, its
chain, the way it is written or, if nothing of it is known, the words of the file
passes on at most (`Possibly`). A call of which two transports are known has both
as candidates and is ambiguous; of one candidate each detector finds its own
transport, or one the call is written in the way of (`DetectionHasEvidence`, by
one lemma for each broker). Both traces are recursive over the statements and
exist as indexed iterations (`TracedTells`).

Event contracts. `ScanInv` says that a side is marked as seen only where the report
of its repository is usable (`SidesAreEarned`), and that a file that is lost waits to
be read, has left its mark on the summary, belongs to a copy of the backend or fell
behind the bound on files (`LossesAreRecorded`). That a mark once set reaches the
answer is not evident: `CopyBackend` and `StopScan` assign the mark of a limit anew.
It survives because it is only set where no room is left; then no repository is
copied any more, and the stop sets it again. Lists that grow by guesses and by
reports are indexed iterations, and what is kept of them is what each step keeps
(`MergedTells`). That `RoutingKeysMatch` agrees with a broker is shown in both
directions by dealing out the words of a key (`MatchedIsDelivered`, `DeliveredIsMatched`); the search for
such a proof found the binding of section 7 that ends in two `#`.

Assumed are the assumptions that each module names and TLC evaluates: limits are
numbers, graphs are finite, an edge joins nodes of the graph, an order is strict
and total, `allow_only` is direct (the contract is refused otherwise). None
bounds a size.

Only model-checked: everything about liveness (`OperationsEnd`,
`EvidenceCatchesUp`, `Returns`), which is beyond this prover; the properties of the
other components without recursive operators, which have no proof yet; and the
components that compute with recursive operators, about which nothing can be
proved here (`DomainWalk`, `BuildModel`, `HealthReview`,
`PathPolicy`, `ArchitectureReport`, `CiRestrictions`). Each is checked against a
definition of its own that does not follow the code.

## 6. Not modelled

- Reading text: language adapters and artifact readers turn one text into one
  record, without state; tests on texts are the tool for that. What the rest of
  the program makes of their records, absent and malformed ones included, is
  modelled.
- The inventories, contexts and traces of agents, Dify, n8n and diagrams: filters
  over the graph, whose walk is `DomainWalk`. Comparisons are modelled for tools
  and ABIs, not for storage layouts, plugins or workflows.
- Occurrences: one lookup in an index another tool has written.
- Running git, the scanner, parser and clone crates: external; what the code
  relies on is in `Session`, `ParallelParse`, `OnePassParse` and the inputs of
  `MCAnswers`.
- Layout and argument checking: reports, JSON, catalog, command line.
- Parts of modelled components: the choice of seeds, paging of queries
  (that of domain walks is the cursor of `AbiTrace`, the same function),
  statistics and listings of the graph; the idle thread that warms the communities (it computes a pure function into a `OnceLock`, so that either
  order gives the same value); edge budgets and the checks of a contract that
  only compare identifiers; coverage files; the fingerprints of clones.

## 7. Disagreements and observations without a run

A run for each would be a model of one line. These contradict a statement of the
repository:

| Where | Statement | What the code does |
| --- | --- | --- |
| `graph/query.rs:46` | "every returned edge has shown endpoints, or the hop is listed on `frontier`" (docs/tool-reference.md) | edges to nodes hidden by visibility are returned |
| `graph/trace/execution.rs:51` | "bounded outgoing call graph exhausted" (graph/trace/mod.rs) | a trace cut by its depth says so too |
| `analyzer/mounts.rs:85,118` | "All URL prefixes a file is reachable under" | in a cycle of mounts the files inside keep what the cut search left in the cache |
| `build/go.rs:245` | imports link packages across workspace modules (tests/analyze_more/build/go_semantics.rs) | the package at the root of a module that is not at the root of the repository gets its folder appended, and imports of it stay external |
| `workflow/verified/verdict.rs:51` | "new Health findings or repository diagnostics were found" | a review whose findings are all inherited blocks with this sentence too (`health/debt.rs:37`) |
| `health/hot_paths.rs:210` | "deepest loop nesting" (catalog/schema/descriptions.rs) | a loop whose head holds `;` is forgotten before its body opens |
| `architecture/path_pattern/parser.rs:19,30` | "Dependency-Cruiser-shaped" patterns, with `^`, `$` and alternation (docs/architecture-firewall.md) | a regular expression anchors one alternative, `^a\|b` anchors both here; `RulesAreEvaluated` takes the code's reading |
| `architecture/contract.rs:93` | "relevant rules" (docs/tool-reference.md) | rules that select by path are left out |
| `architecture/observed/mod.rs:88` | the next cursor leads to the rest (tests/architecture/architecture_recovery.rs) | a page whose budget leaves no edge hands back the cursor it was given |
| `architecture/source_metrics/mod.rs:96` | "Physical extent in lines of the declaration" | an expression body without a semicolon is measured to the end of the next body that opens |
| `history/diff.rs:206` | the file pair "is the coupling that appeared or disappeared between two revisions" (history/diff.rs:160) | a removed edge is rolled up to the file its end has in the target, if the id is still there, a pair it may never have connected; `DiffAddsUp` excepts it (`Uprooted`) |
| `ci/restrictions/local.rs:174` | "retrieve one finding by its stable `id`" (docs/tool-reference.md) | checks of one kind in two helper scripts of one step share an id, and the first is explained |
| `history/revision.rs:113` | "Exact supported-source changes between a revision and the worktree." | a tracked file that the scan leaves out is listed as changed though nothing changed |
| `perf/attribute.rs:46` | "Anything inside the caller's noise band is flat, not a result." | a step from zero to zero is called a regression |
| `agent/schema_cmp.rs:92` | "a supported-subset change rejects a previously valid request" | a property dropped from an open object, an optional one added to a closed object and a limit restated by another keyword are called incompatible and reject nothing; `VerdictsAreProven` excepts them (`Overstated`) |
| `language/agent/catalog.rs` | "Duplicate tool labels are `ambiguous-identity`" (CHANGELOG.md) | two tools of one name in one file have one place and so one node, and are not ambiguous |
| `language/web3/abi/types.rs:90` | its own list of supported types holds the sized integers | digits are cut off before the list is read, so none of them is supported; such members have no selector, and two that are missing count as unchanged |
| `perf/steps.rs` | "declarations whose own source extent differs" (docs/tool-reference.md) | one that only moved is listed, since its id holds its line |

Observations that nothing contradicts:

- The rules of a contract need no unique id; only those of components are
  documented to be unique (docs/architecture-firewall.md:72). Two rules with one id
  share fingerprints, so that what an error rule finds may be kept under one that
  only warns, and PASS is given (`architecture/rules.rs:58`,
  `policy_reachability.rs:54`). `RatchetHolds` excepts such rules (`Blocking`).
- The event bound of a repository is recorded, but the one over all repositories
  and the occurrences kept per contract drop without a word
  (`transport_contracts/scan/walk.rs:42`, `runtime/event.rs:75`).
- `expect_repository` accepts a folder name, so that two checkouts of one name
  answer for each other (`operations/mod.rs:75`); `Session` models it so.
- An accepted forbidden dependency masks every new one of the same file and rule
  that is further away, since only the nearest target is in the fingerprint
  (`architecture/policy_reachability.rs:99`).
- Direct fingerprints hold ids with line and column, so that moving a function
  makes an accepted violation new (`architecture/rules.rs:64`).
- A callable reference is not stopped by a local declaration that is no callable
  (`analyzer/references.rs:76`): it goes on to the imports.
- `#` in the middle of an AMQP binding matches all the rest of a key
  (`transport_contracts/matching/evaluate.rs:268`); `ContractsAreReal` excepts it.
- A binding that ends in two `#` does not match a key whose last word stands
  before them (`a.#.#` and `a`), and the pair is called a mismatch though a broker
  delivers it (`transport_contracts/matching/evaluate.rs:280`); `ContractsAreReal`
  excepts it.
- `code_only` strips `#` and `//` comments in every language
  (`workflow/change/texts.rs:74`), a private name of a script included.
- `source_metrics` takes `/*` inside a comment for a nested one in every
  language; only Rust nests.
- In a composite action a check followed by `|| true` keeps the effect of the step
  that uses the action (`ci/restrictions/local.rs:73`).
- `coupling_sample_truncated` and its like are set before the token budget shortens
  the lists, and stay false when the budget alone took items
  (`architecture/observed/mod.rs:48`); only `status` and `dropped_items` tell, which
  is what `SummaryCounts` asks for.
- A numbered symbol of a stack trace waits over lines that have nothing to do
  with it (`workflow/stacktrace/frames.rs:16`); narrowing by package may leave a
  file out that fits the frame (`mod.rs:147`).
- A series that returns to a revision analyses it again, and steps inside the
  noise band are credited like others (`perf/attribute.rs`).
- `select_tests` keeps no reason when the walk of one file was cut
  (`workflow/select_tests.rs`); `NoSuiteIsMissed` excepts such files.
- Only the first 250 paths of a commit are paired (`history/analytics.rs`).
- `next_api` compares a place counted from where the search began with one from
  the beginning of the source, so that after the first call a later call of a
  function further down the list can hide a nearer one
  (`language/web3/extract/clients.rs:131`). `ChangesAreReal` therefore demands every call
  only of sources that call one function (`Regular`).
- `object_after` takes the braces of a later call where a call has none, and a call
  inside the object of another is skipped (`language/web3/extract/clients.rs`).
- A changed `anonymous` flag is called a silent misdecode, since the member that is
  read back from the graph is never anonymous; an overload added to a name is no
  added member; the contracts of one file, or of the files a path matches, are
  merged (`operations/web3/impact.rs`).
- Values of enumerations are compared as text, consumers beyond the limit are
  dropped without `truncated`, and a catalog or skill at the root belongs to no
  package (`operations/agent/`).
- A cursor that names no revision is accepted on any
  (`operations/domain_walk/mod.rs:71`).
- `projected()` would not end on ports that contain each other
  (`domain_walk/graph.rs:132`); no reader builds such ports.
- The limit on prefixes ends the inner of two loops only, so that a file may
  have one more per further mount (`analyzer/mounts.rs:109`).

## 8. Plan

Done: the engine session with its refinement and proofs; the two thread schemes;
the traversals of the graph, with proofs about their claims; the operations that
judge a repository; resolution of names; contracts across repositories; build,
CI, health, verified change, architecture, stack traces, performance, test
selection and history; changes of tools and ABIs, and a walk in pages.

Next, in this order:

1. The paging of queries, as `AbiTrace` has it for domain walks.
2. Storage layouts (`web3`) and plugins (`agent`), as operators against
   references, in `MCAnswers`.
3. Occurrences, and the census of the repository state.

Proofs to come: the other properties of `MCAnswers`, which need it to extend
their components; and the recursion of
`DomainWalk` rewritten as functions.
