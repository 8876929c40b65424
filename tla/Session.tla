------------------------------ MODULE Session ------------------------------
(***************************************************************************)
(* The retargetable engine session, `struct Weavatrix` of src/engine: the  *)
(* active repository state, the graphs of every repository asked for       *)
(* lately, the clock that unloads the idle ones and the cache of           *)
(* trace_api_contract answers.  The session is used through `&mut self`,   *)
(* so at most one operation runs at a time; what it races with is the      *)
(* disk: other programs write the repositories between the moments at      *)
(* which an operation scans, parses and captures them, and time passes.    *)
(*                                                                         *)
(* A repository is abstracted to two versions: the one of its scanned      *)
(* sources, and the one of the configuration files that only the evidence  *)
(* capture reads.  A revision (a hash) is the source version it hashes.    *)
(***************************************************************************)
EXTENDS Integers, FiniteSets, Sequences, Functions

CONSTANTS
  Roots,         \* canonical repository roots
  Folder,        \* Folder[r]: the last component of r, case folded
  Sources,       \* versions of the scanned files of a repository
  Configs,       \* versions of the files only the evidence capture reads
  Evidential,    \* roots whose scanned files are themselves captured (go, py, rs)
  Traces,        \* the trace_api_contract requests callers make
  IdleUnload,    \* idle time after which a graph is unloaded
  MaxToolCache,  \* capacity of the answer cache
  Nothing,       \* Option::None
  MaxTime,       \* bound on the clock
  MaxWrites      \* bound on the writes of other programs

ASSUME SessionAssumption ==
  /\ Roots # {} /\ Sources # {} /\ Configs # {}
  /\ Folder \in [Roots -> STRING]
  /\ Evidential \subseteq Roots
  /\ Traces \subseteq [selectors : Seq(Roots), runtime : BOOLEAN]
  /\ \A trace \in Traces : Len(trace.selectors) >= 2
  /\ Nothing \notin Roots
  /\ IdleUnload \in Nat \ {0} /\ MaxToolCache \in Nat \ {0}
  /\ MaxTime \in Nat /\ MaxWrites \in Nat

VARIABLES
  disk,       \* the files of every root
  writes,     \* number of writes so far
  now,        \* the monotonic clock
  active,     \* self.state
  known,      \* self.known_states
  lastUsed,   \* self.last_used
  toolCache,  \* self.tool_cache, a set of entries with distinct keys
  step,       \* where the running operation is
  task,       \* the running operation and its arguments
  draft,      \* the graph the running operation is building
  ensured,    \* how many selectors of a trace are loaded already
  reply,      \* what the last operation answered
  asked       \* history: when each root last served a request

environment == <<disk, writes, now>>
session == <<active, known, lastUsed, toolCache>>
operation == <<step, task, draft, ensured, reply>>
vars == <<environment, session, operation, asked>>

-----------------------------------------------------------------------------
(* Data *)

Files == [source : Sources, config : Configs]

(* RepositoryState: `revision` is the revision of the snapshot and of the   *)
(* scan, `content` the source version the graph was really parsed from, and *)
(* `config` and `clean` what the evidence generation hashes besides.        *)
State == [root : Roots, revision : Sources, content : Sources,
          config : Configs, clean : BOOLEAN]

Generation(state) == <<state.revision, state.config, state.clean>>

Selectors(trace) == Range(trace.selectors)

Work ==
  [op : {"read", "rebuild", "refresh"}]
  \cup [op : {"open"}, root : Roots, build : BOOLEAN]
  \cup [op : {"trace"}, trace : Traces]

Task == [work : Work, expected : Roots \cup {Nothing}, lateError : BOOLEAN]

Draft == [root : Roots, revision : Sources, content : Sources]

Versions == UNION {[D -> Sources] : D \in SUBSET Roots}
Answer == [graphs : Versions, sources : Versions]
Entry == [trace : Traces, revisions : Versions, answer : Answer]

Reply == [work : Work, ok : BOOLEAN, changed : BOOLEAN, root : Roots,
          expected : Roots \cup {Nothing}, answer : Answer \cup {Nothing}]

Steps == {"ready", "dispatch", "reuse", "analyze", "analyzed",
          "scanned", "reparse", "ensure"}

(* BTreeMap::insert *)
Put(map, key, value) ==
  [k \in DOMAIN map \cup {key} |-> IF k = key THEN value ELSE map[k]]

(* EvidenceSnapshot::capture at this instant: a captured source whose bytes *)
(* no longer hash to the scanned revision is excluded, which shows in the   *)
(* generation.                                                              *)
Captured(d) ==
  [root |-> d.root, revision |-> d.revision, content |-> d.content,
   config |-> disk[d.root].config,
   clean |-> d.root \in Evidential => disk[d.root].source = d.revision]

-----------------------------------------------------------------------------
(* Session bookkeeping *)

Recent(r) ==
  \/ r = active.root
  \/ r \in DOMAIN lastUsed /\ now - lastUsed[r] < IdleUnload

(* prepare: unload what has been idle for the window, then touch the active *)
(* root.                                                                    *)
Prepare ==
  LET kept == {r \in DOMAIN known : Recent(r)}
      used == {r \in DOMAIN lastUsed : Recent(r)}
  IN  /\ known' = Restrict(known, kept)
      /\ lastUsed' = Put(Restrict(lastUsed, used), active.root, now)
      /\ toolCache' = IF kept = DOMAIN known THEN toolCache ELSE {}
      /\ UNCHANGED active

Served(roots) == asked' = [r \in Roots |-> IF r \in roots THEN now ELSE asked[r]]

(* Mutant of Remember: the fresh state is not put into the map.             *)
RememberTheUseOnly(shelf, state) ==
  /\ known' = shelf
  /\ lastUsed' = Put(lastUsed, state.root, now)
  /\ Served({state.root})

(* remember_active_state, `shelf` being the known states so far.            *)
Remember(shelf, state) ==
  /\ known' = Put(shelf, state.root, state)
  /\ lastUsed' = Put(lastUsed, state.root, now)
  /\ Served({state.root})

(* Mutant of Activate: the answers are kept.                                *)
ActivateKeepingAnswers(state) ==
  /\ active' = state
  /\ UNCHANGED toolCache
  /\ Remember(Put(known, active.root, active), state)

(* Makes `state` active after putting the state it replaces on the shelf.   *)
Activate(state) ==
  /\ active' = state
  /\ toolCache' = {}
  /\ Remember(Put(known, active.root, active), state)

KnownState(r) == IF r = active.root THEN active ELSE known[r]

Loaded(r) == r = active.root \/ r \in DOMAIN known

(* The operation is over.  Some malformed arguments are noticed only here,  *)
(* after the dispatched operation has done its work: the token_budget of    *)
(* any call, the include_capabilities of open_repo.                         *)
Finish(ok, changed, answer) ==
  /\ step' = "ready" /\ task' = Nothing /\ draft' = Nothing /\ ensured' = 0
  /\ reply' = [work |-> task.work, ok |-> ok /\ ~task.lateError,
               changed |-> changed, root |-> active'.root,
               expected |-> task.expected, answer |-> answer]

Fail ==
  /\ UNCHANGED <<environment, session, asked>>
  /\ Finish(FALSE, FALSE, Nothing)

Continue(next) ==
  /\ step' = next
  /\ UNCHANGED <<environment, task, reply>>

(* Mutant of Ensured: a root that is loaded already is not touched.         *)
EnsuredUntouched(r) ==
  /\ lastUsed' = IF r \in DOMAIN lastUsed THEN lastUsed ELSE Put(lastUsed, r, now)
  /\ Served({r})
  /\ step' = "ensure" /\ ensured' = ensured + 1 /\ draft' = Nothing
  /\ UNCHANGED <<task, reply>>

(* One more selector of the trace is loaded and in use.                     *)
Ensured(r) ==
  /\ lastUsed' = Put(lastUsed, r, now)
  /\ Served({r})
  /\ step' = "ensure" /\ ensured' = ensured + 1 /\ draft' = Nothing
  /\ UNCHANGED <<task, reply>>

-----------------------------------------------------------------------------
(* Starting an operation *)

(* expect_repository: the named root, or any root in a folder of that name. *)
Expected(expected) ==
  \/ expected = Nothing
  \/ expected = active.root
  \/ expected \in Roots /\ Folder[expected] = Folder[active.root]

(* operations::call up to the dispatch.  With `valid` false an argument     *)
(* check has failed; either way the session has been prepared.              *)
Call(work, expected, lateError, valid) ==
  /\ step = "ready" /\ work.op # "refresh"
  /\ Prepare
  /\ IF valid /\ Expected(expected)
     THEN /\ step' = "dispatch"
          /\ task' = [work |-> work, expected |-> expected, lateError |-> lateError]
          /\ reply' = Nothing
          /\ Served({active.root})
     ELSE /\ reply' = [work |-> work, ok |-> FALSE, changed |-> FALSE,
                       root |-> active.root, expected |-> expected,
                       answer |-> Nothing]
          /\ UNCHANGED <<step, task, asked>>
  /\ UNCHANGED <<environment, draft, ensured>>

(* The library's own entry points: Weavatrix::rebuild, refresh_if_stale,    *)
(* open_repository and open_repository_with_build, without `call` around.   *)
Invoke(work) ==
  /\ step = "ready" /\ work.op \in {"rebuild", "refresh", "open"}
  /\ step' = "dispatch"
  /\ task' = [work |-> work, expected |-> Nothing, lateError |-> FALSE]
  /\ reply' = Nothing
  /\ UNCHANGED <<environment, session, draft, ensured, asked>>

Dispatched(op) == step = "dispatch" /\ task.work.op = op

-----------------------------------------------------------------------------
(* The operations *)

(* Any operation that only reads the active state (and list_known_repos).   *)
Read ==
  /\ Dispatched("read")
  /\ UNCHANGED <<environment, session, asked>>
  /\ \E ok \in BOOLEAN : Finish(ok, FALSE, Nothing)

(* The root the running operation scans.                                    *)
Target ==
  CASE task.work.op = "open"  -> task.work.root
    [] task.work.op = "trace" -> task.work.trace.selectors[ensured + 1]
    [] OTHER                  -> active.root

(* `before` is the statistics of the replaced graph, which an argument can  *)
(* make fail.                                                               *)
Rebuild ==
  /\ Dispatched("rebuild")
  /\ \/ Fail
     \/ Prepare /\ Continue("analyze") /\ UNCHANGED <<draft, ensured, asked>>

(* open_repository_with_build up to its first fallible step.                *)
Open ==
  /\ Dispatched("open")
  /\ Prepare
  /\ Continue(IF task.work.build THEN "analyze" ELSE "reuse")
  /\ UNCHANGED <<draft, ensured, asked>>

(* build == false: nothing to do, a loaded graph, or a build after all; the *)
(* path may also not resolve.                                               *)
Reuse ==
  /\ step = "reuse"
  /\ LET r == task.work.root
     IN  \/ Fail
         \/ /\ r = active.root
            /\ UNCHANGED <<environment, session>>
            /\ Finish(TRUE, FALSE, Nothing)
            /\ Served({r})
         \/ /\ r # active.root /\ r \in DOMAIN known
            /\ Activate(known[r])
            /\ Finish(TRUE, FALSE, Nothing)
            /\ UNCHANGED environment
         \/ /\ ~Loaded(r)
            /\ Continue("analyze")
            /\ UNCHANGED <<session, draft, ensured, asked>>

(* analyze_with_report hashes and parses every file in one pass.            *)
Analyze ==
  /\ step = "analyze"
  /\ \/ Fail
     \/ /\ draft' = LET read == disk[Target].source
                    IN  [root |-> Target, revision |-> read, content |-> read]
        /\ Continue("analyzed")
        /\ UNCHANGED <<session, ensured, asked>>

(* Mutant of Install: the ensured state goes under the active root.         *)
InstallUnderActive ==
  /\ step = "analyzed"
  /\ IF task.work.op = "trace"
     THEN /\ known' = Put(known, active.root, Captured(draft))
          /\ Ensured(draft.root)
          /\ UNCHANGED <<active, toolCache>>
     ELSE Activate(Captured(draft)) /\ Finish(TRUE, TRUE, Nothing)
  /\ UNCHANGED environment

(* RepositoryState::build and from_scan end with the evidence capture; the  *)
(* new state then goes where the operation wants it.                        *)
Install ==
  /\ step = "analyzed"
  /\ IF task.work.op = "trace"
     THEN /\ known' = Put(known, draft.root, Captured(draft))
          /\ Ensured(draft.root)
          /\ UNCHANGED <<active, toolCache>>
     ELSE Activate(Captured(draft)) /\ Finish(TRUE, TRUE, Nothing)
  /\ UNCHANGED environment

(* refresh_if_stale: scan; it does not prepare the session.                 *)
Refresh ==
  /\ Dispatched("refresh")
  /\ \/ Fail
     \/ /\ draft' = LET read == disk[Target].source
                    IN  [root |-> Target, revision |-> read, content |-> read]
        /\ Continue("scanned")
        /\ UNCHANGED <<session, ensured, asked>>

(* Mutant of Compare: the same revision is taken to mean nothing to do.     *)
CompareRevisionOnly ==
  /\ step = "scanned"
  /\ IF draft.revision = active.revision
     THEN /\ UNCHANGED active
          /\ Remember(known, active)
          /\ UNCHANGED <<environment, toolCache>>
          /\ Finish(TRUE, FALSE, Nothing)
     ELSE Continue("reparse") /\ UNCHANGED <<session, draft, ensured, asked>>

(* Then capture and compare.  The same revision keeps the graph and only    *)
(* replaces the evidence; another one drops this capture and parses.        *)
Compare ==
  /\ step = "scanned"
  /\ LET fresh == [Captured(draft) EXCEPT !.content = active.content]
         changed == Generation(fresh) # Generation(active)
     IN  IF draft.revision = active.revision
         THEN /\ active' = fresh
              /\ Remember(known, fresh)
              /\ toolCache' = IF changed THEN {} ELSE toolCache
              /\ Finish(TRUE, changed, Nothing)
              /\ UNCHANGED environment
         ELSE Continue("reparse") /\ UNCHANGED <<session, draft, ensured, asked>>

(* Mutants of Reparse: wait for the disk to agree with the scan again;      *)
(* parse into the live state.                                               *)
ReparseUntilItMatches ==
  /\ step = "reparse"
  /\ disk[draft.root].source = draft.revision
  /\ Continue("analyzed")
  /\ UNCHANGED <<session, draft, ensured, asked>>

ReparseInPlace ==
  /\ step = "reparse"
  /\ active' = [active EXCEPT !.content = disk[draft.root].source]
  /\ known' = Put(known, active.root, active') /\ toolCache' = {}
  /\ draft' = [draft EXCEPT !.content = disk[draft.root].source]
  /\ Continue("analyzed")
  /\ UNCHANGED <<lastUsed, ensured, asked>>

(* analyze_report reads every scanned file again and does not check it      *)
(* against the scan's hash.                                                 *)
Reparse ==
  /\ step = "reparse"
  /\ \/ Fail
     \/ /\ draft' = [draft EXCEPT !.content = disk[draft.root].source]
        /\ Continue("analyzed")
        /\ UNCHANGED <<session, ensured, asked>>

-----------------------------------------------------------------------------
(* trace_api_contract *)

(* The arguments are parsed before anything is loaded.                      *)
Trace ==
  /\ Dispatched("trace")
  /\ \/ Fail
     \/ Continue("ensure") /\ UNCHANGED <<session, draft, ensured, asked>>

(* Mutant of Ensure: it prepares the session as the other entries do.       *)
EnsurePreparing ==
  /\ step = "ensure" /\ ensured < Len(task.work.trace.selectors)
  /\ IF Loaded(Target)
     THEN /\ Prepare
          /\ step' = "ensure" /\ ensured' = ensured + 1
          /\ UNCHANGED <<environment, task, draft, reply, asked>>
     ELSE Continue("analyze") /\ UNCHANGED <<session, draft, ensured, asked>>

(* ensure_repository_state for the next selector, the backend first.        *)
Ensure ==
  /\ step = "ensure" /\ ensured < Len(task.work.trace.selectors)
  /\ \/ Fail
     \/ /\ Loaded(Target)
        /\ Ensured(Target)
        /\ UNCHANGED <<environment, active, known, toolCache>>
     \/ /\ ~Loaded(Target)
        /\ Continue("analyze")
        /\ UNCHANGED <<session, draft, ensured, asked>>

(* All selectors are loaded: look the answer up, or compute it.  Each file  *)
(* the extractors need is read from the disk again.                         *)
Key(trace) == [r \in Selectors(trace) |-> KnownState(r).revision]

Computed(trace) ==
  [graphs  |-> [r \in Selectors(trace) |-> KnownState(r).content],
   sources |-> [r \in Selectors(trace) |-> disk[r].source]]

Hits(trace) ==
  {e \in toolCache : ~trace.runtime /\ e.trace = trace /\ e.revisions = Key(trace)}

(* remember_tool_result *)
Remembered(entry) ==
  IF Cardinality(toolCache) >= MaxToolCache THEN {entry} ELSE toolCache \cup {entry}

Respond ==
  /\ step = "ensure" /\ ensured = Len(task.work.trace.selectors)
  /\ LET trace == task.work.trace
     IN  \/ /\ \A r \in Selectors(trace) : Loaded(r)
            /\ UNCHANGED session
            /\ \E e \in Hits(trace) : Finish(TRUE, FALSE, e.answer)
         \/ /\ \A r \in Selectors(trace) : Loaded(r)
            /\ Hits(trace) = {}
            /\ UNCHANGED <<active, known, lastUsed>>
            /\ Finish(TRUE, FALSE, Computed(trace))
            /\ toolCache' = IF trace.runtime THEN toolCache
                            ELSE Remembered([trace |-> trace, revisions |-> Key(trace),
                                             answer |-> Computed(trace)])
         \/ /\ Hits(trace) = {}
            /\ UNCHANGED session
            /\ Finish(FALSE, FALSE, Nothing)
  /\ UNCHANGED <<environment, asked>>

-----------------------------------------------------------------------------
(* The environment *)

(* Another program replaces the sources or the configuration of a root; a   *)
(* version may come back.                                                   *)
Write ==
  /\ writes < MaxWrites
  /\ writes' = writes + 1
  /\ \E r \in Roots, files \in Files :
       /\ files # disk[r]
       /\ files.source = disk[r].source \/ files.config = disk[r].config
       /\ disk' = [disk EXCEPT ![r] = files]
  /\ UNCHANGED <<now, session, operation, asked>>

Tick ==
  /\ now < MaxTime
  /\ now' = now + 1
  /\ UNCHANGED <<disk, writes, session, operation, asked>>

-----------------------------------------------------------------------------
(* Weavatrix::open on one of the roots.                                     *)
Init ==
  /\ disk \in [Roots -> Files]
  /\ writes = 0 /\ now = 0
  /\ \E r \in Roots :
       /\ active = Captured([root |-> r, revision |-> disk[r].source,
                             content |-> disk[r].source])
       /\ known = [k \in {r} |-> active]
       /\ lastUsed = [k \in {r} |-> 0]
       /\ asked = [k \in Roots |-> IF k = r THEN 0 ELSE -IdleUnload]
  /\ toolCache = {}
  /\ step = "ready" /\ task = Nothing /\ draft = Nothing /\ ensured = 0
  /\ reply = Nothing

(* What the running operation does next.                                    *)
Engine ==
  \/ Read \/ Rebuild \/ Open \/ Reuse \/ Analyze \/ Install
  \/ Refresh \/ Compare \/ Reparse
  \/ Trace \/ Ensure \/ Respond

Request ==
  \/ \E work \in Work, expected \in Roots \cup {Nothing}, lateError, valid \in BOOLEAN :
       Call(work, expected, lateError, valid)
  \/ \E work \in Work : Invoke(work)

Next == Engine \/ Request \/ Write \/ Tick

Spec == Init /\ [][Next]_vars

(* An operation that has begun goes on: nothing in it waits for anything    *)
(* but the file system and the processor.                                   *)
Fairness == WF_vars(Engine)

FairSpec == Spec /\ Fairness

-----------------------------------------------------------------------------
(* Properties *)

(* The types of the variables. *)
TypeOK ==
  /\ disk \in [Roots -> Files] /\ writes \in Nat /\ now \in Nat
  /\ active \in State
  /\ DOMAIN known \subseteq Roots /\ known \in [DOMAIN known -> State]
  /\ \A r \in DOMAIN known : known[r].root = r
  /\ DOMAIN lastUsed \subseteq Roots /\ lastUsed \in [DOMAIN lastUsed -> Nat]
  /\ \A r \in DOMAIN lastUsed : lastUsed[r] <= now
  /\ asked \in [Roots -> Int] /\ \A r \in Roots : asked[r] <= now
  /\ toolCache \in SUBSET Entry
  /\ step \in Steps
  /\ task \in Task \cup {Nothing}
  /\ draft \in Draft \cup {Nothing}
  /\ ensured \in Nat
  /\ reply \in Reply \cup {Nothing}

(* The two copies of the live state agree: whatever operation ran last, and *)
(* whether it replaced the graph, the evidence or the root, the map of      *)
(* known states holds exactly the state that `state` answers from, so that  *)
(* a later switch away and back finds the same graph (engine/session.rs,    *)
(* remember_active_state and every path that calls or skips it).            *)
LiveStateRemembered ==
  active.root \in DOMAIN known /\ known[active.root] = active

(* A graph is loaded exactly when its last use is on record: no graph can   *)
(* be missed by the idle clock, and none is unloaded at once for lack of a  *)
(* record, though the two maps are pruned by different conditions           *)
(* (unload_idle_at) and filled on different paths.                          *)
LoadedIffTimed == DOMAIN known = DOMAIN lastUsed

(* What is kept twice agrees: the live state with its copy in the map, and  *)
(* the loaded graphs with the times of their use.                           *)
CopiesAgree == LiveStateRemembered /\ LoadedIffTimed

(* Every cached trace answer is about graphs that are loaded now: every     *)
(* root it was computed from is still loaded, with the same revision and    *)
(* the same parsed content, so no sequence of switches, refreshes, rebuilds *)
(* and unloads leaves an answer about a graph the session no longer holds.  *)
CachedAnswersAreLoaded ==
  \A e \in toolCache : \A r \in Selectors(e.trace) :
    /\ Loaded(r)
    /\ KnownState(r).revision = e.revisions[r]
    /\ KnownState(r).content = e.answer.graphs[r]

(* The answer cache never holds more than its capacity                      *)
(* (remember_tool_result empties a full cache before it inserts).           *)
CacheIsBounded == Cardinality(toolCache) <= MaxToolCache

(* The lookups after the last ensure_repository_state of a trace succeed:   *)
(* nothing between the ensures of the several repositories unloads one that *)
(* was ensured earlier, however long the builds in between take, so the     *)
(* error "repository state not found" is unreachable.                       *)
TraceKeepsItsStates ==
  step \in {"ensure", "analyze", "analyzed"} /\ task.work.op = "trace" =>
    \A i \in 1..ensured : Loaded(task.work.trace.selectors[i])

(* "The live repository and any root used in that window stay loaded"       *)
(* (CHANGELOG.md): a root that served a request less than the idle window   *)
(* ago is still loaded.                                                     *)
RequestedStayLoaded ==
  \A r \in Roots : now - asked[r] < IdleUnload => r \in DOMAIN known

(* The active graph changes only in the step in which its operation         *)
(* succeeds: no operation that fails half way, in the scan, the parse or    *)
(* the second of several repositories, has already retargeted the session   *)
(* or replaced the graph.  (An argument noticed as malformed after the      *)
(* operation is the one exception, and the model has it.)                   *)
TargetChangesOnlyOnSuccess ==
  [][active' # active => step' = "ready" /\ (reply'.ok \/ task.lateError)]_vars

(* An operation that has begun ends, with an answer or an error, whatever   *)
(* other programs write meanwhile: the re-reads of a refresh are not        *)
(* retried.                                                                 *)
OperationsEnd == (step # "ready") ~> (step = "ready")

(* A consumer that keeps asking for a refresh, on a file system that does   *)
(* not fail every scan and every read.                                      *)
KeepsRefreshing ==
  /\ SF_vars(Invoke([op |-> "refresh"]))
  /\ SF_vars(Refresh /\ step' = "scanned")
  /\ SF_vars(Reparse /\ step' = "analyzed")

(* Refreshing catches up: once the disk is quiet and the session stays on   *)
(* one root, the revision and the evidence of the live state become, and    *)
(* stay, what a scan and a capture of the disk give, whatever the writes    *)
(* that raced earlier refreshes and whatever state was left behind in known *)
(* when the session came back to the root.  (Not so the parsed content: see *)
(* GraphBoundToRevision.)                                                   *)
EvidenceCatchesUp ==
  \A r \in Roots :
    KeepsRefreshing /\ <>[](active.root = r) =>
      <>[](Generation(active) = <<disk[r].source, disk[r].config, TRUE>>)

-----------------------------------------------------------------------------
(* A statement of the documentation that the code does not keep *)

(* "RepositoryState binds a graph to one repository revision and scan       *)
(* report" (docs/architecture.md): the content a loaded graph was parsed    *)
(* from is the content of the revision it names.                            *)
GraphBoundToRevision == \A r \in DOMAIN known : known[r].content = known[r].revision

-----------------------------------------------------------------------------
(* Refinement *)

(* The graph of a root, as far as a trace answer is about it. *)
GraphOf(state) == <<state.revision, state.content>>

Footprint(entry) ==
  [r \in Selectors(entry.trace) |-> <<entry.revisions[r], entry.answer.graphs[r]>>]

Abstract == INSTANCE AnswerCache WITH
  Graphs  <- Sources \X Sources,
  loaded  <- [r \in DOMAIN known |-> GraphOf(known[r])],
  answers <- {Footprint(entry) : entry \in toolCache}

(* The session keeps the promise of AnswerCache: answers are remembered     *)
(* only about loaded graphs, and every change of a loaded graph, on         *)
(* whatever path, forgets them all in the same step.                        *)
ImplementsAnswerCache == Abstract!Spec
=============================================================================
