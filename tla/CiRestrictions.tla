--------------------------- MODULE CiRestrictions ---------------------------
(* ci_restrictions, explain_restriction and the ci_protection section       *)
(* (src/operations/ci/): the checks a repository's workflows declare, when  *)
(* they apply in a scenario, what their failure does, and which changed     *)
(* files and declared rules they are bound to. Text is a sequence of words, *)
(* a path the sequence of its segments.                                     *)
EXTENDS Integers, Sequences, FiniteSets, SequencesExt, FiniteSetsExt, TLC

CONSTANTS
  Repositories,  \* the captured files, the scenario, the change, the contract
  MaxConfigs,    \* how many configuration files are read
  MaxSteps,      \* how many steps a job or an action may have
  Shown,         \* how many checks and changed files a change is shown
  Bound,         \* how many rules are bound
  Nothing        \* an absent field, no answer

VARIABLES
  given,  \* the repository
  state   \* the configurations left, those read, the steps left, the answer

vars == <<given, state>>

File(path) ==
  LET same == SelectSeq(given.files, LAMBDA f : f.path = path)
  IN  IF same = <<>> THEN Nothing ELSE Head(same)
(* A change is put to every workflow, in no particular scenario.            *)
Protecting == given.changed # Nothing
Scenario == IF Protecting THEN [event |-> Nothing, branch |-> Nothing, files |-> Nothing] ELSE given.scenario
Scope == IF Protecting THEN Nothing ELSE given.scope
Most == IF Protecting THEN Shown ELSE given.max

Says(who, why) == <<[who |-> who, why |-> why]>>
FirstOf(s, T(_)) == LET hits == SelectSeq(s, T) IN IF hits = <<>> THEN Nothing ELSE Head(hits)

-----------------------------------------------------------------------------
(* ignore.rs and inventory.rs: which configuration files are read. The last *)
(* rule that matches a path decides.                                        *)

Matches(rule, file) ==
  CASE rule.form = "directory" -> IsPrefix(rule.path, file.path)
    [] rule.form = "extension" -> rule.extension = file.extension
    [] OTHER -> IsSuffix(rule.path, file.path)

Excludes(file) ==
  LET hits == SelectSeq(given.ignore, LAMBDA r : Matches(r, file))
  IN  hits # <<>> /\ ~Last(hits).negated

IsWorkflow(path) == IsPrefix(<<".github", "workflows">>, path)
IsAction(path) == IsPrefix(<<".github", "actions">>, path) /\ Last(path) = "action"
Candidate(file) == file.path[1] \in {".github", "scripts", "package.json", "Cargo.toml"}

Init ==
  /\ given \in Repositories
  /\ state = [at |-> "inventory", left |-> SelectSeq(given.files, Candidate), taken |-> 0,
              read |-> <<>>, excluded |-> SelectSeq(given.excluded, Candidate), unresolved |-> <<>>,
              todo |-> <<>>, cursor |-> 0, checks |-> <<>>, answer |-> Nothing]

Config ==
  /\ state.at = "inventory" /\ state.left # <<>>
  /\ LET file == Head(state.left)
         out(reason) == [path |-> file.path, reason |-> reason]
     IN  state' = [state EXCEPT !.left = Tail(@), !.taken = @ + 1,
           !.read = IF state.taken < MaxConfigs /\ ~Excludes(file) THEN Append(@, file) ELSE @,
           !.excluded = IF state.taken >= MaxConfigs THEN Append(@, out("limit"))
                        ELSE IF Excludes(file) THEN Append(@, out("gitignore")) ELSE @]
  /\ UNCHANGED given

-----------------------------------------------------------------------------
(* workflow.rs and action.rs: the documents that are read, and those that   *)
(* cannot be.                                                               *)

Problem(file) ==
  CASE file.problem # Nothing -> file.problem
    [] IsAction(file.path) /\ ~file.composite -> "non-composite action body unsupported"
    [] IsAction(file.path) /\ Len(file.steps) > MaxSteps -> "too many steps"
    [] IsWorkflow(file.path) /\ (\E j \in Range(file.jobs) : Len(j.steps) > MaxSteps) -> "too many steps"
    [] OTHER -> Nothing

Workflows == SelectSeq(state.read, LAMBDA f : IsWorkflow(f.path) /\ Problem(f) = Nothing)
Actions == SelectSeq(state.read, LAMBDA f : IsAction(f.path) /\ Problem(f) = Nothing)
InScope == SelectSeq(Workflows, LAMBDA w : Scope \in {Nothing} \cup Range(w.path))

Parse ==
  /\ state.at = "inventory" /\ state.left = <<>>
  /\ LET bad(T(_)) == SelectSeq(state.read, LAMBDA f : T(f.path) /\ Problem(f) # Nothing)
         failed == bad(IsWorkflow) \o bad(IsAction)
         lost == SelectSeq(state.excluded, LAMBDA x : IsWorkflow(x.path) \/ x.reason \in {"limit", "symlink"})
         steps(w, j) == [k \in 1..Len(w.jobs[j].steps) + 1 |-> [w |-> w, j |-> j, s |-> k]]
     IN  state' = [state EXCEPT !.at = "project",
           !.unresolved = FlattenSeq([k \in DOMAIN failed |-> Says(failed[k].path, Problem(failed[k]))])
                            \o FlattenSeq([k \in DOMAIN lost |-> Says(lost[k].path, lost[k].reason)]),
           !.todo = FlattenSeq([k \in DOMAIN InScope |->
                      FlattenSeq([j \in DOMAIN InScope[k].jobs |-> steps(InScope[k], j)])])]
  /\ UNCHANGED given

-----------------------------------------------------------------------------
(* build/model.rs: the members a command selects, and what they build.      *)

Trimmed(dir) == IF dir = Nothing THEN <<>> ELSE dir
Selected(m, dir, package, manifest) ==
  CASE package # Nothing -> m.name = package
    [] package = Nothing /\ manifest # Nothing -> m.manifest \in {manifest, Trimmed(dir) \o manifest}
    [] OTHER -> Trimmed(dir) \in {<<>>, m.path}

TargetSources(name, dir, package, manifest) ==
  UNION {{m.path \o t.path : t \in {u \in m.targets : u.kind = "test" /\ u.name = name}} :
           m \in {n \in given.members : Selected(n, dir, package, manifest)}}

TargetIds(name, ids) ==
  UNION {{<<m.id, t.name>> : t \in {u \in m.targets : u.kind = "test" /\ name \in {Nothing, u.name}}} :
           m \in {n \in given.members : n.id \in ids}}
TaskIds(name, ids) == {<<m.id, name>> : m \in {n \in given.members : n.id \in ids /\ name \in n.tasks}}

-----------------------------------------------------------------------------
(* recognize.rs: the checks a command's lines invoke.                       *)

Runners == {"npm", "pnpm", "yarn"}
Flags == {"--check", "--test", "-p", "--manifest-path", "--fail-under-lines", "-D", "--noEmit"}
Silent == {"#", "echo", "printf"}
After(words, flag) ==
  LET at == {k \in 1..Len(words) - 1 : words[k] = flag} IN IF at = {} THEN Nothing ELSE words[Min(at) + 1]
Occurs(text, part, from) ==
  {k \in from + 1..Len(text) - Len(part) + 1 : SubSeq(text, k, k + Len(part) - 1) = part}

Executable(line) == IF line # <<>> /\ Head(line) = "if" THEN Tail(line) ELSE line

CargoKind(words, sub) ==
  CASE sub = "fmt" /\ Contains(words, "--check") -> "rustfmt_check"
    [] sub = "clippy" -> "clippy"
    [] sub = "test" -> "cargo_test"
    [] sub = "llvm-cov" /\ After(words, "--fail-under-lines") # Nothing -> "line_coverage_threshold"
    [] sub = "tree" /\ Contains(words, "grep") -> "forbidden_transport_dependency"
    [] sub = "audit" -> "cargo_audit"
    [] OTHER -> Nothing

NpmScript(words) ==
  CASE Len(words) > 2 /\ words[2] = "run" -> words[3]
    [] Len(words) > 1 /\ words[2] \in {"test", "lint"} -> words[2]
    [] OTHER -> Nothing

Kind(words) ==
  LET second == IF Len(words) > 1 THEN words[2] ELSE Nothing
  IN  CASE words[1] = "cargo" -> CargoKind(words, FirstOf(Tail(words), LAMBDA w : w \notin Flags))
        [] words[1] \in Runners /\ NpmScript(words) # Nothing -> "npm_script"
        [] words[1] = "npx" /\ second = "tsc" /\ Contains(words, "--noEmit") -> "typescript_typecheck"
        [] words[1] = "npx" /\ second \in {"eslint", "jest"} -> second
        [] words[1] = "go" /\ second \in {"test", "vet"} -> "go_" \o second
        [] words[1] = "weavatrix" /\ Len(words) > 2 /\ second = "tool"
             /\ words[3] = "verify_architecture" -> "architecture_verification"
        [] OTHER -> Nothing

Found(line, dir, words, kind) ==
  LET cargo == kind = "cargo_test"
      target == IF cargo THEN After(words, "--test") ELSE IF kind = "npm_script" THEN NpmScript(words) ELSE Nothing
      package == IF cargo THEN After(words, "-p") ELSE Nothing
      manifest == IF cargo THEN After(words, "--manifest-path") ELSE Nothing
  IN  [kind |-> kind, target |-> target, package |-> package, manifest |-> manifest, line |-> line,
       resolved |-> IF cargo /\ target # Nothing THEN TargetSources(target, dir, package, manifest) # {} ELSE Nothing,
       recognition |-> IF kind = "forbidden_transport_dependency" THEN "KNOWN_COUNTEREXAMPLE"
                       ELSE IF kind = "npm_script" THEN "WRAPPER_UNRESOLVED" ELSE "LITERAL_COMMAND"]

InStep(lines, dir) ==
  LET spoken == SelectSeq(lines, LAMBDA l : /\ Executable(l) # <<>> /\ Head(l) \notin Silent
                                             /\ Kind(Executable(l)) # Nothing)
  IN  [k \in DOMAIN spoken |-> Found(spoken[k], dir, Executable(spoken[k]), Kind(Executable(spoken[k])))]

Lines(step) == IF step.lines = Nothing THEN <<>> ELSE step.lines
Ordinal(found, k) == Cardinality({i \in 1..k : found[i].kind = found[k].kind})

-----------------------------------------------------------------------------
(* scenario.rs and restrictions/mod.rs: when a check applies, and what its  *)
(* failure does.                                                            *)

Wild(segments) == Range(segments) \cap {"*", "**"} # {}
Deep(pattern) == Len(pattern.path) > 1 /\ Last(pattern.path) = "**"

MatchPatterns(patterns, value) ==
  LET unsure(p) == p = Nothing \/ p.negated \/ (~Deep(p) /\ Wild(p.path))
      hits(p) == IF Deep(p) THEN ~Wild(Front(p.path)) /\ IsStrictPrefix(Front(p.path), value) ELSE p.path = value
  IN  CASE value = Nothing \/ (\E p \in Range(patterns) : unsure(p)) -> "UNDETERMINED"
        [] value # Nothing /\ (\E p \in Range(patterns) : ~unsure(p) /\ hits(p)) -> "YES"
        [] OTHER -> "NO"

Unsupported == {"branches-ignore", "paths-ignore", "types", "tags", "tags-ignore"}

Filters(w, scenario) == IF scenario.event \in DOMAIN w.filters THEN w.filters[scenario.event] ELSE <<>>

(* Mutant of Trigger: a filter the answer does not read is no filter.       *)
TriggerUnfiltered(w, scenario) ==
  LET filters == Filters(w, scenario)
      files == IF scenario.files = Nothing THEN {} ELSE {MatchPatterns(filters["paths"], f) : f \in scenario.files}
      branch == IF "branches" \in DOMAIN filters THEN MatchPatterns(filters["branches"], scenario.branch) ELSE "YES"
  IN  CASE scenario.event = Nothing -> "EVENT_UNKNOWN"
        [] scenario.event # Nothing /\ scenario.event \notin w.triggers -> "NOT_TRIGGERED"
        [] branch # "YES" -> "UNDETERMINED"
        [] "paths" \in DOMAIN filters /\ "YES" \notin files -> "NOT_TRIGGERED"
        [] OTHER -> "TRIGGERED"

Trigger(w, scenario) ==
  LET filters == Filters(w, scenario)
      branch == IF "branches" \in DOMAIN filters THEN MatchPatterns(filters["branches"], scenario.branch) ELSE "YES"
      files == IF scenario.files = Nothing THEN {"UNDETERMINED"}
               ELSE {MatchPatterns(filters["paths"], f) : f \in scenario.files}
  IN  IF scenario.event = Nothing THEN "EVENT_UNKNOWN"
      ELSE IF scenario.event \notin w.triggers THEN "NOT_TRIGGERED"
      ELSE IF DOMAIN filters \cap Unsupported # {} \/ branch = "UNDETERMINED" THEN "UNDETERMINED"
      ELSE IF branch = "NO" THEN "NOT_TRIGGERED"
      ELSE IF "paths" \notin DOMAIN filters \/ "YES" \in files THEN "TRIGGERED"
      ELSE IF "UNDETERMINED" \in files THEN "UNDETERMINED" ELSE "NOT_TRIGGERED"

ConditionClass(c) ==
  CASE c \in {Nothing, "true"} -> "TRUE" [] c = "false" -> "FALSE" [] OTHER -> "EXPRESSION"

Applicability(w, job, step) ==
  LET trigger == Trigger(w, Scenario)
      classes == {ConditionClass(job.condition), ConditionClass(step.condition)}
  IN  IF trigger # "TRIGGERED" THEN trigger
      ELSE IF "FALSE" \in classes THEN "SKIPPED"
      ELSE IF "EXPRESSION" \in classes THEN "UNDETERMINED"
      ELSE IF job.needs # {} THEN "UPSTREAM_UNKNOWN" ELSE "APPLIES_LOCALLY"

FailureEffect(job, step) ==
  LET tolerated == {job.tolerated, step.tolerated}
  IN  IF "true" \in tolerated THEN "SOFTENED"
      ELSE IF tolerated \subseteq {Nothing, "false"} THEN "PROPAGATES_IN_JOB" ELSE "UNDETERMINED"

FailureEffectFor(job, step, found) ==
  IF Occurs(found.line, <<"||", "true">>, 0) # {} THEN "SOFTENED"
  ELSE IF Head(found.line) = "if" \/ found.recognition = "KNOWN_COUNTEREXAMPLE" THEN "UNDETERMINED"
  ELSE FailureEffect(job, step)

-----------------------------------------------------------------------------
(* restrictions/mod.rs and local.rs: one step of a job. Its own checks come *)
(* first, then those of the scripts it runs, then those of its action.      *)

Restriction(found, id, path, applies, effect, recognition) ==
  [id |-> id, kind |-> found.kind, target |-> found.target, resolved |-> found.resolved, package |-> found.package,
   manifest |-> found.manifest, line |-> found.line, recognition |-> recognition, path |-> path, dir |-> Nothing,
   span |-> Nothing, applies |-> applies, effect |-> effect]

Id(w, job, step, by, kind, n) == [step |-> <<w.path, job.id, step>>, by |-> by, kind |-> kind, n |-> n]

(* A workflow's text: what its steps are called and what they run.          *)
StepText(step) == step.name \o FlattenSeq(Lines(step))
Text(w) == FlattenSeq([j \in DOMAIN w.jobs |-> FlattenSeq([s \in DOMAIN w.jobs[j].steps |-> StepText(w.jobs[j].steps[s])])])

(* command_span(): the first place of each distinct line, the cursor moving *)
(* behind each that is found.                                               *)
RECURSIVE Spans(_, _, _)
Spans(text, lines, found) ==
  IF lines = <<>> THEN found
  ELSE LET at == Occurs(text, Head(lines), found.cursor)
           span == IF at = {} THEN Nothing ELSE Min(at)
       IN  Spans(text, Tail(lines),
             IF Head(lines) \in DOMAIN found.of THEN found
             ELSE [cursor |-> IF at = {} THEN found.cursor ELSE span + Len(Head(lines)) - 1,
                   of |-> found.of @@ (Head(lines) :> span)])

Sound(path) == Range(path) \cap {"${{", ".."} = {}

(* The checks of a body that is read, each with the place it is read from.  *)
Body(found, id, path, recognition) ==
  [k \in DOMAIN found |-> Restriction(found[k], [id EXCEPT !.kind = found[k].kind, !.n = k], path,
                                      "UNDETERMINED", "UNDETERMINED", recognition)]

Outcome(checks, unresolved) == [checks |-> checks, unresolved |-> unresolved]

InspectNpm(w, job, step, s, dir) ==
  LET line == FirstOf(Lines(step), LAMBDA l : l # <<>> /\ Head(l) \in Runners /\ Len(l) > 1
                                               /\ (l[2] = "test" \/ (l[2] = "run" /\ Len(l) > 2)))
      path == Trimmed(dir) \o <<"package.json">>
      file == File(path)
      id == Id(w, job, s, "npm", Nothing, 0)
      fails(why) == Outcome(<<>>, Says(id.step, why))
  IN  CASE line = Nothing -> Outcome(<<>>, <<>>)
        [] line # Nothing /\ ~Sound(path) -> fails("dynamic or escaping package script scope")
        [] line # Nothing /\ Sound(path) /\ file = Nothing -> fails("package.json unavailable")
        [] line # Nothing /\ Sound(path) /\ file # Nothing /\ file.problem # Nothing -> fails("package.json could not be parsed")
        [] line # Nothing /\ Sound(path) /\ file # Nothing /\ file.problem = Nothing /\ NpmScript(line) \notin DOMAIN file.scripts
             -> fails("npm script target unavailable")
        [] OTHER -> Outcome(Body(InStep(<<file.scripts[NpmScript(line)]>>, dir), id, path, "LITERAL_PACKAGE_SCRIPT"),
                            Says(id.step, "package script shell control flow not evaluated"))

(* A line that runs a helper: ./scripts/x, or a shell with scripts/x.       *)
Helper(line) ==
  CASE line # <<>> /\ Head(line) = "./scripts/check" -> <<"scripts", "check">>
    [] Len(line) > 1 /\ Head(line) \in {"bash", "sh"} /\ line[2] \in {"scripts/check", "scripts/lint"}
         -> IF line[2] = "scripts/check" THEN <<"scripts", "check">> ELSE <<"scripts", "lint">>
    [] OTHER -> Nothing

InspectHelper(w, job, s, dir, helper) ==
  LET path == Trimmed(dir) \o helper
      file == File(path)
      id == Id(w, job, s, "script", Nothing, 0)
  IN  CASE ~Sound(path) -> Outcome(<<>>, Says(id.step, "dynamic or escaping helper path"))
        [] Sound(path) /\ file = Nothing -> Outcome(<<>>, Says(id.step, "helper script unavailable"))
        [] OTHER -> Outcome(Body(InStep(file.lines, dir), id, path, "LITERAL_HELPER_LINE"),
                            Says(id.step, "helper control flow and shell exit behavior not evaluated"))

InspectScripts(w, job, step, s, dir) ==
  LET lines == SelectSeq(Lines(step), LAMBDA l : Helper(l) # Nothing)
      each == <<InspectNpm(w, job, step, s, dir)>>
                \o [k \in DOMAIN lines |-> InspectHelper(w, job, s, dir, Helper(lines[k]))]
  IN  Outcome(FlattenSeq([k \in DOMAIN each |-> each[k].checks]),
              FlattenSeq([k \in DOMAIN each |-> each[k].unresolved]))

NestedChecks(w, job, step, s, action, n) ==
  LET nested == action.steps[n]
      found == InStep(Lines(nested), Nothing)
      applies == IF Applicability(w, job, step) = "APPLIES_LOCALLY" /\ nested.condition \in {Nothing, "true"}
                 THEN "APPLIES_LOCALLY" ELSE "UNDETERMINED"
      effect == IF nested.tolerated = "true" THEN "SOFTENED" ELSE FailureEffect(job, step)
  IN  [k \in DOMAIN found |-> Restriction(found[k], Id(w, job, s, <<"action", n>>, found[k].kind, k), action.path,
                                          applies, effect, found[k].recognition)]

InspectAction(w, job, step, s) ==
  LET id == <<w.path, job.id, s>>
      action == FirstOf(Actions, LAMBDA a : a.path = step.uses \o <<"action">>)
      nested == IF action = Nothing THEN <<>> ELSE action.steps
  IN  CASE step.uses = Nothing -> Outcome(<<>>, <<>>)
        [] step.uses # Nothing /\ Head(step.uses) # ".github" -> Outcome(<<>>, Says(id, "remote action body not available"))
        [] step.uses # Nothing /\ Head(step.uses) = ".github" /\ ~Sound(step.uses)
             -> Outcome(<<>>, Says(id, "invalid local action reference"))
        [] step.uses # Nothing /\ Head(step.uses) = ".github" /\ Sound(step.uses) /\ action = Nothing
             -> Outcome(<<>>, Says(id, "local action body unavailable"))
        [] OTHER -> Outcome(FlattenSeq([n \in DOMAIN nested |-> NestedChecks(w, job, step, s, action, n)]),
                            FlattenSeq([n \in DOMAIN nested |->
                              IF nested[n].uses = Nothing THEN <<>> ELSE Says(id, "nested action body not analyzed")]))

Step ==
  /\ state.at = "project" /\ state.todo # <<>>
  /\ LET w == Head(state.todo).w
         s == Head(state.todo).s
         job == w.jobs[Head(state.todo).j]
         step == job.steps[s]
         dirs == SelectSeq(<<step.dir, job.dir, w.dir>>, LAMBDA d : d # Nothing)
         dir == IF dirs = <<>> THEN Nothing ELSE Head(dirs)
         found == InStep(Lines(step), dir)
         start == IF Head(state.todo).j = 1 /\ s = 1 THEN 0 ELSE state.cursor
         spans == Spans(Text(w), [k \in DOMAIN found |-> found[k].line], [cursor |-> start, of |-> <<>>])
         own == [k \in DOMAIN found |->
                   [Restriction(found[k], Id(w, job, s, "step", found[k].kind, Ordinal(found, k)), w.path,
                                Applicability(w, job, step), FailureEffectFor(job, step, found[k]), found[k].recognition)
                      EXCEPT !.dir = dir, !.span = spans.of[found[k].line]]]
         scripts == InspectScripts(w, job, step, s, dir)
         action == InspectAction(w, job, step, s)
     IN  /\ s <= Len(job.steps)
         /\ state' = [state EXCEPT !.todo = Tail(@), !.cursor = spans.cursor,
              !.checks = @ \o own \o scripts.checks \o action.checks,
              !.unresolved = @ \o scripts.unresolved \o action.unresolved]
  /\ UNCHANGED given

(* job_summary(): the workflow a job calls and the matrix it runs over.     *)
EndJob ==
  /\ state.at = "project" /\ state.todo # <<>>
  /\ LET w == Head(state.todo).w
         job == w.jobs[Head(state.todo).j]
         id == <<w.path, job.id>>
         resolved == job.reusable # Nothing /\ (\E o \in Range(Workflows) : o.path = job.reusable)
     IN  /\ Head(state.todo).s > Len(job.steps)
         /\ state' = [state EXCEPT !.todo = Tail(@),
              !.cursor = IF Head(state.todo).j = 1 /\ job.steps = <<>> THEN 0 ELSE @,
              !.unresolved = @ \o (IF job.reusable # Nothing /\ ~resolved THEN Says(id, "reusable workflow body unavailable") ELSE <<>>)
                               \o (IF job.matrix = "dynamic" THEN Says(id, "dynamic matrix") ELSE <<>>)]
  /\ UNCHANGED given

-----------------------------------------------------------------------------
(* linkage.rs: the checker the declared rules are bound to.                 *)

(* without_comments() on one line of a test's source: what is left of it,   *)
(* and whether a block comment is open behind it.                           *)
RECURSIVE Code(_, _, _)
Code(words, open, kept) ==
  LET close == Occurs(words, <<"*/">>, 0)
      begin == Occurs(words, <<"/*">>, 0)
      spoken(s) == IF Occurs(s, <<"//">>, 0) = {} THEN s ELSE SubSeq(s, 1, Min(Occurs(s, <<"//">>, 0)) - 1)
      rest(at) == SubSeq(words, Min(at) + 1, Len(words))
  IN  CASE words = <<>> -> [kept |-> kept, open |-> open]
        [] words # <<>> /\ open /\ close = {} -> [kept |-> kept, open |-> TRUE]
        [] words # <<>> /\ open /\ close # {} -> Code(rest(close), FALSE, kept)
        [] ~open /\ begin # {} -> Code(rest(begin), TRUE, kept \o spoken(SubSeq(words, 1, Min(begin) - 1)))
        [] OTHER -> [kept |-> kept \o spoken(words), open |-> FALSE]

RECURSIVE FailsOn(_, _)
FailsOn(lines, open) ==
  /\ lines # <<>>
  /\ LET code == Code(Head(lines), open, <<>>)
         line == code.kept
     IN  \/ /\ Contains(line, "verify_architecture(")
            /\ Contains(line, "assert!(") \/ Contains(line, ".unwrap()") \/ Last(line) = "?"
         \/ FailsOn(Tail(lines), code.open)

CheckerLink(check) ==
  CASE check.kind = "architecture_verification" -> "LITERAL_VERIFIER_INVOCATION"
    [] check.kind = "cargo_test" /\ check.resolved = TRUE
         /\ (\E path \in TargetSources(check.target, check.dir, check.package, check.manifest) :
               File(path) # Nothing /\ FailsOn(File(path).lines, FALSE)) -> "STATIC_FAILURE_PATH_CANDIDATE"
    [] OTHER -> "UNBOUND"

ComponentsOf(file) == {c.id : c \in {d \in given.components : \E p \in d.paths : IsPrefix(p, file)}}

Binding(rule, checker) ==
  IF checker = Nothing THEN [rule |-> rule.id, checker |-> Nothing, linkage |-> "UNBOUND", effect |-> Nothing]
  ELSE [rule |-> rule.id, checker |-> checker.id, linkage |-> CheckerLink(checker), effect |-> checker.effect]

RuleBindings(shown, changed) ==
  LET touched == UNION {ComponentsOf(f) : f \in Range(changed)}
      rules == SelectSeq(given.rules, LAMBDA r : r.from \cap touched # {})
  IN  [total |-> Len(rules),
       of |-> [k \in 1..Min({Bound, Len(rules)}) |->
                 Binding(rules[k], FirstOf(shown, LAMBDA c : CheckerLink(c) # "UNBOUND"))]]

(* protection.rs: the checks that could guard the changed files.            *)
CheckCandidate(check, changed) ==
  LET members == {m.id : m \in {n \in given.members : \E f \in Range(changed) : IsPrefix(n.path, f)}}
      targets == IF check.kind = "cargo_test" THEN TargetIds(check.target, members) ELSE {}
      tasks == IF check.kind = "npm_script" /\ check.target # Nothing THEN TaskIds(check.target, members) ELSE {}
  IN  [id |-> check.id, targets |-> targets, tasks |-> tasks, effect |-> check.effect,
       relation |-> CASE targets # {} -> "TARGET_CHECK_CANDIDATE"
                      [] targets = {} /\ tasks # {} -> "TASK_CHECK_CANDIDATE"
                      [] targets = {} /\ tasks = {} /\ members # {} /\ check.target = Nothing -> "MEMBER_CHECK_CANDIDATE"
                      [] OTHER -> "PROJECT_WORKFLOW_CANDIDATE"]

Protection(shown, changed, complete) ==
  LET bindings == RuleBindings(shown, changed)
      whole == /\ changed = given.changed /\ Len(shown) = Len(state.checks)
               /\ Len(bindings.of) = bindings.total
  IN  [status |-> IF complete /\ whole THEN "STATIC_CANDIDATES" ELSE "INCOMPLETE",
       bindings |-> bindings.of,
       candidates |-> [k \in DOMAIN shown |-> CheckCandidate(shown[k], changed)]]

Answer ==
  /\ state.at = "project" /\ state.todo = <<>>
  /\ LET total == Len(state.checks)
         shown == SubSeq(state.checks, 1, Min({Most, total}))
         complete == state.unresolved = <<>>
     IN  state' = [state EXCEPT !.at = "done",
           !.answer = [status |-> IF complete THEN "COMPLETE" ELSE "INCOMPLETE", checks |-> shown, total |-> total,
                       truncated |-> total > Most, unresolved |-> state.unresolved,
                       protection |-> IF ~Protecting THEN Nothing
                         ELSE Protection(shown, SubSeq(given.changed, 1, Min({Shown, Len(given.changed)})), complete)]]
  /\ UNCHANGED given

Next == Config \/ Parse \/ Step \/ EndJob \/ Answer
Spec == Init /\ [][Next]_vars

-----------------------------------------------------------------------------
(* What GitHub does with the filters: * stands for one segment, ** for any  *)
(* number, and the last pattern that fits a path decides.                   *)

GlobFits(pattern, path) ==
  LET fits[p \in 1..Len(pattern) + 1, k \in 1..Len(path) + 1] ==
        IF p > Len(pattern) THEN k > Len(path)
        ELSE \/ pattern[p] = "**" /\ (fits[p + 1, k] \/ (k <= Len(path) /\ fits[p, k + 1]))
             \/ k <= Len(path) /\ pattern[p] \in {"*", path[k]} /\ fits[p + 1, k + 1]
  IN  fits[1, 1]

Fits(patterns, path) ==
  LET hits == SelectSeq(patterns, LAMBDA p : p # Nothing /\ GlobFits(p.path, path))
  IN  hits # <<>> /\ ~Last(hits).negated

Triggers(w) ==
  LET filters == Filters(w, Scenario)
  IN  /\ Scenario.event \in w.triggers
      /\ DOMAIN filters \subseteq {"branches", "paths"}
      /\ "branches" \in DOMAIN filters =>
           Scenario.branch # Nothing /\ Fits(filters["branches"], Scenario.branch)
      /\ "paths" \in DOMAIN filters =>
           Scenario.files # Nothing /\ (\E f \in Scenario.files : Fits(filters["paths"], f))

(* The step a check was found under: its workflow, its job and itself.      *)
Origin(check) ==
  LET w == File(check.id.step[1])
      job == FirstOf(w.jobs, LAMBDA j : j.id = check.id.step[2])
  IN  [w |-> w, job |-> job, step |-> job.steps[check.id.step[3]]]

(* A check that is said to apply is reached: the event, the branch and a    *)
(* changed file pass the filters as GitHub reads them, and no condition,    *)
(* needed job or softened failure stands between (restrictions/mod.rs,      *)
(* applicability, failure_effect; scenario.rs).                             *)
AppliesMeansReached ==
  \A c \in Range(state.checks) :
    LET o == Origin(c)
    IN  /\ c.applies = "APPLIES_LOCALLY" =>
             /\ Triggers(o.w) /\ o.job.needs = {}
             /\ {o.job.condition, o.step.condition} \subseteq {Nothing, "true"}
        /\ c.effect = "PROPAGATES_IN_JOB" => {o.job.tolerated, o.step.tolerated} \subseteq {Nothing, "false"}

(* A complete answer leaves no workflow unread and no check of a step or of *)
(* its action out (workflow.rs, collect; local.rs).                         *)
CompleteMeansRead ==
  state.answer.status = "COMPLETE" =>
    /\ \A x \in Range(given.excluded) : ~IsWorkflow(x.path)
    /\ \A w \in {f \in Range(given.files) : IsWorkflow(f.path) /\ Scope \in {Nothing} \cup Range(f.path)} :
         \A j \in Range(w.jobs) : \A s \in DOMAIN j.steps :
           LET step == j.steps[s]
               action == IF step.uses = Nothing THEN Nothing ELSE File(step.uses \o <<"action">>)
               steps == {step} \cup (IF action = Nothing THEN {} ELSE Range(action.steps))
               lines == UNION {Range(Lines(t)) : t \in steps}
           IN  /\ step.uses # Nothing => action # Nothing
               /\ \A l \in lines : (l # <<>> /\ Head(l) \notin Silent /\ Kind(Executable(l)) # Nothing) =>
                    \E c \in Range(state.checks) : c.line = l /\ c.id.step = <<w.path, j.id, s>>

(* A declared rule is bound to a check only if the check runs the verifier, *)
(* and a change whose protection is not incomplete is shown every rule and  *)
(* every check there is (linkage.rs; protection.rs, attach).                *)
BoundMeansVerified ==
  LET protection == state.answer.protection
      touched == UNION {ComponentsOf(f) : f \in Range(given.changed)}
  IN  Protecting =>
        /\ \A b \in Range(protection.bindings) : b.linkage # "UNBOUND" =>
             \E c \in Range(state.checks) :
               /\ c.id = b.checker
               /\ \/ Contains(c.line, "verify_architecture")
                  \/ \E path \in TargetSources(c.target, c.dir, c.package, c.manifest) :
                       \E l \in Range(File(path).lines) : Contains(l, "verify_architecture(") /\ Head(l) # "//"
        /\ protection.status = "STATIC_CANDIDATES" =>
             /\ \A r \in Range(given.rules) : r.from \cap touched # {} =>
                  \E b \in Range(protection.bindings) : b.rule = r.id
             /\ {c.id : c \in Range(state.checks)} \subseteq {c.id : c \in Range(protection.candidates)}

(* A check that is reported can fail a pull request as it says, from        *)
(* everything that was to be read, and is bound only by a rule verified.    *)
ChecksAreEvidence == state.at = "done" => AppliesMeansReached /\ CompleteMeansRead /\ BoundMeansVerified
=============================================================================
