--------------------------- MODULE VerifiedChange ---------------------------
(* The verdict of a verified change and the audit under it                  *)
(* (src/operations/workflow/verified/, health/audit.rs, debt.rs, runtime/,  *)
(* evidence/). The checks run in order; any that fails fails the operation. *)
(* A source is a sequence of lines with what the line rules see in them.    *)
EXTENDS Integers, Sequences, FiniteSets, SequencesExt, FiniteSetsExt

CONSTANTS
  Changes,  \* calls of verified_change or run_audit and their repository
  DebtCap,  \* findings a revision's review stops at
  Nothing   \* an absent argument, no answer yet

VARIABLES
  change,     \* the call and its repository
  due,        \* the next check; "idle" outside a call
  context,    \* the nodes to show
  checks,     \* what the checks that were made say
  suggested,  \* the tests to run
  answer

verifyVars == <<change, due, context, checks, suggested, answer>>

SourceLine ==
  [text : STRING, matches : SUBSET STRING, commented : BOOLEAN, long : BOOLEAN, test : BOOLEAN,
   async : BOOLEAN, blank : BOOLEAN, indent : Nat]

SourceFile ==
  [path : STRING, language : STRING, lines : Seq(SourceLine), product : BOOLEAN, readable : BOOLEAN]

ApiMismatches == {"HTTP_METHOD_MISMATCH", "EVENT_CONTRACT_MISMATCH", "TYPED_API_CONTRACT_MISMATCH"}

ChangesAssumption ==
  /\ DebtCap \in Nat /\ Nothing \notin ApiMismatches
  /\ \A c \in Changes :
       /\ c.repo.sources \in Seq(SourceFile)
       /\ c.repo.before = Nothing \/ c.repo.before \in Seq(SourceFile)
       /\ c.repo.cycles \in Seq(SUBSET STRING) /\ c.repo.cyclesBefore \in Seq(SUBSET STRING)
       /\ c.repo.dependencies \in Int /\ c.repo.diagnostics \in Nat

ASSUME ChangesAssumption

Upto(seq, n) == IF Len(seq) <= n THEN seq ELSE SubSeq(seq, 1, n)
Or(value, default) == IF value = Nothing THEN default ELSE value
Clamp(n, low, high) == IF n < low THEN low ELSE IF n > high THEN high ELSE n

-----------------------------------------------------------------------------
(* The runtime review: each line against the rules of its language.         *)

RuleOrder == <<"await_in_loop", "floating_promise", "empty_catch", "blocking_call", "unwrap", "shared_global">>

RuleLanguages ==
  [await_in_loop |-> {"script", "python"}, floating_promise |-> {"script"},
   empty_catch |-> {"script", "python", "rust", "go"}, blocking_call |-> {"script", "python", "rust"},
   unwrap |-> {"rust"}, shared_global |-> {"script", "python", "go"}]

Severity(rule, line) ==
  CASE rule = "empty_catch" -> IF line.commented THEN 0 ELSE 2
    [] rule \in {"floating_promise", "blocking_call"} -> 2
    [] OTHER -> 1

(* python_async_lines(): the lines indented under an `async def`.           *)
PythonAsync(lines) ==
  FoldLeft(LAMBDA acc, k :
             LET scopes == SelectSeq(acc.scopes, LAMBDA s : s < lines[k].indent)
                 opens == lines[k].async
             IN  IF lines[k].blank THEN acc
                 ELSE [scopes |-> IF opens THEN Append(scopes, lines[k].indent) ELSE scopes,
                       found |-> IF scopes # <<>> \/ opens THEN acc.found \cup {k} ELSE acc.found],
           [scopes |-> <<>>, found |-> {}], [k \in DOMAIN lines |-> k]).found

(* brace_async_lines(), elsewhere: what the braces after `async` enclose.   *)
AsyncLines(file) ==
  CASE file.language = "python" -> PythonAsync(file.lines)
    [] file.language \in {"script", "rust"} -> {k \in DOMAIN file.lines : file.lines[k].async}
    [] OTHER -> {}

Sees(rule, file, k, minimum) ==
  LET line == file.lines[k]
  IN  /\ ~line.long
      /\ file.language = "rust" => ~line.test
      /\ file.language \in RuleLanguages[rule] /\ rule \in line.matches
      /\ rule = "blocking_call" => k \in AsyncLines(file)
      /\ Severity(rule, line) >= minimum

(* product_sources(): production files that can be read.                    *)
Product(sources) == {f \in DOMAIN sources : sources[f].product /\ sources[f].readable}

(* Where a rule is met: a file, a line of it and the rule, in their order.  *)
Places(sources, minimum) ==
  UNION {{p \in {f} \X (DOMAIN sources[f].lines) \X (DOMAIN RuleOrder) :
            Sees(RuleOrder[p[3]], sources[f], p[2], minimum)} : f \in Product(sources)}

Earlier(p, q) ==
  \/ p[1] < q[1]
  \/ p[1] = q[1] /\ p[2] < q[2]
  \/ p[1] = q[1] /\ p[2] = q[2] /\ p[3] < q[3]

(* finding_id(): the line by its text, wherever in the file it stands.      *)
FindingId(sources, p) == <<RuleOrder[p[3]], sources[p[1]].path, sources[p[1]].lines[p[2]].text>>

FindingIds(sources, places) == {FindingId(sources, p) : p \in places}

Review(sources, max, minimum) ==
  LET all == Places(sources, minimum)
  IN  [findings |-> {p \in all : Cardinality({q \in all : Earlier(q, p)}) < max},
       truncated |-> Cardinality(all) > max]

-----------------------------------------------------------------------------
(* report() of test_evidence.rs: what an external run says of this revision.*)

TestReport(options, evidence) ==
  LET tests == options.includeTests /\ options.category \in {Nothing, "all", "tests"}
      failed == \/ evidence.exit \notin {Nothing, 0} \/ evidence.success = FALSE
                \/ evidence.trouble
  IN  IF ~tests THEN "SKIPPED"
      ELSE IF evidence = Nothing THEN "NOT_MEASURED"
      ELSE IF \/ evidence.inline /\ evidence.path
              \/ evidence.large \/ ~evidence.inside \/ ~evidence.schema
              \/ evidence.revision # "current" THEN "ERROR"
      ELSE IF failed THEN "FAIL"
      ELSE IF evidence.exit = 0 /\ evidence.success = TRUE THEN "PASS" ELSE "INCOMPLETE"

-----------------------------------------------------------------------------
(* debt(): the current findings by whether the baseline has their identity. *)

CycleIds(components) == {<<"cycle", c>> : c \in Range(components)}

(* What is found now, each finding with its place.                          *)
Current(repo) ==
  {[at |-> p, id |-> FindingId(repo.sources, p)] : p \in Review(repo.sources, DebtCap, 0).findings}
    \cup {[at |-> <<k>>, id |-> <<"cycle", repo.cycles[k]>>] : k \in DOMAIN repo.cycles}

BaselineIds(repo) ==
  FindingIds(repo.before, Review(repo.before, DebtCap, 0).findings) \cup CycleIds(repo.cyclesBefore)

Debt(repo, base) ==
  CASE base = Nothing -> [status |-> "NONE", new |-> {}, existing |-> {}, fixed |-> {}]
    [] base # Nothing /\ repo.before = Nothing -> [status |-> "ERROR"]
    [] OTHER ->
       [status |-> "COMPLETE",
        new |-> {f \in Current(repo) : f.id \notin BaselineIds(repo)},
        existing |-> {f \in Current(repo) : f.id \in BaselineIds(repo)},
        fixed |-> {id \in BaselineIds(repo) : \A f \in Current(repo) : f.id # id}]

(* audit(): every category the options let through.                         *)
Covers(options, category) == options.category \in {Nothing, "all", category}

Audited(options, repo, evidence) ==
  LET minimum == IF Covers(options, "runtime") THEN options.severity ELSE 9
      review == Review(repo.sources, options.max, minimum)
      structure == Covers(options, "structure") /\ options.severity <= 1
      dependencies == Covers(options, "dependencies") /\ repo.dependencies >= options.severity
      diagnostics == Covers(options, "diagnostics") /\ repo.diagnostics > 0 /\ options.max > 0
      tests == TestReport(options, evidence)
      reviewing == \/ review.findings # {} \/ dependencies \/ diagnostics \/ tests = "FAIL"
                   \/ (structure /\ repo.cycles # <<>>)
      debt == Debt(repo, options.base)
  IN  IF "ERROR" \in {tests, debt.status} THEN [status |-> "ERROR"]
      ELSE [status |-> IF reviewing THEN "REVIEW" ELSE "PASS", findings |-> review.findings,
            truncated |-> review.truncated, tests |-> tests, debt |-> debt]

ChangeAudit == [max |-> 50, category |-> Nothing, severity |-> 0, base |-> Or(change.base, "HEAD"),
                includeTests |-> TRUE]

-----------------------------------------------------------------------------
(* The steps of verified_change().                                          *)

CheckNames == {"baseline", "architecture", "audit", "duplicates", "contract"}

VerifyInit ==
  /\ change \in Changes
  /\ due = IF change.tool = "run_audit" THEN "only_audit" ELSE "impact"
  /\ context = <<>> /\ checks = [c \in CheckNames |-> Nothing] /\ suggested = {} /\ answer = Nothing

Fail(where) ==
  /\ due' = "done" /\ answer' = [status |-> "ERROR", at |-> where]
  /\ UNCHANGED <<change, context, checks, suggested>>

Checked(name, value, next) ==
  \/ value = "ERROR" /\ Fail(name)
  \/ /\ value # "ERROR"
     /\ due' = next /\ checks' = [checks EXCEPT ![name] = value]
     /\ UNCHANGED <<change, context, suggested, answer>>

(* The arguments, then change_impact_unchecked().                           *)
Impact ==
  /\ due = "impact"
  /\ IF change.task = Nothing \/ change.phase \notin {"plan", "verify"} \/ ~change.impact.known
     THEN Fail("impact")
     ELSE due' = "context" /\ UNCHANGED <<change, context, checks, suggested, answer>>

(* retrieve_change_context(), edit_contexts(): impacted nodes, declarations *)
(* of changed files, then nodes that a term of the task names.              *)
Context ==
  LET nodes == change.nodes
      All == [k \in DOMAIN nodes |-> k]
      wanted == change.impact.nodes
                  \o SelectSeq(All, LAMBDA k : nodes[k].file \in change.impact.files)
                  \o SelectSeq(All, LAMBDA k : nodes[k].named)
      distinct == FoldLeft(LAMBDA acc, k : IF k \in Range(acc) THEN acc ELSE Append(acc, k), <<>>, wanted)
      selected == IF change.phase = "verify" /\ change.impact.files = {} THEN <<>>
                  ELSE Upto(distinct, Clamp(Or(change.maxSymbols, 12), 1, 50))
  IN  /\ due = "context"
      /\ IF \E k \in Range(selected) : nodes[k].file # Nothing /\ ~nodes[k].readable
         THEN Fail("context")
         ELSE due' = "baseline" /\ context' = selected /\ UNCHANGED <<change, checks, suggested, answer>>

BaselineSays ==
  CASE change.phase = "plan" -> "PLANNED"
    [] change.phase # "plan" /\ change.repo.before = Nothing -> "ERROR"
    [] OTHER -> "PASS"

GraphBaseline == due = "baseline" /\ Checked("baseline", BaselineSays, "architecture")

ArchitectureSays ==
  CASE change.impact.files = {} -> "NOT_APPLICABLE"
    [] change.impact.files # {} /\ change.phase = "plan" -> "PLANNED"
    [] OTHER -> change.architecture

Architecture == due = "architecture" /\ Checked("architecture", ArchitectureSays, "audit")

AuditIs(audited) ==
  /\ due = "audit"
  /\ IF audited.status = "ERROR" THEN Fail("audit")
     ELSE /\ due' = "duplicates" /\ checks' = [checks EXCEPT !["audit"] = audited]
          /\ UNCHANGED <<change, context, suggested, answer>>

AuditSays ==
  IF change.phase = "plan" THEN [status |-> "PLANNED"] ELSE Audited(ChangeAudit, change.repo, Nothing)

Audit == AuditIs(AuditSays)

DuplicatesSay ==
  CASE change.ratchet = FALSE -> "SKIPPED"
    [] change.ratchet # FALSE /\ change.phase = "plan" -> "PLANNED"
    [] OTHER -> IF change.families = 0 THEN "PASS" ELSE "REVIEW"

Duplicates == due = "duplicates" /\ Checked("duplicates", DuplicatesSay, "contract")

ContractSays ==
  CASE change.contract = Nothing -> "SKIPPED"
    [] change.contract = "ERROR" -> "ERROR"
    [] change.contract \in ApiMismatches -> "REVIEW"
    [] OTHER -> "PASS"

ApiContract == due = "contract" /\ Checked("contract", ContractSays, "tests")

(* build_test_evidence(): impacted paths that look like tests.              *)
AffectedTests ==
  {change.nodes[k].file : k \in {j \in Range(change.impact.nodes) : change.nodes[j].test}}

Tests ==
  /\ due = "tests"
  /\ IF change.runTests = TRUE THEN Fail("tests")
     ELSE due' = "assess" /\ suggested' = AffectedTests /\ UNCHANGED <<change, context, checks, answer>>

Blockers ==
  LET audit == checks["audit"]
  IN  (IF audit.status = "REVIEW" \/ audit.debt.new # {} THEN {"health"} ELSE {})
        \cup (IF checks["architecture"] = "BLOCKED" THEN {"architecture"} ELSE {})
        \cup (IF checks["contract"] = "REVIEW" THEN {"contract"} ELSE {})

(* Mutant of Limitations: an unconfigured contract limits nothing.          *)
LimitationsOfBlocked ==
  (IF checks["duplicates"] = "REVIEW" THEN {"duplicates"} ELSE {})
    \cup (IF change.tests # {} \/ suggested # {} THEN {"tests"} ELSE {})

Limitations ==
  (IF checks["architecture"] \notin {"PASS", "NOT_APPLICABLE", "BLOCKED"} THEN {"architecture"} ELSE {})
    \cup (IF checks["duplicates"] = "REVIEW" THEN {"duplicates"} ELSE {})
    \cup (IF change.tests # {} \/ suggested # {} THEN {"tests"} ELSE {})

(* assess() *)
Assessment ==
  LET applies == change.phase = "verify" /\ change.impact.files # {}
      blockers == IF applies THEN Blockers ELSE {}
      limitations == IF change.phase = "plan" THEN {"plan"} ELSE IF applies THEN Limitations ELSE {}
      verdict == IF blockers # {} THEN "BLOCKED" ELSE IF change.phase = "plan" THEN "PLANNED"
                 ELSE IF limitations = {} THEN "PASS" ELSE "REVIEW"
  IN  [status |-> "COMPLETE", verdict |-> verdict, blockers |-> blockers, limitations |-> limitations]

Assess ==
  /\ due = "assess"
  /\ due' = "done" /\ answer' = Assessment
  /\ UNCHANGED <<change, context, checks, suggested>>

(* run_audit with its own options; they are checked first.                  *)
RunAudit ==
  /\ due = "only_audit"
  /\ IF change.options.category \notin {Nothing, "all", "diagnostics", "structure", "dependencies", "runtime", "tests"}
        \/ change.options.severity \notin 0..3
     THEN Fail("options")
     ELSE /\ due' = "done" /\ answer' = Audited(change.options, change.repo, change.evidence)
          /\ UNCHANGED <<change, context, checks, suggested>>

VerifyNext ==
  \/ Impact \/ Context \/ GraphBaseline \/ Architecture \/ Audit \/ Duplicates
  \/ ApiContract \/ Tests \/ Assess \/ RunAudit

VerifySpec == VerifyInit /\ [][VerifyNext]_verifyVars

-----------------------------------------------------------------------------
Answered == answer # Nothing /\ answer.status # "ERROR"

Troubled(sources) == Places(sources, 0) # {}

(* A verified change passes only on evidence: in the verify phase, against a*)
(* baseline that can be read, with no rule of the runtime review met in any *)
(* production file, no cycle, dependency finding or diagnostic, a kept      *)
(* architecture contract, no clone family unless the ratchet is off, no     *)
(* mismatch of a requested contract and no test that is requested or        *)
(* affected. A blocked one has a blocker that is real.                      *)
VerdictHasReasons ==
  Answered /\ change.tool = "verified_change" =>
    /\ answer.verdict = "PLANNED" <=> change.phase = "plan"
    /\ change.phase = "verify" => change.repo.before # Nothing
    /\ answer.verdict = "PASS" /\ change.impact.files # {} =>
         /\ ~Troubled(change.repo.sources) /\ change.repo.cycles = <<>>
         /\ change.repo.dependencies < 0 /\ change.repo.diagnostics = 0
         /\ change.architecture \in {"PASS", "NOT_APPLICABLE"}
         /\ change.families = 0 \/ change.ratchet = FALSE
         /\ change.contract \notin ApiMismatches /\ change.tests = {}
         /\ \A k \in Range(change.impact.nodes) : ~change.nodes[k].test
    /\ answer.verdict = "BLOCKED" =>
         \/ Troubled(change.repo.sources) \/ change.repo.cycles # <<>> \/ change.repo.dependencies >= 0
         \/ change.repo.diagnostics > 0 \/ change.architecture = "BLOCKED" \/ change.contract \in ApiMismatches

(* The debt of an audit tells new from inherited: every finding of today is *)
(* in one part and, while the baseline's review is whole, it is new exactly *)
(* if the baseline has no such line in such a file; what is fixed is seen   *)
(* nowhere today. External tests count only for the loaded revision.        *)
DebtIsInherited ==
  Answered /\ change.tool = "run_audit" =>
    LET debt == answer.debt
        now == Review(change.repo.sources, DebtCap, 0)
        then == Places(change.repo.before, 0)
    IN  /\ debt.status = "COMPLETE" =>
             /\ Cardinality(debt.new) + Cardinality(debt.existing)
                  = Cardinality(now.findings) + Len(change.repo.cycles)
             /\ Cardinality(then) <= DebtCap =>
                  \A p \in now.findings :
                    (\E f \in debt.new : f.at = p)
                      <=> FindingId(change.repo.sources, p) \notin FindingIds(change.repo.before, then)
             /\ ~now.truncated =>
                  debt.fixed \cap FindingIds(change.repo.sources, Places(change.repo.sources, 0)) = {}
        /\ answer.tests \in {"PASS", "FAIL"} => change.evidence.revision = "current"

(* A verdict rests on checks that were made, and the debt it names as new   *)
(* is new.                                                                  *)
VerdictIsEarned == VerdictHasReasons /\ DebtIsInherited
=============================================================================
