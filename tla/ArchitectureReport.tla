------------------------- MODULE ArchitectureReport -------------------------
(* What the architecture operations report beside dependency violations     *)
(* (src/operations/architecture): the capabilities of a contract against    *)
(* the endpoints of the graph (capabilities.rs), its budgets against the    *)
(* sources (budgets.rs, source_metrics/), and the observed folders and      *)
(* edges, as a summary or in pages a client follows (observed/).            *)
EXTENDS Integers, Sequences, FiniteSets, SequencesExt, FiniteSetsExt, Folds

CONSTANTS
  Reports,   \* the questions, each with what it is asked of
  Shown,     \* bound on each list of a summary (8, 3, 12)
  Nothing    \* an absent value, no answer

VARIABLES
  given,  \* the tool, its arguments, the repository
  state   \* how far it is, what it has gathered, the answer

vars == <<given, state>>

Upto(seq, n) == IF Len(seq) <= n THEN seq ELSE SubSeq(seq, 1, n)
Asks(tool) == given.tool = tool /\ state.answer = Nothing
Answer(answer) == state' = [state EXCEPT !.answer = answer] /\ UNCHANGED given

-----------------------------------------------------------------------------
(* verify_capabilities: what the contract claims is served.                 *)

Labels == {n.label : n \in {m \in given.nodes : m.visible}}
FilesOf(label) == UNION {n.files : n \in {m \in given.nodes : m.visible /\ m.label = label}}
ComponentsOf(label) == {given.component[f] : f \in FilesOf(label)} \ {Nothing}

(* trimmed(): a limit of 0 is no limit.                                     *)
Trimmed(seq, limit) == IF limit = 0 THEN seq ELSE Upto(seq, limit)

(* validate(): a capability that nothing could be said of is refused.       *)
Unnamed == \E c \in Range(given.capabilities) : c.id = Nothing
Repeated == \E j, k \in DOMAIN given.capabilities :
              j # k /\ given.capabilities[j].id = given.capabilities[k].id
Empty == \E c \in Range(given.capabilities) : c.endpoints = {}

CheckCapabilities ==
  /\ Asks("capabilities") /\ state.at = 0
  /\ IF given.capabilities # Nothing /\ (Unnamed \/ Repeated \/ Empty)
     THEN Answer([status |-> "ERROR"])
     ELSE state' = [state EXCEPT !.at = 1] /\ UNCHANGED given

(* One capability: its endpoints resolved, missing, or out of place.        *)
Capability ==
  LET c == given.capabilities[state.at]
      missing == c.endpoints \ Labels
      outside == {e \in c.endpoints \cap Labels : c.components # {} /\ ComponentsOf(e) \cap c.components = {}}
      Add(set, condition) == IF condition THEN set \cup {c.id} ELSE set
  IN  /\ Asks("capabilities") /\ given.capabilities # Nothing
      /\ state.at \in DOMAIN given.capabilities
      /\ state' = [state EXCEPT !.at = @ + 1, !.claimed = @ \cup c.endpoints,
                     !.orphaned = Add(@, missing # {}), !.drifted = Add(@, outside # {}),
                     !.served = Add(@, missing = {} /\ outside = {})]
      /\ UNCHANGED given

FinishCapabilities ==
  LET unmapped == SetToSeq(Labels \ state.claimed)
  IN  /\ Asks("capabilities") /\ state.at > 0
      /\ given.capabilities # Nothing => state.at > Len(given.capabilities)
      /\ Answer([status |-> IF given.capabilities = Nothing THEN "NOT_DECLARED"
                            ELSE IF state.drifted \cup state.orphaned # {} THEN "BLOCKED" ELSE "PASS",
                 unmapped |-> Trimmed(unmapped, given.limit), total |-> Len(unmapped)])

-----------------------------------------------------------------------------
(* function_extent.rs. A source is a sequence of tokens, "nl" ends a line.  *)

(* looks_like_character(): another quote soon on the same line.             *)
Ahead == 12
LooksLikeCharacter(source, k) ==
  \E j \in (k + 1)..Min({k + Ahead, Len(source)}) : source[j] = "'" /\ "nl" \notin {source[i] : i \in k..j}

(* mask_non_code(): comments and quoted text are blanks, line ends stay.    *)
Masked(source) ==
  LET Blank(token) == IF token = "nl" THEN "nl" ELSE "blank"
      Turn(m, k) ==
        LET t == source[k]
            quotes == t \in {"quote", "tick"} \/ (t = "'" /\ LooksLikeCharacter(source, k))
            hides == m.mode # "code" \/ quotes \/ t \in {"//", "/*", "raw"}
            n == [m EXCEPT !.out = Append(@, IF hides THEN Blank(t) ELSE t), !.skip = FALSE]
        IN  CASE m.skip -> n
              [] m.mode = "code" -> CASE t = "//" -> [n EXCEPT !.mode = "line"]
                                      [] t = "/*" -> [n EXCEPT !.mode = "block", !.depth = 1]
                                      [] t = "raw" -> [n EXCEPT !.mode = "raw"]
                                      [] quotes -> [n EXCEPT !.mode = t]
                                      [] OTHER -> n
              [] m.mode = "line" -> IF t = "nl" THEN [n EXCEPT !.mode = "code"] ELSE n
              [] m.mode = "block" -> LET depth == CASE t = "/*" -> m.depth + 1 [] t = "*/" -> m.depth - 1 [] OTHER -> m.depth
                                     IN  [n EXCEPT !.depth = depth, !.mode = IF depth = 0 THEN "code" ELSE @]
              [] m.mode = "raw" -> IF t = "quote" THEN [n EXCEPT !.mode = "code"] ELSE n
              [] OTHER -> IF t = "\\" THEN [n EXCEPT !.skip = TRUE]
                          ELSE IF t = m.mode THEN [n EXCEPT !.mode = "code"] ELSE n
  IN  FoldLeft(Turn, [out |-> <<>>, mode |-> "code", depth |-> 0, skip |-> FALSE],
               [k \in DOMAIN source |-> k]).out

LineAt(source, k) == 1 + Cardinality({j \in 1..(k - 1) : source[j] = "nl"})
LineOffset(source, line) ==
  IF line = 1 THEN 1 ELSE 1 + CHOOSE k \in DOMAIN source : source[k] = "nl" /\ LineAt(source, k) = line - 1

(* body_open(): the first brace that is not inside parentheses or brackets, *)
(* unless a semicolon ends the declaration before it.                       *)
BodyOpen(masked, start) ==
  LET Open(n, t, open, close) == CASE t = open -> n + 1 [] t = close /\ n > 0 -> n - 1 [] OTHER -> n
      Turn(s, k) == LET t == masked[k]
                        outer == s.parens = 0 /\ s.brackets = 0
                    IN  IF s.at # Nothing THEN s
                        ELSE [at |-> IF outer /\ t = ";" THEN 0 ELSE IF outer /\ t = "{" THEN k ELSE Nothing,
                              parens |-> Open(s.parens, t, "(", ")"), brackets |-> Open(s.brackets, t, "[", "]")]
      found == FoldLeft(Turn, [at |-> Nothing, parens |-> 0, brackets |-> 0],
                        [j \in 1..(Len(masked) - start + 1) |-> start + j - 1]).at
  IN  IF found = Nothing THEN 0 ELSE found

Extent(source, line) ==
  LET masked == Masked(source)
      open == BodyOpen(masked, LineOffset(source, line))
      Count(k, brace) == Cardinality({j \in open..k : masked[j] = brace})
      closes == {k \in open..Len(masked) : masked[k] = "}" /\ Count(k, "{") = Count(k, "}")}
  IN  IF open = 0 \/ closes = {} THEN 1 ELSE LineAt(masked, Min(closes)) - line + 1

(* indented_lines(): Python, by indentation; blank and comment lines go on. *)
IndentedExtent(lines, start) ==
  LET ends == {k \in (start + 1)..Len(lines) : ~lines[k].blank /\ lines[k].indent <= lines[start].indent}
  IN  (IF ends = {} THEN Len(lines) ELSE Min(ends) - 1) - start + 1

-----------------------------------------------------------------------------
(* budgets.rs: the measures over their limits.                              *)

Lines(file) == IF file.python THEN Len(file.lines) ELSE Cardinality({k \in DOMAIN file.source : file.source[k] = "nl"})
Length(file, start) == IF file.python THEN IndentedExtent(file.lines, start) ELSE Extent(file.source, start)
Above(n, limit) == limit # Nothing /\ n > limit

(* collect(): one governed file; an unreadable one fails the verification.  *)
Measure ==
  LET file == given.files[state.at + 1]
      long == {<<"function", file.path, s>> : s \in {f \in file.functions : Above(Length(file, f), given.limits.function)}}
      large == IF Above(Lines(file), given.limits.file) THEN {<<"file", file.path>>} ELSE {}
  IN  /\ Asks("budgets") /\ state.at < Len(given.files)
      /\ IF file.component # Nothing /\ ~file.readable /\ {given.limits.file, given.limits.function} # {Nothing}
         THEN Answer([status |-> "ERROR"])
         ELSE /\ state' = [state EXCEPT !.at = @ + 1,
                             !.claimed = IF file.component = Nothing THEN @ ELSE @ \cup long \cup large]
              /\ UNCHANGED given

(* runtimeCycles: the cycles with a governed member.                        *)
FinishBudgets ==
  LET governed == {c \in given.cycles : \E f \in Range(given.files) : f.path \in c /\ f.component # Nothing}
      cycles == IF Above(Cardinality(governed), given.limits.cycles) THEN {<<"cycles", governed>>} ELSE {}
  IN  /\ Asks("budgets") /\ state.at = Len(given.files)
      /\ Answer([status |-> "COMPLETE", found |-> state.claimed \cup cycles])

-----------------------------------------------------------------------------
(* observed/: folders of product files, and the edges between them. The     *)
(* graph may change between two pages: it is a revision of given.graphs.    *)

Coupling == {"imports", "calls"}
Graph == given.graphs[state.revision]
Folder(file) == Graph.folder[file]
Observed == {f \in DOMAIN Graph.folder : Folder(f) # Nothing}

Links == {k \in DOMAIN Graph.edges : /\ Graph.edges[k].kind \in Coupling
                                     /\ {Graph.edges[k].from, Graph.edges[k].to} \subseteq Observed}
Between(k) == <<Folder(Graph.edges[k].from), Folder(Graph.edges[k].to), Graph.edges[k].kind>>
Before(p, q) == \/ p[1] < q[1] \/ (p[1] = q[1] /\ p[2] < q[2])
                \/ (p[1] = q[1] /\ p[2] = q[2] /\ p[3] = "calls" /\ q[3] = "imports")

(* edges.rs: the links between two folders, by relation, in their order.    *)
Cross == SetToSortSeq({Between(k) : k \in {j \in Links : Between(j)[1] # Between(j)[2]}}, Before)
Occurrences(pair) == {k \in Links : Between(k) = pair}

(* The identity of the facts: folders with their files, links with theirs.  *)
Identity ==
  [folders |-> {Folder(f) : f \in Observed}, links |-> [k \in Links |-> Between(k)],
   files |-> [d \in {Folder(f) : f \in Observed} |-> Cardinality({f \in Observed : Folder(f) = d})]]

(* cycles.rs: the folders that reach one another.                           *)
RECURSIVE Reach(_)
Reach(set) == LET more == set \cup {p[2] : p \in {q \in Range(Cross) : q[1] \in set}}
              IN  IF more = set THEN set ELSE Reach(more)
Cyclic == {g \in {{d \in Identity.folders : d \in Reach({c}) /\ c \in Reach({d})} : c \in Identity.folders} :
             Cardinality(g) > 1}

(* summary.rs: the lists of a summary, in the order a budget shortens them; *)
(* those of packages and of runners come after them and are left out.       *)
Lists == <<"coupling", "cycles", "components">>

Ranked ==
  LET More(p, q) == LET m == Cardinality(Occurrences(p))
                        n == Cardinality(Occurrences(q))
                    IN  m > n \/ (m = n /\ Before(p, q))
      Larger(c, d) == LET m == Identity.files[c]
                          n == Identity.files[d]
                      IN  m > n \/ (m = n /\ c < d)
  IN  [coupling |-> SetToSortSeq(Range(Cross), More),
       cycles |-> SetToSortSeq(Cyclic, LAMBDA g, h : Min(g) < Min(h)),
       components |-> SetToSortSeq(Identity.folders, Larger)]

(* fit(): lists lose their tails, each one before the next, until all that  *)
(* is left has room.                                                        *)
Fitted(samples, room) ==
  LET After(k) == FoldLeft(LAMBDA n, l : n + Len(samples[l]), 0, SubSeq(Lists, k + 1, Len(Lists)))
      Place(l) == CHOOSE k \in DOMAIN Lists : Lists[k] = l
  IN  IF room = Nothing THEN samples
      ELSE [l \in DOMAIN samples |-> Upto(samples[l], Max({0, room - After(Place(l))}))]

(* Totals of the whole, a sample of each list and whether it is one, which  *)
(* is said before the budget takes its part; of that the status tells.      *)
Summary ==
  LET samples == [l \in Range(Lists) |-> Upto(Ranked[l], Shown[l])]
      kept == Fitted(samples, given.room)
  IN  /\ Asks("inventory") /\ given.detail = "summary"
      /\ Answer([status |-> IF kept # samples THEN "INCOMPLETE" ELSE "COMPLETE",
                 total |-> [l \in Range(Lists) |-> Len(Ranked[l])], sample |-> kept,
                 truncated |-> [l \in Range(Lists) |-> Len(Ranked[l]) > Shown[l]]])

(* Mutant of Continued: where the next page starts is set before the budget *)
(* has taken edges away.                                                    *)
ContinuedByPage(offset, page, kept) == offset + Len(page)

(* Where the next page starts: after what is left of this one.              *)
Continued(offset, page, kept) == offset + Len(kept)

(* report(): one page after the cursor; the token budget has room for some  *)
(* of its edges. A cursor of other facts is refused.                        *)
Page ==
  LET fresh == state.cursor = Nothing
      offset == IF fresh THEN 0 ELSE state.cursor.offset
      page == Upto(SubSeq(Cross, offset + 1, Len(Cross)), given.max)
      kept == IF given.room = Nothing THEN page ELSE Upto(page, given.room)
      next == Continued(offset, page, kept)
      dropped == Len(kept) < Len(page)
  IN  /\ Asks("inventory") /\ given.detail = "full"
      /\ IF ~fresh /\ state.cursor.of # Identity THEN Answer([status |-> "ERROR"])
         ELSE /\ state' = [state EXCEPT
                   !.received = @ \o kept, !.returned = Len(kept),
                   !.cursor = IF next < Len(Cross) THEN [of |-> Identity, offset |-> next] ELSE Nothing,
                   !.answer = IF next < Len(Cross) THEN Nothing
                              ELSE [status |-> IF dropped THEN "INCOMPLETE" ELSE "COMPLETE"]]
              /\ UNCHANGED given

(* The code changes and the graph is built again.                           *)
Rebuild ==
  /\ Asks("inventory") /\ state.revision < Len(given.graphs)
  /\ state' = [state EXCEPT !.revision = @ + 1]
  /\ UNCHANGED given

Init ==
  /\ given \in Reports
  /\ state = [at |-> 0, claimed |-> {}, served |-> {}, drifted |-> {}, orphaned |-> {}, revision |-> 1,
              received |-> <<>>, returned |-> 1, cursor |-> Nothing, answer |-> Nothing]

Next == \/ CheckCapabilities \/ Capability \/ FinishCapabilities
        \/ Measure \/ FinishBudgets \/ Summary \/ Page \/ Rebuild

Spec == Init /\ [][Next]_vars

-----------------------------------------------------------------------------
Answered(tool) == given.tool = tool /\ state.answer # Nothing /\ state.answer.status # "ERROR"

(* PASS is only said when every endpoint of every capability is exposed by  *)
(* production code, in a component the capability names if it names any,    *)
(* and no endpoint is exposed without being claimed or counted.             *)
CapabilitiesHold ==
  Answered("capabilities") =>
    LET claimed == IF given.capabilities = Nothing THEN {} ELSE UNION {c.endpoints : c \in Range(given.capabilities)}
        Holds(c, e) == \E n \in given.nodes : /\ n.label = e /\ n.visible
                         /\ c.components # {} => \E f \in n.files : given.component[f] \in c.components
    IN  /\ state.answer.status = "PASS" =>
             \A c \in Range(given.capabilities) : c.endpoints # {} /\ \A e \in c.endpoints : Holds(c, e)
        /\ state.answer.total = Cardinality(Labels \ claimed)
        /\ Range(state.answer.unmapped) \subseteq Labels \ claimed
        /\ given.limit \in {0} \cup (state.answer.total..99) => Len(state.answer.unmapped) = state.answer.total
        /\ given.capabilities # Nothing =>
             Cardinality(state.served) + Cardinality(state.drifted \cup state.orphaned) = Len(given.capabilities)

(* The declarations a source is made of, as <<line, lines, kind>>.          *)
DeclaredAt(file, j) ==
  LET LinesOf(d) == Cardinality({k \in DOMAIN d.text : d.text[k] = "nl"})
  IN  <<1 + FoldLeft(LAMBDA n, d : n + LinesOf(d), 0, SubSeq(file.declarations, 1, j - 1)),
        LinesOf(file.declarations[j]), file.declarations[j].kind>>

MeasuredAs(kinds) ==
  Answered("budgets") =>
    \A f \in Range(given.files) : \A j \in DOMAIN f.declarations :
      LET d == DeclaredAt(f, j)
      IN  (d[1] \in f.functions /\ d[3] \in kinds) =>
            (<<"function", f.path, d[1]>> \in state.answer.found <=> f.component # Nothing /\ Above(d[2], given.limits.function))

(* A function is over its budget exactly when the lines of its declaration  *)
(* are, whatever comments, strings and parentheses hold, for functions with *)
(* a body in braces and those a semicolon ends.                             *)
FunctionsAreMeasured == MeasuredAs({"braces", "semicolon"})

(* The pages a client follows to the end are the edges of one graph, each   *)
(* once and in order, though the budget shortens pages and the graph        *)
(* changes between them.                                                    *)
PagesAddUp == (Answered("inventory") /\ given.detail = "full") => state.received = Cross

(* The summary's totals are of the whole graph, and no link it leaves out   *)
(* is used more than one it shows; folders form a cycle candidate exactly   *)
(* when links lead from one to the other and back. What is missing of a     *)
(* list is told by its flag or by the status: a flag alone is only exact in *)
(* a complete summary, since the budget shortens lists after it was set. A  *)
(* list is shortened for the budget only when those before it are empty     *)
(* (summary.rs, from_full; token_budget.rs, fit).                           *)
SummaryCounts ==
  (Answered("inventory") /\ given.detail = "summary") =>
    LET pairs == {Between(k) : k \in {j \in Links : Between(j)[1] # Between(j)[2]}}
        kept == state.answer.sample
        Missing(l) == Len(kept[l]) < state.answer.total[l]
        Cut(l) == Missing(l) /\ Len(kept[l]) < Shown[l]
    IN  /\ state.answer.total.coupling = Cardinality(pairs)
        /\ state.answer.total.components = Cardinality({Folder(f) : f \in Observed})
        /\ \A p \in pairs \ Range(kept.coupling) : \A q \in Range(kept.coupling) :
             Cardinality(Occurrences(p)) <= Cardinality(Occurrences(q))
        /\ (state.answer.total.cycles = 0) <=> \A p \in pairs : p[1] \notin Reach({p[2]})
        /\ \A l \in Range(Lists) :
             /\ state.answer.truncated[l] => Missing(l)
             /\ Missing(l) => state.answer.truncated[l] \/ state.answer.status = "INCOMPLETE"
        /\ state.answer.status = "INCOMPLETE" <=> \E l \in Range(Lists) : Cut(l)
        /\ \A j, k \in DOMAIN Lists : j < k /\ Cut(Lists[k]) => kept[Lists[j]] = <<>>
        /\ given.room # Nothing =>
             Len(kept.coupling) + Len(kept.cycles) + Len(kept.components) <= given.room

(* What the recovery of an architecture reports is so, whatever was left    *)
(* out for the budget or by a cut (capabilities, source_metrics, observed). *)
ReportsAreEvidence == CapabilitiesHold /\ FunctionsAreMeasured /\ PagesAddUp /\ SummaryCounts
=============================================================================
