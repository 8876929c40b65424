----------------------------- MODULE PathPolicy -----------------------------
(* The rules of an architecture contract that select files by pattern       *)
(* (src/operations/architecture/policy_selectors.rs, policy_templates.rs,   *)
(* path_pattern/) and the rules about unresolved imports. A pattern is the  *)
(* sequence of its characters, compiled to a program and run on a path; a   *)
(* contract is validated whole, then each edge is taken in its order.       *)
EXTENDS Integers, Sequences, FiniteSets, SequencesExt, FiniteSetsExt

CONSTANTS
  Policies,    \* contracts with the edges and diagnostics they are put to
  Characters,  \* the characters of the paths, in their order
  Nothing      \* an absent field, no answer

VARIABLES
  given,  \* the contract, the edges, the diagnostics
  state   \* the step, the edge it is at, what was found, the answer

vars == <<given, state>>

-----------------------------------------------------------------------------
(* parser.rs: [at, program, groups, ok] while the pattern s is read. Every  *)
(* jump is to a place in the program.                                       *)

Quantifiers == {"*", "+", "?"}
Reserved == {"^", "$", "{", "}"} \cup Quantifiers
Letters == {"a", "b", "1", "2"}

Peek(s, p, k) == IF p.at + k \in DOMAIN s THEN s[p.at + k] ELSE Nothing
Taken(p, n) == [p EXCEPT !.at = @ + n]
Bad(p) == [p EXCEPT !.ok = FALSE]
Emit(p, instruction) == [p EXCEPT !.program = Append(@, instruction)]
Patch(p, k, instruction) == [p EXCEPT !.program[k] = instruction]
Next1(p) == Len(p.program) + 1

Accept(set) == [op |-> "char", set |-> set]
Split(first, second) == [op |-> "split", first |-> first, second |-> second]
Jump(to) == [op |-> "jump", to |-> to]
Save(slot) == [op |-> "save", slot |-> slot]
Done == [op |-> "done"]

(* A character, or one that is escaped; letters and digits never are.       *)
Literal(s, p) ==
  IF Peek(s, p, 0) = "\\"
  THEN [c |-> Peek(s, p, 1), size |-> 2, ok |-> Peek(s, p, 1) \notin Letters \cup {Nothing}]
  ELSE [c |-> Peek(s, p, 0), size |-> 1, ok |-> Peek(s, p, 0) # Nothing]

Ordinal(c) == CHOOSE k \in DOMAIN Characters : Characters[k] = c
AnyCharacter == Range(Characters)

(* class(): the members up to the bracket.                                  *)
RECURSIVE Members(_, _, _)
Members(s, p, found) ==
  LET low == Literal(s, p)
      q == Taken(p, low.size)
      high == Literal(s, Taken(q, 1))
      span == {Characters[k] : k \in Ordinal(low.c)..Ordinal(high.c)}
  IN  CASE Peek(s, p, 0) = "]" -> [p |-> IF found = {} THEN Bad(p) ELSE Taken(p, 1), found |-> found]
        [] ~low.ok -> [p |-> Bad(p), found |-> found]
        [] Peek(s, q, 0) = "-" /\ Peek(s, q, 1) \notin {"]", Nothing} ->
             IF high.ok /\ span # {} THEN Members(s, Taken(q, 1 + high.size), found \cup span)
             ELSE [p |-> Bad(p), found |-> found]
        [] OTHER -> Members(s, q, found \cup {low.c})

Class(s, p) ==
  LET negated == Peek(s, p, 0) = "^"
      read == Members(s, IF negated THEN Taken(p, 1) ELSE p, {})
  IN  Emit(read.p, Accept(IF negated THEN AnyCharacter \ read.found ELSE read.found))

RECURSIVE Alternation(_, _, _), Branches(_, _, _, _, _), Concatenation(_, _)

Group(s, p) ==
  LET slot == p.groups + 1
      open == [Emit(p, Save(2 * slot)) EXCEPT !.groups = slot]
  IN  IF Peek(s, p, 0) # "?" THEN Emit(Alternation(s, open, TRUE), Save(2 * slot + 1))
      ELSE IF Peek(s, p, 1) = ":" THEN Alternation(s, Taken(p, 2), TRUE) ELSE Bad(p)

Atom(s, p) ==
  LET c == Peek(s, p, 0)
      literal == Literal(s, p)
      q == Taken(p, literal.size)
  IN  CASE c = "(" -> Group(s, q)
        [] c = "[" -> Class(s, q)
        [] c = "." -> Emit(q, Accept(AnyCharacter))
        [] c \in Reserved \/ ~literal.ok -> Bad(p)
        [] OTHER -> Emit(q, Accept({literal.c}))

(* quantified(): every atom sits behind a split that may skip or repeat it. *)
Repeated(s, entry, q) ==
  LET body == entry + 1
      c == Peek(s, q, 0)
      r == Taken(q, 1)
  IN  CASE ~q.ok -> q
        [] c = "{" \/ (c \in Quantifiers /\ Peek(s, q, 1) \in Quantifiers) -> Bad(q)
        [] c = "*" -> Patch(Emit(r, Jump(entry)), entry, Split(body, Next1(q) + 1))
        [] c = "+" -> Patch(Emit(r, Split(body, Next1(q) + 1)), entry, Split(body, body))
        [] c = "?" -> Patch(r, entry, Split(body, Next1(q)))
        [] OTHER -> Patch(q, entry, Split(body, body))

Quantified(s, p) == Repeated(s, Next1(p), Atom(s, Emit(p, Split(0, 0))))

Concatenation(s, p) ==
  IF \/ ~p.ok \/ Peek(s, p, 0) \in {Nothing, "|", ")"}
     \/ (Peek(s, p, 0) = "$" /\ p.at = Len(s))
  THEN p ELSE Concatenation(s, Quantified(s, p))

Branches(s, p, inside, starts, ends) ==
  LET q == Emit(Emit(Taken(p, 1), Jump(0)), Split(0, 0))
      closed == IF inside THEN Taken(p, 1) ELSE p
      After(k) == LET i == CHOOSE j \in DOMAIN starts : starts[j] = k
                  IN  IF i = Len(starts) THEN k + 1 ELSE starts[i + 1]
  IN  CASE ~p.ok -> p
        [] Peek(s, p, 0) = "|" ->
             Branches(s, Concatenation(s, q), inside, Append(starts, Next1(p) + 1), Append(ends, Next1(p)))
        [] Peek(s, p, 0) # "|" /\ inside /\ Peek(s, p, 0) # ")" -> Bad(p)
        [] OTHER -> [closed EXCEPT !.program = [k \in DOMAIN @ |->
             CASE k \in Range(starts) -> Split(k + 1, After(k))
               [] k \in Range(ends) -> Jump(Len(p.program) + 1)
               [] OTHER -> p.program[k]]]

Alternation(s, p, inside) ==
  Branches(s, Concatenation(s, Emit(p, Split(0, 0))), inside, <<Next1(p)>>, <<>>)

(* compile(): one leading and one trailing anchor, for the whole pattern.   *)
Start(s) ==
  IF s # <<>> /\ s[1] = "^" THEN [at |-> 2, groups |-> 0, ok |-> TRUE, program |-> <<Save(0)>>]
  ELSE [at |-> 1, groups |-> 0, ok |-> TRUE,
        program |-> <<Split(4, 2), Accept(AnyCharacter), Jump(1), Save(0)>>]

Finished(s, read) ==
  LET ends == Peek(s, read, 0) = "$" /\ read.at = Len(s)
  IN  [ok |-> read.ok /\ (read.at > Len(s) \/ ends), groups |-> read.groups, anchored |-> ends,
       program |-> read.program \o <<Save(1), Done>>]

Compiled(s) == Finished(s, Alternation(s, Start(s), FALSE))

-----------------------------------------------------------------------------
(* matches(): the threads to try, the preferred one on top; a place of the  *)
(* program is tried once at a position. The saved positions, or Nothing.    *)

RECURSIVE Search(_, _, _, _)
Search(pattern, path, pending, visited) ==
  LET t == Last(pending)
      rest == Front(pending)
      seen == visited \cup {<<t.pc, t.at>>}
      i == pattern.program[t.pc]
      Go(threads) == Search(pattern, path, rest \o threads, seen)
      To(pc) == [t EXCEPT !.pc = pc]
  IN  IF pending = <<>> THEN Nothing
      ELSE IF <<t.pc, t.at>> \in visited THEN Search(pattern, path, rest, visited)
      ELSE CASE i.op = "char" -> IF t.at < Len(path) /\ path[t.at + 1] \in i.set
                                 THEN Go(<<[t EXCEPT !.pc = @ + 1, !.at = @ + 1]>>) ELSE Go(<<>>)
             [] i.op = "save" -> Go(<<[t EXCEPT !.pc = @ + 1, !.saves[i.slot] = t.at]>>)
             [] i.op = "split" -> Go(<<To(i.second), To(i.first)>>)
             [] i.op = "jump" -> Go(<<To(i.to)>>)
             [] i.op = "done" -> IF pattern.anchored /\ t.at # Len(path) THEN Go(<<>>) ELSE t.saves

(* The text of each group, or Nothing where the path does not match.        *)
Captures(pattern, path) ==
  LET saves == Search(pattern, path, <<[pc |-> 1, at |-> 0,
                        saves |-> [k \in 0..(2 * pattern.groups + 1) |-> -1]]>>, {})
  IN  IF saves = Nothing THEN Nothing
      ELSE [g \in 1..pattern.groups |->
              IF -1 \in {saves[2 * g], saves[2 * g + 1]} THEN <<>>
              ELSE SubSeq(path, saves[2 * g] + 1, saves[2 * g + 1])]

-----------------------------------------------------------------------------
(* policy_templates.rs: $1..$9 stand for what fromPath captured.            *)

References == [c \in {"1", "2"} |-> IF c = "1" THEN 1 ELSE 2]
IsReference(s, k) == s[k] = "$" /\ k < Len(s) /\ s[k + 1] \in DOMAIN References
MaxReference(s) == Max({0} \cup {References[s[k + 1]] : k \in {j \in DOMAIN s : IsReference(s, j)}})

(* Mutant of Escaped: a captured dot matches any character.                 *)
EscapedAsIs(text) == text

Escaped(text) == FlattenSeq([k \in DOMAIN text |->
                   IF text[k] \in Letters THEN <<text[k]>> ELSE <<"\\", text[k]>>])

Instantiate(s, captures) ==
  FlattenSeq([k \in DOMAIN s |->
    CASE IsReference(s, k) -> LET g == References[s[k + 1]]
                              IN  IF g \in DOMAIN captures THEN Escaped(captures[g]) ELSE <<>>
      [] k > 1 /\ IsReference(s, k - 1) -> <<>>
      [] OTHER -> <<s[k]>>])

MatchesCompiled(compiled, path) == compiled.ok /\ Captures(compiled, path) # Nothing
Matches(s, captures, path) == MatchesCompiled(Compiled(Instantiate(s, captures)), path)

-----------------------------------------------------------------------------
(* The contract. component_for(): the component of the longest path, the    *)
(* last of several.                                                         *)

Component(file) ==
  LET Longest(c) == Max({0} \cup {Len(p) : p \in {q \in given.components[c].paths : IsPrefix(q, file)}})
      owners == {c \in DOMAIN given.components :
                   \E p \in given.components[c].paths : p = file \/ IsPrefix(Append(p, "/"), file)}
      best == {c \in owners : \A d \in owners : Longest(d) <= Longest(c)}
  IN  IF owners = {} THEN Nothing ELSE given.components[Max(best)].id

ByPath(rule) == \E f \in {rule.fromPath, rule.fromPathNot, rule.toPath, rule.toPathNot} : f # Nothing
PathRules == {k \in DOMAIN given.rules : ByPath(given.rules[k])}

(* pattern_failures(): every pattern compiles, and toPath refers to groups  *)
(* that fromPath has.                                                       *)
PatternsFail(rule) ==
  LET Fails(s) == s # Nothing /\ ~Compiled(s).ok
      known == IF Fails(rule.fromPath) THEN Nothing ELSE rule.fromPath
      RefersBadly(s) ==
        /\ s # Nothing
        /\ IF MaxReference(s) = 0 THEN ~Compiled(s).ok
           ELSE \/ known = Nothing
                \/ MaxReference(s) > Compiled(known).groups
                \/ ~Compiled(Instantiate(s, <<>>)).ok
  IN  Fails(rule.fromPath) \/ Fails(rule.fromPathNot) \/ RefersBadly(rule.toPath) \/ RefersBadly(rule.toPathNot)

(* COUPLING_KINDS and RELATION_KINDS: the kinds of edges a rule may name.   *)
KnownKinds ==
  {"any", "runtime", "type-only", "contains", "imports", "calls", "references", "method", "implements",
   "re_exports", "depends_on", "inherits", "publishes", "consumes", "binds", "reads", "writes", "deploys",
   "exposes", "mounts", "configures", "unresolved"}

(* validate(), for one rule: what a rule selects by must be evaluated.      *)
Rejected(rule) ==
  \/ rule.unknown \/ rule.severity \notin {Nothing, "error", "warn"}
  \/ rule.action \notin {"forbid", "allow_only", "require"} \/ rule.reach \notin {"direct", "transitive"}
  \/ rule.kinds \ KnownKinds # {}
  \/ rule.action = "allow_only" /\ rule.reach # "direct"
  \/ "unresolved" \in rule.kinds /\ (rule.action # "forbid" \/ rule.reach # "direct")
  \/ /\ ByPath(rule)
     /\ \/ rule.from # {} \/ rule.to # {} \/ rule.action # "forbid" \/ rule.reach # "direct"
        \/ rule.fromPath = Nothing /\ rule.fromPathNot = Nothing
        \/ rule.toPath = Nothing /\ rule.toPathNot = Nothing
        \/ PatternsFail(rule)

Init ==
  /\ given \in Policies
  /\ state = [step |-> "validate", at |-> 1, found |-> {}, answer |-> Nothing]

Validate ==
  /\ state.step = "validate"
  /\ state' = IF \E rule \in Range(given.rules) : Rejected(rule)
              THEN [state EXCEPT !.step = "done", !.answer = [status |-> "ERROR"]]
              ELSE [state EXCEPT !.step = "edges"]
  /\ UNCHANGED given

(* captures() of the source side: Nothing when it is not selected.          *)
SourceCaptures(rule, file) ==
  IF rule.fromPathNot # Nothing /\ Matches(rule.fromPathNot, <<>>, file) THEN Nothing
  ELSE IF rule.fromPath = Nothing THEN <<>> ELSE Captures(Compiled(rule.fromPath), file)

SelectsTarget(rule, captures, file) ==
  /\ rule.toPath = Nothing \/ Matches(rule.toPath, captures, file)
  /\ rule.toPathNot = Nothing \/ ~Matches(rule.toPathNot, captures, file)

SelectsEdge(rule, edge) == rule.kinds \cap {"any", edge.coupling, edge.kind} # {}

(* A violation is known by its rule, its ends and its relation.             *)
Edge ==
  LET edge == given.edges[state.at]
      found == {<<given.rules[k].id, edge.from, edge.to, edge.kind>> : k \in {r \in PathRules :
                  LET captures == SourceCaptures(given.rules[r], edge.from)
                  IN  /\ edge.from # edge.to /\ captures # Nothing
                      /\ SelectsTarget(given.rules[r], captures, edge.to)
                      /\ SelectsEdge(given.rules[r], edge)}}
  IN  /\ state.step = "edges" /\ state.at \in DOMAIN given.edges
      /\ state' = [state EXCEPT !.at = @ + 1, !.found = @ \cup found]
      /\ UNCHANGED given

(* policy_diagnostics.rs: an unresolved import of a component's file.       *)
Unresolved ==
  LET applies == {p \in (DOMAIN given.rules) \X given.diagnostics :
                    LET rule == given.rules[p[1]]
                    IN  /\ p[2].spanned /\ Component(p[2].file) \in rule.from
                        /\ rule.action = "forbid" /\ "unresolved" \in rule.kinds}
      found == {<<given.rules[p[1]].id, p[2].file, p[2].message, "unresolved">> : p \in applies}
  IN  /\ state.step = "edges" /\ state.at > Len(given.edges)
      /\ state' = [state EXCEPT !.step = "done",
                     !.answer = [status |-> "COMPLETE", found |-> state.found \cup found]]
      /\ UNCHANGED given

Next == Validate \/ Edge \/ Unresolved

Spec == Init /\ [][Next]_vars

-----------------------------------------------------------------------------
(* A regular expression as a tree, and what it means: Walk is every way to  *)
(* go through the path from a place, with what its group took on the way.   *)

RECURSIVE Walk(_, _, _)
Walk(tree, path, s) ==
  CASE tree.is = "set" -> IF s.at < Len(path) /\ path[s.at + 1] \in tree.set THEN {[s EXCEPT !.at = @ + 1]} ELSE {}
    [] tree.is = "begin" -> IF s.at = 0 THEN {s} ELSE {}
    [] tree.is = "end" -> IF s.at = Len(path) THEN {s} ELSE {}
    [] tree.is = "ref" -> LET end == s.at + Len(s.took)
                          IN  IF end <= Len(path) /\ SubSeq(path, s.at + 1, end) = s.took THEN {[s EXCEPT !.at = end]} ELSE {}
    [] tree.is = "cat" -> UNION {Walk(tree.right, path, t) : t \in Walk(tree.left, path, s)}
    [] tree.is = "alt" -> Walk(tree.left, path, s) \cup Walk(tree.right, path, s)
    [] tree.is = "opt" -> {s} \cup Walk(tree.left, path, s)
    [] tree.is = "star" -> {s} \cup UNION {Walk(tree, path, t) : t \in {u \in Walk(tree.left, path, s) : u.at > s.at}}
    [] tree.is = "plus" -> UNION {Walk([tree EXCEPT !.is = "star"], path, t) : t \in Walk(tree.left, path, s)}
    [] tree.is = "group" -> {[t EXCEPT !.took = SubSeq(path, s.at + 1, t.at)] : t \in Walk(tree.left, path, s)}

Means(tree, path, took) == UNION {Walk(tree, path, [at |-> k, took |-> took]) : k \in 0..Len(path)}

(* What a rule says, by the trees of its patterns; what fromPath's group    *)
(* takes is the same in every way to match it.                              *)
Says(meaning, from, to) ==
  LET took == IF meaning.fromPath = Nothing THEN {<<>>} ELSE {t.took : t \in Means(meaning.fromPath, from, <<>>)}
      Holds(tree, path, text) == Means(tree, path, text) # {}
  IN  /\ meaning.fromPathNot = Nothing \/ ~Holds(meaning.fromPathNot, from, <<>>)
      /\ \E text \in took : /\ meaning.toPath = Nothing \/ Holds(meaning.toPath, to, text)
                            /\ meaning.toPathNot = Nothing \/ ~Holds(meaning.toPathNot, to, text)

Answered == state.answer # Nothing /\ state.answer.status = "COMPLETE"

FoundByPath(k) ==
  \A j \in DOMAIN given.edges :
    LET edge == given.edges[j]
        found == <<given.rules[k].id, edge.from, edge.to, edge.kind>> \in state.answer.found
    IN  found <=> /\ edge.from # edge.to /\ SelectsEdge(given.rules[k], edge)
                  /\ Says(given.meanings[k], edge.from, edge.to)

(* A path rule is never skipped and never misread: a contract is verified   *)
(* only when each of its patterns is a regular expression of the subset,    *)
(* and then exactly the edges between files the expressions select are      *)
(* violations; every unresolved import a forbid rule is about is one too.   *)
(* An anchor is taken to be one of the whole pattern.                       *)
RulesAreEvaluated ==
  /\ Answered =>
       /\ \A k \in PathRules : given.meanings[k] # Nothing
       /\ \A k \in PathRules : given.whole => FoundByPath(k)
       /\ \A d \in given.diagnostics, rule \in Range(given.rules) :
            (d.spanned /\ "unresolved" \in rule.kinds /\ Component(d.file) \in rule.from)
              => <<rule.id, d.file, d.message, "unresolved">> \in state.answer.found
  /\ (state.answer # Nothing /\ ~Answered) => \E k \in DOMAIN given.rules : given.meanings[k] = Nothing
=============================================================================
