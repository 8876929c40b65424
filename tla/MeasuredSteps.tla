---------------------------- MODULE MeasuredSteps ----------------------------
(* perf_attribution (src/operations/perf/): a series of measurements, read  *)
(* row by row, resolved to revisions of the repository, and walked in pairs *)
(* that are credited to the declarations that differ. Measured values are   *)
(* integers; a credit is kept in parts of Whole, and rounding is left out.  *)
EXTENDS Integers, Sequences, FiniteSets, SequencesExt, FiniteSetsExt

CONSTANTS
  Measured,  \* the columns and rows of a table, the revisions, and the arguments
  Whole,     \* a multiple of every number of declarations that change in one step
  Nothing    \* an empty cell, an unreadable text, no previous revision

VARIABLES
  given,  \* the series and the repository
  state   \* rows read, points, the previous revision, steps, credits

vars == <<given, state>>

-----------------------------------------------------------------------------
(* series.rs: the column that was named, or else one that differs in case.  *)

ColumnIndex(columns, name) ==
  LET exact == {k \in DOMAIN columns : columns[k] = name}
      folded == {k \in DOMAIN columns : columns[k].word = name.word}
  IN  IF exact # {} THEN Min(exact) ELSE IF folded # {} THEN Min(folded) ELSE Nothing

Start(at) == [at |-> at, row |-> 0, measurements |-> <<>>, skipped |-> <<>>, points |-> <<>>, previous |-> Nothing,
              walked |-> 0, analyses |-> 0, steps |-> <<>>, credits |-> {}]

Init ==
  /\ given \in Measured
  /\ state = Start(IF given.max < 2 \/ ColumnIndex(given.columns, given.metric) = Nothing THEN "error" ELSE "rows")

Cell(row, k) == IF k > Len(row.values) THEN Nothing ELSE row.values[k]

ReadRow ==
  /\ state.at = "rows" /\ state.row < Len(given.rows)
  /\ LET k == state.row + 1
         row == given.rows[k]
         value == Cell(row, ColumnIndex(given.columns, given.metric))
     IN  state' = IF row.revision = Nothing \/ value = Nothing
                  THEN [state EXCEPT !.row = k, !.skipped = Append(@, k)]
                  ELSE [state EXCEPT !.row = k, !.measurements = Append(@, [row |-> k, revision |-> row.revision, value |-> value])]
  /\ UNCHANGED given

(* attribute.rs, resolve(): the last max_revisions that this repository     *)
(* contains.                                                                *)
Known(revision) == revision \in DOMAIN given.revisions
Resolve ==
  /\ state.at = "rows" /\ state.row = Len(given.rows)
  /\ LET points == SelectSeq(state.measurements, LAMBDA p : Known(p.revision))
         lost == SelectSeq(state.measurements, LAMBDA p : ~Known(p.revision))
         kept == SubSeq(points, Max({1, Len(points) - given.max + 1}), Len(points))
     IN  state' = [state EXCEPT !.skipped = @ \o [k \in DOMAIN lost |-> lost[k].row],
                                !.points = kept, !.at = IF Len(kept) < 2 THEN "error" ELSE "walk"]
  /\ UNCHANGED given

-----------------------------------------------------------------------------
(* sources.rs: the files whose blobs differ; steps.rs: the declarations.    *)

FilesAt(revision) == given.revisions[revision]
ChangedFiles(before, after) ==
  {f \in DOMAIN FilesAt(before) \cup DOMAIN FilesAt(after) :
     ~(f \in DOMAIN FilesAt(before) /\ f \in DOMAIN FilesAt(after) /\ FilesAt(before)[f].blob = FilesAt(after)[f].blob)}

(* The identity of a declaration holds its line (graph node ids).           *)
Id(file, declaration) == <<file, declaration.name, declaration.line>>
Declarations(revision, files) ==
  UNION {{[id |-> Id(f, d), file |-> f, body |-> d.body, name |-> d.name] : d \in FilesAt(revision)[f].declarations} :
           f \in {g \in files \cap DOMAIN FilesAt(revision) : g \notin given.hidden}}
Ids(declarations) == {d.id : d \in declarations}

BodyDiffers(before, after, left, right) ==
  \/ ~FilesAt(before)[left.file].text \/ ~FilesAt(after)[right.file].text
  \/ left.body # right.body

(* Mutant of Changed: a declaration that is gone is not listed.             *)
ChangedOfAfter(before, after) ==
  LET files == ChangedFiles(before, after)
      old == Declarations(before, files)
  IN  {d.id : d \in {n \in Declarations(after, files) :
                       \A o \in old : o.id = n.id => BodyDiffers(before, after, o, n)}}

Changed(before, after) ==
  LET files == ChangedFiles(before, after)
      old == Declarations(before, files)
      new == Declarations(after, files)
  IN  {d.id : d \in {n \in new : \A o \in old : o.id = n.id => BodyDiffers(before, after, o, n)}}
      \cup (Ids(old) \ Ids(new))

-----------------------------------------------------------------------------
(* attribute.rs, walk(): the steps; rollup.rs: what each declaration is     *)
(* credited.                                                                *)

Magnitude(n) == IF n < 0 THEN -n ELSE n

(* Nothing is inside the band of a zero baseline.                           *)
Verdict(before, delta) ==
  IF before # 0 /\ 100 * Magnitude(delta) <= given.flat * Magnitude(before) THEN "flat"
  ELSE IF (given.lowerIsBetter /\ delta < 0) \/ (~given.lowerIsBetter /\ delta > 0) THEN "improved" ELSE "regressed"

Step(before, after, kind, symbols) ==
  [kind |-> kind, from |-> before, to |-> after, delta |-> after.value - before.value, symbols |-> symbols,
   verdict |-> Verdict(before.value, after.value - before.value)]

(* record(): one credit for each declaration and each step it changed in.   *)
Recorded(step, k) == {[id |-> s, step |-> k, delta |-> step.delta, share |-> (step.delta * Whole) \div Cardinality(step.symbols),
                       among |-> Cardinality(step.symbols), verdict |-> step.verdict] : s \in step.symbols}

Walk ==
  /\ state.at = "walk" /\ state.walked < Len(state.points)
  /\ LET point == state.points[state.walked + 1]
         next == [state EXCEPT !.walked = @ + 1, !.previous = point]
         before == state.previous
         step == Step(before, point, "compared", Changed(before.revision, point.revision))
     IN  \/ /\ before = Nothing
            /\ state' = [next EXCEPT !.analyses = @ + 1]
         \/ /\ before # Nothing /\ before.revision = point.revision
            /\ state' = [next EXCEPT !.steps = Append(@, Step(before, point, "same_revision", {}))]
         \/ /\ before # Nothing /\ before.revision # point.revision
            /\ state' = [next EXCEPT !.analyses = @ + 1, !.steps = Append(@, step),
                                     !.credits = @ \cup Recorded(step, Len(state.steps) + 1)]
  /\ UNCHANGED given

Finish ==
  /\ state.at = "walk" /\ state.walked = Len(state.points)
  /\ state' = [state EXCEPT !.at = "done"]
  /\ UNCHANGED given

Next == ReadRow \/ Resolve \/ Walk \/ Finish
Spec == Init /\ [][Next]_vars

-----------------------------------------------------------------------------
(* into_values(): what a declaration is credited in all.                    *)

Credited == {c.id : c \in state.credits}
CreditsOf(id) == {c \in state.credits : c.id = id}
Total(credits, value(_)) == MapThenSumSet(value, credits)
Weighted(id) == Total(CreditsOf(id), LAMBDA c : c.share)
Isolation(id) == Min({c.among : c \in CreditsOf(id)})

-----------------------------------------------------------------------------
(* No row and no change is lost: a row is measured, skipped with a reason   *)
(* or older than the bound, the deltas of the steps add up to the change    *)
(* of the whole series, each compared step whose files differ in a          *)
(* declaration is shared out without a rest, and a declaration that is said *)
(* to be isolated stood alone in a step (series.rs, attribute.rs, walk;     *)
(* rollup.rs).                                                              *)
StepsAreWhole ==
  state.at = "done" =>
    /\ LET measured == {p.row : p \in Range(state.points)}
           old == {k \in DOMAIN given.rows : k < Min(measured)}
       IN  (1..Len(given.rows)) \ (measured \cup Range(state.skipped)) \subseteq old
    /\ Len(state.steps) = Len(state.points) - 1
    /\ Last(state.points).value - Head(state.points).value
         = Total(DOMAIN state.steps, LAMBDA k : state.steps[k].delta)
    /\ Total(Credited, Weighted)
         = Whole * Total({k \in DOMAIN state.steps : state.steps[k].symbols # {}}, LAMBDA k : state.steps[k].delta)
    /\ \A id \in Credited : Isolation(id) = 1 => \E s \in Range(state.steps) : s.symbols = {id}
    /\ \A s \in Range(state.steps) : \A f \in DOMAIN FilesAt(s.from.revision) \ given.hidden :
         \A d \in FilesAt(s.from.revision)[f].declarations :
            \/ Id(f, d) \in s.symbols
            \/ f \in DOMAIN FilesAt(s.to.revision) /\ \E o \in FilesAt(s.to.revision)[f].declarations : o = d
=============================================================================
