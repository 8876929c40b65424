----------------------------- MODULE StackTrace -----------------------------
(* map_stacktrace (src/operations/workflow/stacktrace/): the frames a trace *)
(* states, read line by line, then each put to the files and the symbols of *)
(* the graph. A path is the sequence of its segments, a symbol the sequence *)
(* of its parts with what separates them.                                   *)
EXTENDS Integers, Sequences, FiniteSets, SequencesExt

CONSTANTS
  Traces,         \* the lines of a trace, the most frames wanted, the nodes of the graph
  MaxCandidates,  \* how many files an ambiguous frame is shown
  Unstated        \* what a line or a node does not say, no match

VARIABLES
  trace,     \* the trace and the graph; {} outside a call
  reading,   \* "lines", "frames", "done"; "idle" outside a call
  linesRead,
  pending,   \* the symbol that waits for its place
  frames,
  mapped

traceVars == <<trace, reading, linesRead, pending, frames, mapped>>

IsTrace(t) ==
  /\ Len(t.lines) \in Nat /\ DOMAIN t.lines = 1..Len(t.lines)
  /\ \A k \in DOMAIN t.lines :
       /\ t.lines[k].form \in {"python", "panic", "numbered", "at", "text"}
       /\ t.lines[k].form = "numbered" => t.lines[k].symbol # Unstated
       /\ t.lines[k].path = Unstated \/ t.lines[k].path \in Seq(STRING)
       /\ t.lines[k].numbers \in Seq(Nat)
  /\ DOMAIN t.nodes \subseteq Nat
  /\ \A k \in DOMAIN t.nodes :
       /\ t.nodes[k] # Unstated
       /\ t.nodes[k].kind = "file" => t.nodes[k].label \in Seq(STRING)
       /\ t.nodes[k].line = Unstated \/ t.nodes[k].line \in Nat

TracesAssumption ==
  /\ MaxCandidates \in Nat
  /\ Unstated \notin {"dependency", "runtime", "unlocated"} /\ Unstated \notin Seq(STRING)
  /\ \A t \in Traces : IsTrace(t)

ASSUME TracesAssumption

-----------------------------------------------------------------------------
(* frames.rs: one line of the trace.                                        *)

TraceInit ==
  /\ trace \in Traces
  /\ reading = "lines" /\ linesRead = 0 /\ pending = Unstated
  /\ frames = <<>> /\ mapped = <<>>

(* location(): path:line:column, path:line or path.                         *)
LineOf(line) == IF line.numbers = <<>> THEN Unstated ELSE Head(line.numbers)
ColumnOf(line) == IF Len(line.numbers) < 2 THEN Unstated ELSE line.numbers[2]
FrameOf(line, symbol) ==
  [symbol |-> symbol, path |-> line.path,
   line |-> IF line.path = Unstated THEN Unstated ELSE LineOf(line),
   column |-> IF line.path = Unstated \/ line.form = "python" THEN Unstated ELSE ColumnOf(line)]

Take(line, symbol) == frames' = Append(frames, FrameOf(line, symbol)) /\ pending' = Unstated

Located(line) == line.path # Unstated /\ line.numbers # <<>>

SymbolAt(line) == IF line.symbol = Unstated THEN pending ELSE line.symbol

(* Mutant of At: the symbol is kept for the frames that follow.             *)
AtKeeping(line) == frames' = Append(frames, FrameOf(line, SymbolAt(line))) /\ UNCHANGED pending

At(line) == Take(line, SymbolAt(line))

ReadLine ==
  /\ reading = "lines" /\ linesRead < Len(trace.lines) /\ Len(frames) < trace.max
  /\ linesRead' = linesRead + 1
  /\ LET line == trace.lines[linesRead + 1]
     IN  \/ line.form = "python" /\ Take(line, line.symbol)
         \/ line.form = "panic" /\ Located(line) /\ Take(line, Unstated)
         \/ line.form = "numbered" /\ pending' = line.symbol /\ UNCHANGED frames
         \/ line.form = "at" /\ At(line)
         \/ /\ line.form = "text" \/ (line.form = "panic" /\ ~Located(line))
            /\ UNCHANGED <<pending, frames>>
  /\ UNCHANGED <<trace, reading, mapped>>

EndLines ==
  /\ reading = "lines" /\ (linesRead = Len(trace.lines) \/ Len(frames) >= trace.max)
  /\ reading' = "frames"
  /\ UNCHANGED <<trace, linesRead, pending, frames, mapped>>

-----------------------------------------------------------------------------
(* mod.rs: what a frame's own text says of where it runs.                   *)

Environment(frame) ==
  LET path == IF frame.path = Unstated THEN <<>> ELSE frame.path
      first == IF frame.symbol = Unstated THEN Unstated ELSE Head(frame.symbol.parts)
      by == IF frame.symbol = Unstated \/ Len(frame.symbol.parts) = 1 THEN Unstated ELSE frame.symbol.by
  IN  CASE Range(path) \cap {"node_modules", "site-packages"} # {} -> "dependency"
        [] Range(path) \cap {"node:", "rustc", "python3"} # {} -> "runtime"
        [] by = "." /\ first \in {"java", "jdk", "sun"} -> "runtime"
        [] by = "::" /\ first \in {"std", "core", "alloc"} -> "runtime"
        [] path = <<>> -> "unlocated"
        [] OTHER -> Unstated

(* suffix_overlap(): the segments two paths share, from the last.           *)
Parts(label, path) ==
  {k \in 0..Len(label) : k = Len(label) \/ k >= Len(path) \/ label[Len(label) - k] # path[Len(path) - k]}
Overlap(label, path) == CHOOSE k \in Parts(label, path) : \A j \in Parts(label, path) : k <= j

GraphFiles == {k \in DOMAIN trace.nodes : trace.nodes[k].kind = "file"}
Fit(file, frame) == Overlap(trace.nodes[file].label, frame.path)
BestFits(frame) ==
  {f \in GraphFiles : Fit(f, frame) > 0 /\ \A g \in GraphFiles : Fit(g, frame) <= Fit(f, frame)}

(* java_package_path(): what stands before the type and the method.         *)
PackagePath(frame) ==
  IF frame.symbol = Unstated \/ frame.symbol.by # "." \/ Len(frame.symbol.parts) < 3 THEN Unstated
  ELSE SubSeq(frame.symbol.parts, 1, Len(frame.symbol.parts) - 2)
Holds(label, part) == \E k \in DOMAIN label : SubSeq(label, k, k + Len(part) - 1) = part

FileMatches(frame) ==
  IF Cardinality(BestFits(frame)) > 1 /\ PackagePath(frame) # Unstated
  THEN {f \in BestFits(frame) : Holds(trace.nodes[f].label, PackagePath(frame))}
  ELSE BestFits(frame)

(* preferred_by_line(): the first of those nearest to the line.             *)
Gap(k, line) == IF trace.nodes[k].line > line THEN trace.nodes[k].line - line ELSE line - trace.nodes[k].line
Nearest(nodes, line) ==
  IF line = Unstated THEN nodes
  ELSE {k \in nodes : \A i \in nodes : Gap(k, line) <= Gap(i, line)}
Preferred(nodes, line) == CHOOSE k \in Nearest(nodes, line) : \A i \in Nearest(nodes, line) : k <= i

(* resolve_symbol(): the declaration of the name, or else the last that     *)
(* begins at the line or above it.                                          *)
Declared(file) ==
  {k \in DOMAIN trace.nodes :
     trace.nodes[k].kind # "file" /\ trace.nodes[k].line # Unstated /\ trace.nodes[k].file = file}
NamedIn(file, frame) ==
  {k \in Declared(file) : frame.symbol # Unstated /\ trace.nodes[k].label = Last(frame.symbol.parts)}
AboveIn(file, frame) ==
  {k \in Declared(file) : frame.line # Unstated /\ trace.nodes[k].line <= frame.line}

SymbolIn(file, frame) ==
  CASE NamedIn(file, frame) # {} ->
         [node |-> trace.nodes[Preferred(NamedIn(file, frame), frame.line)], by |-> "name"]
    [] NamedIn(file, frame) = {} /\ AboveIn(file, frame) # {} ->
         [node |-> trace.nodes[Preferred(AboveIn(file, frame), frame.line)], by |-> "nearest_declaration"]
    [] OTHER -> [node |-> Unstated, by |-> Unstated]

(* resolve_file(): what fits, of a frame that names no environment.         *)
Hits(frame) == IF Environment(frame) = Unstated THEN FileMatches(frame) ELSE {}
IsOne(hits) == \E f \in hits : hits = {f}

MappedTo(frame, shown) ==
  LET hits == Hits(frame)
      file == IF IsOne(hits) THEN trace.nodes[CHOOSE f \in hits : TRUE].label ELSE Unstated
      symbol == IF IsOne(hits) THEN SymbolIn(file, frame) ELSE [node |-> Unstated, by |-> Unstated]
  IN  [frame |-> frame, file |-> file, node |-> symbol.node, by |-> symbol.by, candidates |-> shown,
       class |-> CASE Environment(frame) # Unstated -> Environment(frame)
                   [] Environment(frame) = Unstated /\ IsOne(hits) -> "repository"
                   [] Environment(frame) = Unstated /\ hits = {} -> "external"
                   [] OTHER -> "ambiguous"]

(* The files an ambiguous frame is shown: some of them, as many as may be   *)
(* (the first by name; the names have no order here).                       *)
ShownOf(hits) ==
  IF hits = {} \/ IsOne(hits) THEN {{}}
  ELSE {c \in SUBSET hits : Cardinality(c) = MaxCandidates \/ (Cardinality(c) < MaxCandidates /\ c = hits)}

MapFrame ==
  /\ reading = "frames" /\ Len(mapped) < Len(frames)
  /\ LET frame == frames[Len(mapped) + 1]
     IN  \E shown \in ShownOf(Hits(frame)) : mapped' = Append(mapped, MappedTo(frame, shown))
  /\ UNCHANGED <<trace, reading, linesRead, pending, frames>>

EndFrames ==
  /\ reading = "frames" /\ Len(mapped) = Len(frames)
  /\ reading' = "done"
  /\ UNCHANGED <<trace, linesRead, pending, frames, mapped>>

TraceNext == ReadLine \/ EndLines \/ MapFrame \/ EndFrames
TraceSpec == TraceInit /\ [][TraceNext]_traceVars

-----------------------------------------------------------------------------
(* The file of a frame fits it better than any other, or as well as some    *)
(* that the package of its symbol rules out; what an ambiguous frame is     *)
(* shown fits as well as anything does.                                     *)
FileIsBest(m) ==
  /\ m.file # Unstated <=> m.class = "repository"
  /\ m.class = "repository" =>
       /\ Environment(m.frame) = Unstated /\ Last(m.file) = Last(m.frame.path)
       /\ \A f \in GraphFiles : trace.nodes[f].label # m.file =>
            \/ Fit(f, m.frame) < Overlap(m.file, m.frame.path)
            \/ (Holds(m.file, PackagePath(m.frame)) /\ ~Holds(trace.nodes[f].label, PackagePath(m.frame)))
  /\ \A c \in m.candidates : c \in GraphFiles /\ \A f \in GraphFiles : Fit(f, m.frame) <= Fit(c, m.frame)

(* The declaration of a frame is one of its file: one of the symbol's name, *)
(* none of which is nearer to the line, or, where the file has no such      *)
(* name, the last that begins at the line or above it.                      *)
NodeIsNearest(m) ==
  m.node # Unstated =>
    /\ m.node.file = m.file /\ m.by \in {"name", "nearest_declaration"}
    /\ m.by = "name" =>
         /\ m.node.label = Last(m.frame.symbol.parts)
         /\ m.frame.line # Unstated => \A k \in NamedIn(m.file, m.frame) :
              Gap(k, m.frame.line) >= IF m.node.line > m.frame.line THEN m.node.line - m.frame.line
                                           ELSE m.frame.line - m.node.line
    /\ m.by = "nearest_declaration" =>
         /\ NamedIn(m.file, m.frame) = {} /\ m.node.line <= m.frame.line
         /\ ~\E k \in Declared(m.file) : m.node.line < trace.nodes[k].line /\ trace.nodes[k].line <= m.frame.line

(* A symbol is given to no more frames than lines state it.                 *)
SymbolsAreStated ==
  \A s \in {trace.lines[k].symbol : k \in {j \in DOMAIN trace.lines : trace.lines[j].form = "numbered"}} :
    Cardinality({k \in DOMAIN mapped : mapped[k].frame.symbol = s})
      <= Cardinality({k \in DOMAIN trace.lines : trace.lines[k].symbol = s})

(* A frame that is mapped names a file of the repository that no other file *)
(* fits as well, a declaration of that file, and a symbol that the trace    *)
(* states for this frame alone; where the trace itself names a runtime or a *)
(* dependency nothing is matched (mod.rs, resolve_file, resolve_symbol;     *)
(* frames.rs, parse).                                                       *)
FramesAreMapped ==
  reading = "done" => (\A m \in Range(mapped) : FileIsBest(m) /\ NodeIsNearest(m)) /\ SymbolsAreStated
=============================================================================
