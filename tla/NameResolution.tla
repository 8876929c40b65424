--------------------------- MODULE NameResolution ---------------------------
(* From parsed files to edges (src/analyzer/state, imports, references.rs): *)
(* files are integrated in their order, then the re-exports, the imports,   *)
(* the members and the references are resolved against what all of them     *)
(* declare. A path is a file of the index, a file the scan excluded, or     *)
(* nothing; what a specifier may stand for is given as its candidate paths, *)
(* the most specific first.                                                 *)
EXTENDS Integers, Sequences, FiniteSets, SequencesExt, FiniteSetsExt

CONSTANTS
  Repositories,  \* functions from files 1..n to parsed files
  Excluded,      \* paths that exist on disk and were not scanned
  MaxDepth,      \* MAX_DEPTH of forwarded()
  MaxTargets     \* MAX_TARGETS of forwarded()

VARIABLES
  parsedFiles,        \* the repository; {} if there is none
  resolving,          \* what is resolved now
  pendingItems,       \* what is left of it, as <<file, place>>
  symbolIndex,        \* declarations, as <<file, place>>
  pendingMethods,     \* methods whose owner is not before them
  resolvedEdges,
  unresolvedImports,  \* how many specifiers led nowhere
  forwards,           \* the files each file re-exports, in their order
  visibleFiles,       \* the files each file imports
  importBindings      \* the names each file imports

nameVars == <<parsedFiles, resolving, pendingItems, symbolIndex, pendingMethods, resolvedEdges,
              unresolvedImports, forwards, visibleFiles, importBindings>>

Script == {"script", "swift"}
PathTyped == {"rust", "go"}

(* Go and Rust candidates are paths with the extension of the language, and *)
(* only a call has a receiver (languages.rs; rust/collector.rs).            *)
IsRepository(files) ==
  /\ Len(files) \in Nat /\ DOMAIN files = 1..Len(files)
  /\ \A f \in DOMAIN files :
       /\ files[f].language \in Script \cup PathTyped \cup {"python"}
       /\ DOMAIN files[f].symbols \subseteq Nat
       /\ \A k \in DOMAIN files[f].references : files[f].references[k].self => files[f].references[k].calls
       /\ files[f].language \in PathTyped =>
            \A item \in Range(files[f].imports) \cup Range(files[f].reexports) :
              \A g \in Range(item.candidates) \cap DOMAIN files : files[g].language = files[f].language

NamesAssumption ==
  /\ MaxDepth \in Nat /\ MaxTargets \in Nat \ {0}
  /\ \A files \in Repositories : IsRepository(files)

ASSUME NamesAssumption

FileIndex == DOMAIN parsedFiles
Language(f) == parsedFiles[f].language
Symbol(id) == parsedFiles[id[1]].symbols[id[2]]

ImportPlaces == UNION {{f} \X DOMAIN parsedFiles[f].imports : f \in FileIndex}
ReexportPlaces == UNION {{f} \X DOMAIN parsedFiles[f].reexports : f \in FileIndex}
ReferencePlaces == UNION {{f} \X DOMAIN parsedFiles[f].references : f \in FileIndex}

NamesInit ==
  /\ parsedFiles \in Repositories
  /\ resolving = "files" /\ pendingItems = FileIndex \X {0}
  /\ symbolIndex = {} /\ pendingMethods = {} /\ resolvedEdges = {} /\ unresolvedImports = 0
  /\ forwards = [f \in FileIndex |-> <<>>]
  /\ visibleFiles = [f \in FileIndex |-> {}]
  /\ importBindings = [f \in FileIndex |-> {}]

(* Items are taken in the order of the files, and of each file's own.       *)
NotAfter(a, b) == a[1] < b[1] \/ (a[1] = b[1] /\ a[2] <= b[2])

TakeItem(step, item) ==
  /\ resolving = step /\ \A other \in pendingItems : NotAfter(item, other)
  /\ pendingItems' = pendingItems \ {item}
  /\ UNCHANGED <<parsedFiles, resolving>>

(* What one step of resolve_references() hands to the next. *)
Turn(from, to, items) ==
  /\ resolving = from /\ pendingItems = {}
  /\ resolving' = to /\ pendingItems' = items
  /\ UNCHANGED parsedFiles

Kind(reference) == IF reference.calls THEN "calls" ELSE "uses"

Edge(from, to, kind) == [from |-> from, to |-> to, kind |-> kind]

-----------------------------------------------------------------------------
(* integrate(): the symbols of one file. A method is linked to the first    *)
(* symbol before it that has the name of its owner; without one it waits    *)
(* until all files are known.                                               *)

OwnerBefore(f, k) ==
  {j \in 1..(k - 1) : parsedFiles[f].symbols[j].name = parsedFiles[f].symbols[k].owner}

Methods(f) == {k \in DOMAIN parsedFiles[f].symbols :
                 parsedFiles[f].symbols[k].kind = "method" /\ parsedFiles[f].symbols[k].owner # "none"}

Integrate ==
  /\ \E item \in pendingItems :
       LET f == item[1]
           linked == {k \in Methods(f) : OwnerBefore(f, k) # {}}
       IN  /\ TakeItem("files", item)
           /\ symbolIndex' = symbolIndex \cup ({f} \X DOMAIN parsedFiles[f].symbols)
           /\ pendingMethods' = pendingMethods \cup ({f} \X (Methods(f) \ linked))
           /\ resolvedEdges' = resolvedEdges \cup
                {Edge(<<f, Min(OwnerBefore(f, k))>>, <<f, k>>, "method") : k \in linked}
  /\ UNCHANGED <<unresolvedImports, forwards, visibleFiles, importBindings>>

StartReexports ==
  /\ Turn("files", "reexports", ReexportPlaces)
  /\ UNCHANGED <<symbolIndex, pendingMethods, resolvedEdges, unresolvedImports, forwards, visibleFiles, importBindings>>

-----------------------------------------------------------------------------
(* Where a specifier leads: local_path().                                   *)

FirstIn(candidates, paths) ==
  {candidates[k] : k \in {j \in DOMAIN candidates : /\ candidates[j] \in paths
                                                   /\ \A i \in 1..(j - 1) : candidates[i] \notin paths}}

LocalPath(item) == FirstIn(item.candidates, FileIndex)

Reexport ==
  /\ \E item \in pendingItems :
       LET f == item[1]
           to == LocalPath(parsedFiles[f].reexports[item[2]]) \ {f}
       IN  /\ TakeItem("reexports", item)
           /\ \/ to = {} /\ UNCHANGED <<forwards, resolvedEdges>>
              \/ \E g \in to :
                   /\ forwards' = [forwards EXCEPT ![f] = Append(@, g)]
                   /\ resolvedEdges' = resolvedEdges \cup {Edge(<<f, 0>>, <<g, 0>>, "reexports")}
  /\ UNCHANGED <<symbolIndex, pendingMethods, unresolvedImports, visibleFiles, importBindings>>

StartImports ==
  /\ Turn("reexports", "imports", ImportPlaces)
  /\ UNCHANGED <<symbolIndex, pendingMethods, resolvedEdges, unresolvedImports, forwards, visibleFiles, importBindings>>

-----------------------------------------------------------------------------
(* forwarded(): the entry and the files found so far, each once and in the  *)
(* order in which they were reached.                                        *)

Pushed(order, file) == IF file \in Range(order) THEN order ELSE Append(order, file)

FollowedBy(order, targets) ==
  LET upto[k \in 0..Len(targets)] == IF k = 0 THEN order ELSE Pushed(upto[k - 1], targets[k])
  IN  upto[Len(targets)]

(* The files after the first `done` are the frontier.                       *)
Expanded(order, done) ==
  LET upto[k \in 0..(Len(order) - done)] ==
        IF k = 0 THEN order ELSE FollowedBy(upto[k - 1], forwards[order[done + k]])
  IN  upto[Len(order) - done]

Layer(search) ==
  IF Len(search.order) > MaxTargets THEN search
  ELSE [order |-> Expanded(search.order, search.done), done |-> Len(search.order)]

Search(entry, depth) ==
  LET after[d \in 0..depth] == IF d = 0 THEN [order |-> <<entry>>, done |-> 0] ELSE Layer(after[d - 1])
  IN  after[depth].order

(* Mutant of Forwarded: the first barrel counts as a step. *)
ForwardedTooShort(item) ==
  UNION {LET order == Search(entry, MaxDepth - 1)
         IN  {order[k] : k \in {j \in DOMAIN order : 1 < j /\ j <= MaxTargets + 1}} : entry \in LocalPath(item)}

Forwarded(item) ==
  UNION {LET order == Search(entry, MaxDepth)
         IN  {order[k] : k \in {j \in DOMAIN order : 1 < j /\ j <= MaxTargets + 1}} : entry \in LocalPath(item)}

-----------------------------------------------------------------------------
(* resolve_imports(): one import. Go names packages of files, the others    *)
(* one file; only the latter become visible to names.                       *)

Targets(f, item) == IF Language(f) = "go" THEN item.package \cap FileIndex ELSE LocalPath(item)

BoundNames(item, path, forwarded) ==
  {[local |-> b.local, path |-> path, imported |-> b.imported, forwarded |-> forwarded] : b \in item.bindings}

(* A `use` of an inline Rust module is no import. *)
Inline(f, item) == Language(f) = "rust" /\ LocalPath(item) = {f}

SkipInline ==
  /\ \E item \in pendingItems :
       TakeItem("imports", item) /\ Inline(item[1], parsedFiles[item[1]].imports[item[2]])
  /\ UNCHANGED <<symbolIndex, pendingMethods, resolvedEdges, unresolvedImports, forwards, visibleFiles,
                 importBindings>>

Local ==
  /\ \E place \in pendingItems :
       LET f == place[1]
           item == parsedFiles[f].imports[place[2]]
           path == LocalPath(item)
           barrels == Forwarded(item)
       IN  /\ TakeItem("imports", place) /\ ~Inline(f, item) /\ Targets(f, item) # {}
           /\ visibleFiles' = [visibleFiles EXCEPT ![f] = @ \cup path \cup barrels]
           /\ importBindings' = [importBindings EXCEPT
                ![f] = @ \cup (UNION {BoundNames(item, g, FALSE) : g \in path})
                         \cup (UNION {BoundNames(item, g, TRUE) : g \in barrels})]
           /\ resolvedEdges' = resolvedEdges \cup
                {Edge(<<f, 0>>, <<g, 0>>, "imports") : g \in Targets(f, item) \cup barrels}
  /\ UNCHANGED <<symbolIndex, pendingMethods, unresolvedImports, forwards>>

(* settle_unresolved(), and the package that is left: one node stands for   *)
(* all of them.                                                             *)
Package == 0

Unresolved ==
  /\ \E place \in pendingItems :
       LET f == place[1]
           item == parsedFiles[f].imports[place[2]]
           to == CASE item.class = "asset" -> {}
                   [] item.class = "local" -> FirstIn(item.candidates, Excluded)
                   [] item.class = "package" -> {Package}
       IN  /\ TakeItem("imports", place) /\ ~Inline(f, item) /\ Targets(f, item) = {}
           /\ resolvedEdges' = resolvedEdges \cup {Edge(<<f, 0>>, <<path, 0>>, "imports") : path \in to}
           /\ unresolvedImports' = unresolvedImports + IF item.class = "local" /\ to = {} THEN 1 ELSE 0
  /\ UNCHANGED <<symbolIndex, pendingMethods, forwards, visibleFiles, importBindings>>

(* same_module(): a unit is a folder, or the tests of one; a target and its *)
(* tests are one module, and a folder Shared is seen beside and below it.   *)
SharedSibling(shared, other) ==
  /\ ~shared.tests /\ Len(shared.path) > 1 /\ Last(shared.path) = "Shared"
  /\ LET parent == Front(shared.path)
     IN  IsStrictPrefix(parent, other.path) \/ (other.path = parent /\ ~other.tests)

SameModule(left, right) ==
  left.path = right.path \/ SharedSibling(left, right) \/ SharedSibling(right, left)

(* add_module_scopes(): the Swift files of one module see each other. *)
Peers(f) ==
  {g \in FileIndex \ {f} : /\ {Language(f), Language(g)} = {"swift"}
                           /\ SameModule(parsedFiles[f].unit, parsedFiles[g].unit)}

StartMembers ==
  /\ Turn("imports", "members", {})
  /\ visibleFiles' = [f \in FileIndex |-> visibleFiles[f] \cup Peers(f)]
  /\ UNCHANGED <<symbolIndex, pendingMethods, resolvedEdges, unresolvedImports, forwards, importBindings>>

(* Members whose type another file may declare, if only one does. *)
Owners(member) ==
  {id \in symbolIndex : /\ Language(id[1]) = Language(member[1])
                        /\ Symbol(id).name = Symbol(member).owner}

Members ==
  LET only == {m \in pendingMethods : Cardinality(Owners(m)) = 1 /\ m \notin Owners(m)}
  IN  /\ Turn("members", "references", ReferencePlaces)
      /\ pendingMethods' = {}
      /\ resolvedEdges' = resolvedEdges \cup {Edge(CHOOSE id \in Owners(m) : TRUE, m, "method") : m \in only}
      /\ UNCHANGED <<symbolIndex, unresolvedImports, forwards, visibleFiles, importBindings>>

-----------------------------------------------------------------------------
(* resolve_name(): each scope gives a set, of one symbol if it resolves.    *)

Only(set) == IF Cardinality(set) = 1 THEN set ELSE {}

Callable(id) == Symbol(id).kind \in {"function", "method", "struct"}

Defined(f, name) == {<<f, k>> : k \in {j \in DOMAIN parsedFiles[f].symbols : parsedFiles[f].symbols[j].name = name}}

(* unique_in_file() *)
Unique(f, name, calls) ==
  IF Cardinality(Defined(f, name)) = 1 \/ ~calls THEN Only(Defined(f, name))
  ELSE Only({id \in Defined(f, name) : Callable(id)})

SourceOf(f, r) == <<f, r.owner>>

Own(f, r) == {id \in Unique(f, r.name, r.calls) : id # SourceOf(f, r) \/ r.calls}

SelfMethod(f, r) ==
  IF r.self THEN Only({id \in Defined(f, r.name) : Symbol(id).kind = "method"}) ELSE {}

BindingTargets(f, r, forwarded) ==
  (UNION {Unique(b.path, b.imported, r.calls) :
            b \in {c \in importBindings[f] : c.local = r.name /\ c.forwarded = forwarded}})
    \ {SourceOf(f, r)}

Imported(f, r) ==
  IF BindingTargets(f, r, FALSE) # {} THEN Only(BindingTargets(f, r, FALSE))
  ELSE Only(BindingTargets(f, r, TRUE))

InImportedFiles(f, r) ==
  Only((UNION {Unique(g, r.name, r.calls) : g \in visibleFiles[f]}) \ {SourceOf(f, r)})

RepositoryWide(f, r) ==
  IF Language(f) \in Script THEN {}
  ELSE Only({id \in symbolIndex : /\ Language(id[1]) = Language(f)
                                  /\ Symbol(id).name = r.name
                                  /\ id # SourceOf(f, r) \/ r.calls})

Scopes(f, r) == <<Own(f, r), Imported(f, r), InImportedFiles(f, r), RepositoryWide(f, r)>>

(* The first scope that has the name.                                       *)
Scoped(f, r) ==
  UNION {Scopes(f, r)[k] : k \in {j \in 1..4 : \A i \in 1..(j - 1) : Scopes(f, r)[i] = {}}}

Resolved(f, r) ==
  CASE r.qualified /\ Language(f) \in Script -> {}
    [] r.qualified /\ Language(f) = "rust" -> SelfMethod(f, r)
    [] OTHER -> Scoped(f, r)

Reference ==
  /\ \E item \in pendingItems :
       LET f == item[1]
           r == parsedFiles[f].references[item[2]]
       IN  /\ TakeItem("references", item)
           /\ resolvedEdges' = resolvedEdges \cup {Edge(SourceOf(f, r), id, Kind(r)) : id \in Resolved(f, r)}
  /\ UNCHANGED <<symbolIndex, pendingMethods, unresolvedImports, forwards, visibleFiles, importBindings>>

NamesNext ==
  \/ Integrate \/ StartReexports \/ Reexport \/ StartImports \/ SkipInline \/ Local
  \/ Unresolved \/ StartMembers \/ Members \/ Reference

NamesSpec == NamesInit /\ [][NamesNext]_nameVars

-----------------------------------------------------------------------------
(* What the imports of a file lead to by re-exports, in at most k steps. *)
Barrels(f) ==
  LET step[k \in 0..MaxDepth] ==
        IF k = 0 THEN UNION {LocalPath(item) : item \in Range(parsedFiles[f].imports)}
        ELSE step[k - 1] \cup UNION {Range(forwards[g]) : g \in step[k - 1]}
  IN  step[MaxDepth]

(* The symbols a reference may mean: by its own name in its own file or one *)
(* it sees, by the name an import gives them, and, where files share a name *)
(* space, if the whole repository has no other of the name.                 *)
Meant(f, r) ==
  LET named == {id \in symbolIndex : Symbol(id).name = r.name}
      renamed == {id \in symbolIndex : \E item \in Range(parsedFiles[f].imports) : \E b \in item.bindings :
                    b.local = r.name /\ b.imported = Symbol(id).name}
  IN  {id \in named : id[1] \in {f} \cup Barrels(f) \cup Peers(f)}
        \cup {id \in renamed : id[1] \in Barrels(f)}
        \cup (IF Language(f) \in Script THEN {}
              ELSE Only({id \in named : /\ Language(id[1]) = Language(f)
                                        /\ id # SourceOf(f, r) \/ r.calls}))

(* Whatever order the files, the barrels and the scopes are gone through in, *)
(* an edge of a reference has evidence: the symbol is one the reference may  *)
(* mean, is not a method of an unknown receiver, and is its own user only if *)
(* it calls itself; and a method belongs to one symbol, of its owner's name. *)
EdgesHaveEvidence ==
  /\ \A e \in resolvedEdges : e.kind \in {"calls", "uses"} =>
       \E r \in Range(parsedFiles[e.from[1]].references) :
         /\ SourceOf(e.from[1], r) = e.from /\ Kind(r) = e.kind /\ e.to \in Meant(e.from[1], r)
         /\ e.to # e.from \/ r.calls
         /\ r.qualified /\ Language(e.from[1]) = "rust" => r.self /\ e.to[1] = e.from[1]
         /\ ~(r.qualified /\ Language(e.from[1]) \in Script)
  /\ \A d, e \in resolvedEdges : d.kind = "method" /\ e.kind = "method" /\ d.to = e.to =>
       d.from = e.from /\ Symbol(d.from).name = Symbol(d.to).owner

(* No evidence is lost on the way: an unqualified name that one symbol of the *)
(* repository has, and no import renames, is resolved if its file sees it, or *)
(* shares a name space with it.                                               *)
UnambiguousIsFound ==
  resolving = "references" /\ pendingItems = {} =>
    \A f \in FileIndex : \A r \in Range(parsedFiles[f].references) :
      LET named == {id \in symbolIndex : Symbol(id).name = r.name}
          renamed == \E item \in Range(parsedFiles[f].imports) : \E b \in item.bindings :
                       b.local = r.name /\ b.imported # r.name
      IN  named \subseteq Meant(f, r) /\ ~renamed /\ ~r.qualified /\ Cardinality(Barrels(f)) <= MaxTargets + 1
          => \A id \in named : named = {id} /\ id # SourceOf(f, r) =>
               Edge(SourceOf(f, r), id, Kind(r)) \in resolvedEdges

(* A reference becomes an edge on evidence, and does where there is some.   *)
NamesAreResolved == EdgesHaveEvidence /\ UnambiguousIsFound
=============================================================================
