----------------------------- MODULE BuildModel -----------------------------
(* The build topology of a repository (src/operations/build): the manifests *)
(* are gathered into workspaces, aggregator by aggregator and then one by   *)
(* one, their dependencies are linked, and a file is placed in the members  *)
(* and targets it belongs to. A path is a sequence of names.                *)
EXTENDS Integers, Sequences, FiniteSets, SequencesExt, FiniteSetsExt, TLC

CONSTANTS
  Trees,   \* manifests and Go packages in path order, the files, the file asked for
  Nothing  \* no name, path, member or answer

VARIABLES given, state

vars == <<given, state>>

Beneath(dir, path) == IsPrefix(dir, path)
Relative(dir, path) == SubSeq(path, Len(dir) + 1, Len(path))

(* locate(): product manifests only. *)
Located(kind) == SelectSeq(given.manifests, LAMBDA m : m.kind = kind /\ m.product)

(* A manifest that cannot be parsed declares nothing. *)
Parsed(m) ==
  IF m.content = "good" THEN m
  ELSE [m EXCEPT !.name = Nothing, !.workspace = FALSE, !.patterns = {}, !.dependencies = <<>>,
                 !.targets = {}, !.off = {}, !.scripts = [s \in {} |-> {}]]

(* The order of npm_workspaces(), cargo_workspaces() and go_workspaces(). *)
Aggregators ==
  LET readable(kind) == SelectSeq(Located(kind), LAMBDA m : m.content # "unreadable")
      declared(kind) == SelectSeq(Located(kind), LAMBDA m : Parsed(m).workspace)
  IN  declared("npm") \o readable("pnpm") \o readable("lerna") \o declared("cargo") \o readable("gowork")

Init ==
  /\ given \in Trees
  /\ state = [todo |-> Aggregators, workspaces |-> <<>>, claimed |-> {}, alone |-> FALSE,
              answer |-> Nothing]

-----------------------------------------------------------------------------
(* glob_matches(), dir_is_member(), normalize_relative()                    *)

GlobMatches(pattern, path) ==
  LET from[p \in 1..(Len(pattern) + 1), s \in 1..(Len(path) + 1)] ==
        IF p > Len(pattern) THEN s > Len(path)
        ELSE IF pattern[p] = "**" THEN from[p + 1, s] \/ (s <= Len(path) /\ from[p, s + 1])
        ELSE s <= Len(path) /\ pattern[p] \in {"*", path[s]} /\ from[p + 1, s + 1]
  IN  from[1, 1]

DirIsMember(base, patterns, dir) ==
  /\ Beneath(base, dir) /\ dir # base
  /\ \E p \in patterns : ~p.negated /\ GlobMatches(p.segments, Relative(base, dir))
  /\ \A p \in patterns : p.negated => ~GlobMatches(p.segments, Relative(base, dir))

Normalized(base, path) ==
  FoldLeft(LAMBDA at, segment : CASE at = Nothing \/ segment = "." -> at
                                  [] at # Nothing /\ segment \notin {".", ".."} -> Append(at, segment)
                                  [] at = <<>> /\ segment = ".." -> Nothing
                                  [] OTHER -> Front(at), base, path)

-----------------------------------------------------------------------------
(* The members of each ecosystem                                            *)

(* npm_script_cycle(): a search that enters no script twice. *)
RECURSIVE Reaches(_, _, _, _)
Reaches(goal, stack, invokes, seen) ==
  /\ stack # <<>>
  /\ LET script == Head(stack)
     IN  IF script \in seen THEN Reaches(goal, Tail(stack), invokes, seen)
         ELSE \/ goal \in invokes[script]
              \/ Reaches(goal, SetToSeq(invokes[script]) \o Tail(stack), invokes, seen \cup {script})

(* script_tasks(): a script invokes the scripts of the package it names. *)
Tasks(m) ==
  LET scripts == DOMAIN Parsed(m).scripts
      invokes == [s \in scripts |-> Parsed(m).scripts[s] \cap scripts]
  IN  {[name |-> s, invokes |-> invokes[s], cycle |-> Reaches(s, <<s>>, invokes, {})] : s \in scripts}

(* typescript_projects(): every tsconfig beneath the package. *)
TsProjects(m) ==
  {[kind |-> "ts_project", name |-> c.dir, path |-> Append(Relative(m.dir, c.dir), "tsconfig"),
    patterns |-> c.patterns, implicit |-> FALSE] :
     c \in {d \in Range(given.manifests) : /\ d.kind = "tsconfig" /\ d.content = "good"
                                           /\ Beneath(m.dir, d.dir)}}

(* The configurations that those of the package refer to: one that is not  *)
(* there and not written as a relative path is external, and not unknown.   *)
TsReferences(m) ==
  LET configs == SelectSeq(given.manifests, LAMBDA c : /\ c.kind = "tsconfig" /\ c.content = "good"
                                                       /\ Beneath(m.dir, c.dir))
      dirs == {c.dir : c \in {d \in Range(given.manifests) : d.kind = "tsconfig" /\ Beneath(m.dir, d.dir)}}
      written(c, use) == [dir |-> Normalized(c.dir, use), relative |-> Head(use) \in {".", ".."}]
      of(c) == SelectSeq([k \in DOMAIN c.uses |-> written(c, c.uses[k])], LAMBDA use : use.dir # Nothing)
      reference(use) == [name |-> "tsconfig", scope |-> "config", config |-> use.dir,
                         external |-> use.dir \notin dirs /\ ~use.relative,
                         unknown |-> use.dir \notin dirs /\ use.relative,
                         member |-> IF use.dir \in dirs THEN <<"npm", m.dir>> ELSE Nothing]
      all == FlattenSeq([k \in DOMAIN configs |-> of(configs[k])])
  IN  [k \in DOMAIN all |-> reference(all[k])]

NpmMember(m) ==
  LET declared == Parsed(m).dependencies
  IN  [id |-> <<"npm", m.dir>>, name |-> Parsed(m).name, path |-> m.dir, targets |-> TsProjects(m),
       tasks |-> Tasks(m),
       dependencies |-> [k \in DOMAIN declared |-> [name |-> declared[k].name, scope |-> "package",
                                                   member |-> Nothing, unknown |-> TRUE]]
                          \o TsReferences(m)]

(* link_npm_members(): of two members of a name the later is meant. *)
LinkNpm(members) ==
  [k \in DOMAIN members |-> [members[k] EXCEPT !.dependencies =
     [j \in DOMAIN @ |->
       LET named == IF @[j].scope = "config" THEN {}
                    ELSE {i \in DOMAIN members : members[i].name = @[j].name}
       IN  IF named = {} THEN @[j]
           ELSE [@[j] EXCEPT !.member = members[Max(named)].id, !.unknown = FALSE]]]]

(* resolve_dependencies() of Cargo; `root` is the workspace or Nothing. *)
CargoDependency(root, m, d) ==
  LET shared == IF d.inherited /\ root # Nothing THEN {s \in root.shared : s.name = d.name} ELSE {}
      meant == IF shared = {} THEN d ELSE CHOOSE s \in shared : TRUE
      dir == IF meant.path = Nothing THEN Nothing
             ELSE Normalized(IF shared = {} THEN m.dir ELSE root.dir, meant.path)
  IN  [name |-> d.name, scope |-> "package", member |-> IF dir = Nothing THEN Nothing ELSE <<"cargo", dir>>,
       unknown |-> d.inherited /\ shared = {}]

(* cargo_default_target_path() *)
DefaultPath(m, target) ==
  LET name == IF target.name = Nothing THEN m.name ELSE target.name
      directory == CASE target.kind = "test" -> "tests" [] target.kind = "bench" -> "benches"
                     [] OTHER -> "examples"
      candidates == CASE target.kind = "lib" -> <<<<"src", "lib">>>>
                      [] target.kind = "bin" /\ name = m.name -> <<<<"src", "main">>>>
                      [] target.kind = "bin" -> <<<<"src", "bin", name>>, <<"src", "bin", name, "main">>>>
                      [] OTHER -> <<<<directory, name>>, <<directory, name, "main">>>>
      found == SelectSeq(candidates, LAMBDA c : m.dir \o c \in given.files)
  IN  CASE target.path # Nothing -> target.path
        [] target.path = Nothing /\ found # <<>> -> found[1]
        [] OTHER -> Nothing

(* cargo_targets(): those declared, and those by convention of the kinds   *)
(* whose discovery (autobins, autolib, ...) is not switched off.            *)
CargoTargets(m) ==
  LET declared == Parsed(m).targets
      inside == {Relative(m.dir, f) : f \in {g \in given.files : Beneath(m.dir, g)}}
      directory == [test |-> "tests", bench |-> "benches", example |-> "examples"]
      found(kind) == {f \in inside : /\ Len(f) \in {2, 3} /\ f[1] = directory[kind]
                                     /\ Len(f) = 3 => f[3] = "main"}
      convention == {[kind |-> "bin", name |-> m.name, path |-> <<"src", "main">>],
                     [kind |-> "lib", name |-> m.name, path |-> <<"src", "lib">>]}
                      \cup UNION {{[kind |-> kind, name |-> f[2], path |-> f] : f \in found(kind)} :
                                   kind \in DOMAIN directory}
      taken(c) == \E t \in declared :
                    t.kind = c.kind /\ (t.path = c.path \/ t.name = c.name
                                         \/ (c.kind = "lib" /\ t.name = Nothing))
      target(t, implicit) == [kind |-> t.kind, name |-> t.name, path |-> DefaultPath(m, t),
                              patterns |-> {}, implicit |-> implicit]
  IN  {target(t, FALSE) : t \in declared}
        \cup {target(c, TRUE) : c \in {d \in convention : d.kind \notin Parsed(m).off /\ d.path \in inside
                                                               /\ ~taken(d)}}

CargoMember(root, m) ==
  [id |-> <<"cargo", m.dir>>, name |-> Parsed(m).name, path |-> m.dir, targets |-> CargoTargets(m),
   tasks |-> {}, dependencies |-> [k \in DOMAIN Parsed(m).dependencies |->
                                     CargoDependency(root, m, Parsed(m).dependencies[k])]]

(* go.rs: packages, their import paths, and the imports of a module. *)
Packages(m) == SelectSeq(given.packages, LAMBDA p : Beneath(m.dir, p.dir))

ImportPath(m, p) ==
  <<m.name>> \o (IF m.dir # <<>> /\ Beneath(m.dir, p.dir) /\ p.dir # m.dir
                 THEN Relative(m.dir, p.dir) ELSE p.dir)

GoMember(m) ==
  LET own == {ImportPath(m, p) : p \in {q \in Range(Packages(m)) : ~q.test}}
      imports == SetToSeq(UNION {p.imports : p \in Range(Packages(m))})
  IN  [id |-> <<"go", m.dir>>, name |-> m.name, path |-> m.dir, targets |-> {}, tasks |-> {},
       dependencies |-> [k \in DOMAIN imports |->
         [name |-> imports[k], scope |-> "package", unknown |-> FALSE,
          member |-> IF imports[k] \in own THEN <<"go", m.dir>> ELSE Nothing]]]

(* link_members(): what a member does not have is looked for in the others. *)
LinkGo(members, manifests) ==
  [k \in DOMAIN members |-> [members[k] EXCEPT !.dependencies =
     [j \in DOMAIN @ |->
       LET offers == {i \in DOMAIN members :
                        \E p \in Range(Packages(manifests[i])) :
                          ~p.test /\ ImportPath(manifests[i], p) = @[j].name}
       IN  IF @[j].member # Nothing \/ offers = {} THEN @[j]
           ELSE [@[j] EXCEPT !.member = members[Max(offers)].id]]]]

-----------------------------------------------------------------------------
(* analyze(): the aggregators one by one                                    *)

(* `internal` are the dependencies that name a member. *)
Workspace(m, members, internal(_)) ==
  [aggregator |-> m, members |-> [k \in DOMAIN members |->
     [internal |-> SelectSeq(members[k].dependencies, internal)] @@ members[k]]]

Gather(m, members, internal(_), claims) ==
  /\ state' = [state EXCEPT !.todo = Tail(@), !.claimed = @ \cup claims,
                            !.workspaces = Append(@, Workspace(m, members, internal))]
  /\ UNCHANGED given

Linked(d) == d.member # Nothing

NpmWorkspace ==
  LET m == Head(state.todo)
      manifests == SelectSeq(Located("npm"), LAMBDA p : DirIsMember(m.dir, m.patterns, p.dir))
      members == LinkNpm([k \in DOMAIN manifests |-> NpmMember(manifests[k])])
  IN  /\ state.todo # <<>> /\ m.kind \in {"npm", "pnpm", "lerna"}
      /\ Gather(m, members, Linked, {member.id : member \in Range(members)})

CargoWorkspace ==
  LET m == Head(state.todo)
      inside == SelectSeq(Located("cargo"), LAMBDA p : /\ DirIsMember(m.dir, m.patterns, p.dir)
                                                       /\ ~DirIsMember(m.dir, m.excludes, p.dir))
      manifests == (IF m.name = Nothing THEN <<>> ELSE <<m>>) \o inside
      members == [k \in DOMAIN manifests |-> CargoMember(m, manifests[k])]
      ids == {member.id : member \in Range(members)}
  IN  /\ state.todo # <<>> /\ m.kind = "cargo"
      /\ Gather(m, members, LAMBDA d : d.member \in ids, ids)

GoWorkspace ==
  LET m == Head(state.todo)
      dirs == [k \in DOMAIN m.uses |-> Normalized(m.dir, m.uses[k])]
      module(dir) == SelectSeq(given.manifests, LAMBDA p : p.kind = "go" /\ p.dir = dir)
      manifests == FlattenSeq([k \in DOMAIN dirs |-> module(dirs[k])])
      members == LinkGo([k \in DOMAIN manifests |-> GoMember(manifests[k])], manifests)
  IN  /\ state.todo # <<>> /\ m.kind = "gowork"
      /\ Gather(m, members, Linked, {member.id : member \in Range(members)})

(* standalone_packages(), distributions(): what no aggregator has claimed. *)
StandaloneUnclaimed(m) ==
  CASE m.kind = "npm" -> \A w \in Range(state.workspaces) : w.aggregator # m
    [] m.kind = "cargo" -> ~Parsed(m).workspace /\ Parsed(m).name # Nothing
    [] m.kind = "python" -> Parsed(m).name # Nothing
    [] OTHER -> TRUE

(* Mutant of Standalone: the claims are not looked at. *)
StandaloneEvery(m) == StandaloneUnclaimed(m)

Standalone(m) == <<m.kind, m.dir>> \notin state.claimed /\ StandaloneUnclaimed(m)

Single(m) ==
  CASE m.kind = "npm" -> NpmMember(m)
    [] m.kind = "cargo" -> CargoMember(Nothing, m)
    [] m.kind = "go" -> GoMember(m)
    [] m.kind = "python" -> [id |-> <<"python", m.dir>>, name |-> m.name, path |-> m.dir, targets |-> {},
                             tasks |-> {}, dependencies |-> <<>>]

StandalonePackages ==
  LET every == Located("npm") \o Located("cargo") \o Located("go") \o Located("python")
      packages == SelectSeq(every, Standalone)
  IN  /\ state.todo = <<>> /\ ~state.alone
      /\ state' = [state EXCEPT !.alone = TRUE, !.workspaces = @ \o
           [k \in DOMAIN packages |-> Workspace(packages[k], <<Single(packages[k])>>,
                                               LAMBDA d : packages[k].kind = "npm" \/ Linked(d))]]
      /\ UNCHANGED given

-----------------------------------------------------------------------------
(* file_membership()                                                        *)

Owns(member, target, file) ==
  LET relative == Relative(member.path, file)
      config == Front(target.path)
      source == IF Beneath(config, relative) THEN Relative(config, relative) ELSE relative
  IN  IF target.kind = "ts_project"
      THEN /\ \E p \in target.patterns : ~p.negated /\ GlobMatches(p.segments, source)
           /\ \A p \in target.patterns : p.negated => ~GlobMatches(p.segments, source)
      ELSE target.kind \in {"lib", "bin"} /\ target.path[1] = "src" /\ relative[1] = "src"

Membership(file) ==
  LET members == {m \in UNION {Range(w.members) : w \in Range(state.workspaces)} : Beneath(m.path, file)}
      exact(m, t) == t.path # Nothing /\ file = m.path \o t.path
      owned(m) == {t \in m.targets : t.path # Nothing /\ (exact(m, t) \/ Owns(m, t, file))}
      targets == UNION {{<<m.id, t.kind, t.name>> : t \in owned(m)} : m \in members}
  IN  [members |-> {m.id : m \in members}, targets |-> targets,
       resolution |-> IF \E m \in members : \E t \in owned(m) : exact(m, t) THEN "EXACT_TARGET_PATH"
                      ELSE IF targets # {} THEN "TARGET_SOURCE_FALLBACK" ELSE "MEMBER_PATH_FALLBACK"]

(* report(), attach_completeness(): complete without diagnostics or unknowns. *)
Finish ==
  LET diagnosed == {m \in Range(given.manifests) : /\ m.product /\ m.content # "good"
                                                   /\ m.kind \in {"npm", "cargo", "go", "python"}}
      unknown == {d \in UNION {UNION {Range(m.dependencies) : m \in Range(w.members)} :
                                 w \in Range(state.workspaces)} : d.unknown}
  IN  /\ state.alone /\ state.answer = Nothing
      /\ state' = [state EXCEPT !.answer =
           [complete |-> diagnosed = {} /\ unknown = {}, file |-> Membership(given.asked)]]
      /\ UNCHANGED given

Next ==
  \/ NpmWorkspace \/ CargoWorkspace \/ GoWorkspace \/ StandalonePackages \/ Finish

Spec == Init /\ [][Next]_vars

-----------------------------------------------------------------------------
Answered == state.answer # Nothing
AllMembers == UNION {Range(w.members) : w \in Range(state.workspaces)}

(* A good manifest that stands for a package. *)
Package(m) ==
  /\ m.product /\ m.content = "good"
  /\ \/ m.kind = "npm" /\ ~m.workspace
     \/ m.kind \in {"cargo", "python"} /\ m.name # Nothing
     \/ m.kind = "go"

(* Whatever the nesting of aggregators, globs and exclusions, no package is *)
(* lost, a package that stands alone is in no workspace besides, a local    *)
(* dependency of a workspace leads to a member of that workspace that       *)
(* declares the name or has the directory, a script is marked cyclic        *)
(* exactly if it can come back to itself, a complete answer has resolved    *)
(* what it shows, and a file has all the members around it.                 *)
TopologyIsWhole ==
  Answered =>
    /\ \A m \in Range(given.manifests) : Package(m) =>
         LET homes == {k \in DOMAIN state.workspaces :
                         \E n \in Range(state.workspaces[k].members) : n.id = <<m.kind, m.dir>>}
         IN  /\ homes # {}
             /\ (\E k \in homes : state.workspaces[k].aggregator = m /\ ~m.workspace)
                  => Cardinality(homes) = 1
    /\ \A w \in Range(state.workspaces) : w.aggregator.workspace =>
         \A n \in Range(w.members) : \A d \in Range(n.internal) :
           \E provider \in Range(w.members) :
             /\ provider.id = d.member
             /\ w.aggregator.kind \in {"npm", "pnpm", "lerna"} => provider.name = d.name \/ provider = n
             /\ w.aggregator.kind = "gowork" => d.name[1] = provider.name
    /\ \A n \in AllMembers : \A t \in n.tasks :
         LET step[k \in 0..Cardinality(n.tasks)] ==
               IF k = 0 THEN t.invokes
               ELSE step[k - 1] \cup UNION {s.invokes : s \in {r \in n.tasks : r.name \in step[k - 1]}}
         IN  t.cycle <=> t.name \in step[Cardinality(n.tasks)]
    /\ state.answer.complete => \A n \in AllMembers : \A d \in Range(n.dependencies) :
         n.id[1] = "npm" => d.member # Nothing \/ (d.scope = "config" /\ d.external)
    /\ LET asked == state.answer.file
       IN  /\ asked.members = {n.id : n \in {o \in AllMembers : Beneath(o.path, given.asked)}}
           /\ \A t \in asked.targets : t[1] \in asked.members
=============================================================================
