---------------------------- MODULE MCOperations ----------------------------
(* The operations that judge a repository as a whole, each on small ones:   *)
(* the prefixes of mounted routers, what a change changed, what depends on  *)
(* it, the runtime cycles, a domain walk and an architecture contract. They *)
(* share no state in the program; `mode` says which of them a behaviour is  *)
(* about. The variables of the others hold Nothing, those of the modules    *)
(* that are extended what they are before anything is asked.                *)
EXTENDS MountPrefixes, ChangeSymbols, ChangeRadius, ArchitectureRatchet, RuntimeCycles

LOCAL INSTANCE FiniteSetsExt

CONSTANT Modes

-----------------------------------------------------------------------------
(* Mounts: up to three between four files, under one of two prefixes; two   *)
(* prefixes twice; and a cycle that a root mounts and that mounts a leaf.   *)
MountsOf(files) ==
  {m \in [parent : files, file : files, at : {<<"a">>, <<"b">>}] : m.parent # m.file}

Falls(m, n) ==
  \/ m.parent < n.parent
  \/ m.parent = n.parent /\ m.file < n.file
  \/ m.parent = n.parent /\ m.file = n.file /\ m.at = <<"a">> /\ n.at = <<"b">>

Mounted(parent, file, prefix) == [parent |-> parent, file |-> file, at |-> <<prefix>>]

(* In the order of the mounting files.                                      *)
RouterMounts ==
  UNION {{list \in [1..n -> MountsOf(Routers)] : \A k \in 1..(n - 1) : Falls(list[k], list[k + 1])} :
           n \in 0..3}
  \cup {<<Mounted(1, 2, "a"), Mounted(1, 2, "b"), Mounted(2, 3, "a"), Mounted(2, 3, "b")>>,
        <<Mounted(1, 2, "a"), Mounted(2, 3, "b"), Mounted(3, 2, "a"), Mounted(3, 4, "b")>>}

-----------------------------------------------------------------------------
(* Declarations: two places in one file, one in another.                    *)
PlaceFile == <<"a", "a", "b">>
Places == DOMAIN PlaceFile

Place(label, exported, code, comment) ==
  [label |-> label, exported |-> exported, code |-> code, comment |-> comment]

PlaceDeclarations ==
  {Place("f", TRUE, "c", "x"), Place("f", FALSE, "c", "x"), Place("f", FALSE, "d", "x"),
   Place("f", FALSE, "c", "y"), Place("g", FALSE, "c", "x")}

-----------------------------------------------------------------------------
(* Dependencies: 1 to 3 are declared in file 5, 6 is a package.             *)
ImpactNodes == 1..8

DeclaredIn == [n \in {1, 2, 3} |-> 5]

Needs(from, to) == [from |-> from, to |-> to, couples |-> TRUE]

SmallNeeds ==
  {Needs(p[1], p[2]) : p \in {q \in {1, 2, 3, 4, 6} \X {1, 2, 3, 4} : q[1] # q[2]}}
  \cup {Needs(5, 4)}

(* What needed what before the change, one edge of it without coupling.     *)
NeededBefore == {[from |-> 2, to |-> 1, couples |-> FALSE], Needs(3, 1), Needs(3, 2)}

(* Two ways of one length and of two, through a package, and a cycle.       *)
LargerNeeds ==
  {{Needs(2, 1), Needs(3, 1), Needs(4, 2), Needs(6, 3), Needs(6, 4)},
   {Needs(2, 1), Needs(3, 1), Needs(4, 3), Needs(7, 2), Needs(4, 7)},
   {Needs(2, 1), Needs(4, 1), Needs(3, 2), Needs(7, 4), Needs(3, 7), Needs(8, 3)}}

ImpactGraphs ==
  {[revision \in {"base", "candidate"} |-> IF revision = "base" THEN NeededBefore ELSE needs] :
     needs \in kSubset(3, SmallNeeds)}
  \cup {[revision \in {"base", "candidate"} |-> needs] : needs \in LargerNeeds}

Seed(node, revision) == [node |-> node, revision |-> revision]

ImpactSeeds ==
  {<<Seed(1, "candidate"), Seed(2, "candidate")>>, <<Seed(1, "base"), Seed(2, "candidate")>>}

ImpactLimits == [depth : {2}, hits : {2, 9}] \cup [depth : {3}, hits : {9}]

-----------------------------------------------------------------------------
(* A program: four files, five symbols in three of them, two channels.      *)
ProgramFiles == 1..4

ProgramChannels == {101, 102}

ProgramSymbols == {11, 12, 21, 22, 31}

ProgramOwner ==
  [n \in ProgramFiles \cup ProgramSymbols |-> IF n \in ProgramFiles THEN n ELSE n \div 10]

Link(from, kind, to) == [from |-> from, kind |-> kind, to |-> to, counts |-> TRUE]

Between(nodes, kind) ==
  {Link(p[1], kind, p[2]) : p \in {q \in nodes \X nodes : q[1] # q[2]}}

Messages ==
  {Link(p[1], p[2], p[3]) : p \in (1..3) \X {"publishes", "consumes"} \X ProgramChannels}

(* Links that count and links that do not, of every kind.                   *)
MixedLinks ==
  {[link EXCEPT !.counts = FALSE] : link \in {Link(1, "imports", 2), Link(11, "calls", 21)}}
  \cup {Link(1, "imports", 2), Link(2, "mounts", 1), Link(2, "imports", 21), Link(21, "calls", 11),
        Link(11, "calls", 21), Link(1, "publishes", 101), Link(2, "consumes", 101)}

ProgramGraphs ==
  [edges : kSubset(5, Between(ProgramFiles, "imports")), hidden : {{}}]
  \cup [edges : kSubset(3, Between(ProgramSymbols, "calls")) \cup kSubset(4, Messages),
        hidden : {{}}]
  \cup [edges : kSubset(3, MixedLinks), hidden : {{}, {2}}]

-----------------------------------------------------------------------------
(* A platform: agents 1 to 3 with the ports 4 and 5 of 1 and 6 of 2, and a  *)
(* group 7 that holds ports as well.                                        *)
Contained(owner, node) == [from |-> owner, to |-> node]

Platforms ==
  {<<Contained(1, 4), Contained(7, 5), Contained(1, 5), Contained(2, 6)>>,
   <<Contained(7, 4), Contained(1, 5), Contained(2, 6), Contained(3, 6)>>}

Flow(from, relation, to) == [from |-> from, to |-> to, relation |-> relation]

DataFlows ==
  {Flow(p[1], "data", p[2]) : p \in {<<4, 6>>, <<5, 6>>, <<6, 5>>, <<6, 3>>, <<3, 1>>, <<2, 3>>,
                                     <<2, 1>>, <<3, 4>>, <<1, 3>>, <<4, 5>>}}

PlatformGraphs ==
  [contains : Platforms,
   edges : kSubset(4, DataFlows)
           \cup {flows \cup {Flow(4, "tool", 3), Flow(3, "tool", 5)} : flows \in kSubset(2, DataFlows)}]

PlatformRequests ==
  [start : {1, 6}, depth : {2, 4}, relations : {<<"data", "tool">>}, incoming : BOOLEAN]

-----------------------------------------------------------------------------
(* Layers: f1 (1 and 2) is in the interface, f2 (3) in the core, f3 (4) and *)
(* f4 (5) are in the store, f5 (7) is in no component, 6 in no file.        *)
LayerFile ==
  [n \in {1, 2, 3, 4, 5, 7} |->
     CASE n \in {1, 2} -> "f1" [] n = 3 -> "f2" [] n = 4 -> "f3" [] n = 5 -> "f4" [] n = 7 -> "f5"]

LayerOf ==
  [f \in {"f1", "f2", "f3", "f4"} |->
     CASE f = "f1" -> "ui" [] f = "f2" -> "core" [] f \in {"f3", "f4"} -> "store"]

Uses(from, kind, to) == [from |-> from, to |-> to, kind |-> kind]

LayerEdges ==
  <<Uses(1, "calls", 3), Uses(2, "imports", 4), Uses(3, "calls", 5), Uses(7, "calls", 6),
    Uses(6, "calls", 4), Uses(2, "imports", 7), Uses(3, "calls", 1)>>

LayerRule(id, action, reach, from, to, kinds, severity) ==
  [id |-> id, action |-> action, reach |-> reach, from |-> from, to |-> to, kinds |-> kinds,
   severity |-> severity]

NoStoreOutside ==
  LayerRule("deep", "forbid", "transitive", {"ui", "core"}, {"store"}, {"any"}, "error")

LayerContracts ==
  {<<NoStoreOutside,
     LayerRule("allow", "allow_only", "direct", {"ui"}, {"core"}, {"any"}, "error")>>,
   <<LayerRule("need", "require", "transitive", {"ui", "core"}, {"store"}, {"calls"}, "error"),
     LayerRule("back", "forbid", "direct", {"core"}, {"ui"}, {"any"}, "warn")>>,
   <<LayerRule("near", "require", "direct", {"ui", "core"}, {"store"}, {"any"}, "error")>>,
   <<LayerRule("one", "forbid", "direct", {"ui"}, {"store"}, {"any"}, "warn"),
     LayerRule("one", "allow_only", "direct", {"ui"}, {"core"}, {"any"}, "error")>>}

LayerBeginnings == SUBSET DOMAIN LayerEdges

-----------------------------------------------------------------------------
(* The operations *)

VARIABLES
  mode,
  platform, request, relation, expanded, ahead, here, unread, steps, reasons, cycle, pace

domainVars == <<platform, request, relation, expanded, ahead, here, unread, steps, reasons,
                cycle, pace>>
vars == <<mode, changeVars, radiusVars, mountVars, cycleVars, domainVars, ratchetVars>>

NoChange ==
  /\ available = FALSE /\ before = [s \in Slots |-> Absent] /\ after = [s \in Slots |-> Absent]
  /\ todo = {} /\ paired = <<>> /\ changes = {} /\ progress = "idle"

NoRadius ==
  /\ net = [r \in Revisions |-> {}] /\ limit = [depth |-> 0, hits |-> 0] /\ seeds = <<>>
  /\ turn = 0 /\ visited = {} /\ queue = <<>> /\ at = Nothing /\ left = {} /\ hits = <<>>
  /\ witnesses = {} /\ impacts = <<>> /\ partial = FALSE /\ phase = "idle"

NoMounts ==
  /\ mounts = <<>> /\ asking = {} /\ cache = NoPrefixes /\ calls = <<>> /\ mounted = NoPrefixes

NoCycles ==
  /\ program = [edges |-> {}, hidden |-> {}] /\ digraph = "files" /\ pairs = {} /\ pass = "idle"
  /\ met = {} /\ stack = <<>> /\ finished = <<>> /\ component = {} /\ cycles = {}

NoDomain ==
  /\ platform = Nothing /\ request = Nothing /\ relation = Nothing /\ expanded = Nothing
  /\ ahead = Nothing /\ here = Nothing /\ unread = Nothing /\ steps = Nothing
  /\ reasons = Nothing /\ cycle = Nothing /\ pace = Nothing

NoRules ==
  /\ rules = <<>> /\ edges = {} /\ baseline = {} /\ exceptions = {} /\ report = None
  /\ edits = 0

-----------------------------------------------------------------------------
Domain == INSTANCE DomainWalk WITH
  Nodes <- 1..7, Ports <- {4, 5, 6}, Owners <- {1, 2, 3}, Graphs <- PlatformGraphs,
  Requests <- PlatformRequests, MaxVisited <- 5, MaxEdges <- 3,
  net <- platform, turn <- relation, queue <- ahead, at <- here, left <- unread, phase <- pace

ASSUME Domain!DomainAssumption

Init ==
  /\ mode \in Modes
  /\ IF mode = "changes" THEN ChangeInit ELSE NoChange
  /\ IF mode = "radius" THEN RadiusInit ELSE NoRadius
  /\ IF mode = "mounts" THEN MountsInit ELSE NoMounts
  /\ IF mode = "cycles" THEN CyclesInit ELSE NoCycles
  /\ IF mode = "domain" THEN Domain!Init ELSE NoDomain
  /\ IF mode = "rules" THEN RatchetInit ELSE NoRules

Next ==
  /\ UNCHANGED mode
  /\ \/ /\ mode = "changes" /\ ChangeNext
        /\ UNCHANGED <<radiusVars, mountVars, cycleVars, domainVars, ratchetVars>>
     \/ /\ mode = "radius" /\ RadiusNext
        /\ UNCHANGED <<changeVars, mountVars, cycleVars, domainVars, ratchetVars>>
     \/ /\ mode = "mounts" /\ MountsNext
        /\ UNCHANGED <<changeVars, radiusVars, cycleVars, domainVars, ratchetVars>>
     \/ /\ mode = "cycles" /\ CyclesNext
        /\ UNCHANGED <<changeVars, radiusVars, mountVars, domainVars, ratchetVars>>
     \/ /\ mode = "domain" /\ Domain!Next
        /\ UNCHANGED <<changeVars, radiusVars, mountVars, cycleVars, ratchetVars>>
     \/ /\ mode = "rules" /\ RatchetNext
        /\ UNCHANGED <<changeVars, radiusVars, mountVars, cycleVars, domainVars>>

Spec == Init /\ [][Next]_vars

-----------------------------------------------------------------------------
(* The properties of the modules instantiated, each about the behaviours of *)
(* its own operation; the module that is named states it and says what it   *)
(* is about.                                                                *)

WalkIsExact == mode = "domain" => Domain!WalkIsExact
=============================================================================
