--------------------------- MODULE MountPrefixes ---------------------------
(* The URL prefixes of mounted routers (src/analyzer/mounts.rs). A file is  *)
(* mounted by others under a prefix; its prefixes are those of the files    *)
(* that mount it, each followed by the prefix of the mount. They are        *)
(* searched depth first with a cache shared by all files, and a set of the  *)
(* files on the way that ends the search in a cycle.                        *)
(*                                                                          *)
(* A path is the sequence of its segments: "/" is the empty one.            *)
EXTENDS Integers, Sequences, FiniteSets, Functions

CONSTANTS
  Routers,      \* files, numbered in the order of the analysis
  MountLists,   \* mounts, in the order of the mounting files
  MaxPrefixes   \* MAX_PREFIXES

Mount == [parent : Routers, file : Routers, at : Seq(STRING)]

(* What is mounted is among the files, and a list of prefixes has a bound.  *)
MountsAssumption ==
  /\ Routers \subseteq Nat /\ IsFiniteSet(Routers)
  /\ MountLists \subseteq Seq(Mount)
  /\ MaxPrefixes \in Nat \ {0}

ASSUME MountsAssumption

VARIABLES
  mounts,   \* what the parsed files mount
  asking,   \* files whose prefixes have not been asked for
  cache,    \* prefixes by file
  calls,    \* the calls of prefixes() that have not returned, the last one first
  mounted   \* the prefixes joined to the endpoints, by file

mountVars == <<mounts, asking, cache, calls, mounted>>

(* The mounts of a file, by number; a file that mounts itself is left out.  *)
Incoming(file) == {k \in DOMAIN mounts : mounts[k].file = file /\ mounts[k].parent # file}

Lowest(numbers) == CHOOSE k \in numbers : \A j \in numbers : k <= j

NoPrefixes == [file \in {} |-> <<>>]
Put(lists, file, list) == [f \in DOMAIN lists \cup {file} |-> IF f = file THEN list ELSE lists[f]]

MountsInit ==
  /\ mounts \in MountLists /\ asking = Routers
  /\ cache = NoPrefixes /\ calls = <<>> /\ mounted = NoPrefixes

Entered == {calls[k].file : k \in DOMAIN calls}

JoinPaths(base, at) == base \o at

(* The prefixes a parent gives, in their order and without repetition. The  *)
(* limit ends the loop over this parent and no other.                       *)
WithPrefix(loop, path) ==
  IF loop.over THEN loop
  ELSE LET found == IF path \in Range(loop.found) THEN loop.found ELSE Append(loop.found, path)
       IN  [found |-> found, over |-> Len(found) >= MaxPrefixes]

Extended(collected, bases, at) ==
  LET Loop[k \in 0..Len(bases)] ==
        IF k = 0 THEN [found |-> collected, over |-> FALSE] ELSE WithPrefix(Loop[k - 1], JoinPaths(bases[k], at))
  IN  Loop[Len(bases)].found

(* A call: the mounts it has not followed, and what it has collected.       *)
Called(file) == [file |-> file, left |-> Incoming(file), collected |-> <<>>]
NextMount(call) == mounts[Lowest(call.left)]

(* The caller goes on with what the call for its mount has returned. *)
Resumed(call, bases) ==
  [file |-> call.file, left |-> call.left \ {Lowest(call.left)},
   collected |-> Extended(call.collected, bases, NextMount(call).at)]

Ask ==
  /\ calls = <<>> /\ asking # {}
  /\ LET file == Lowest(asking)
     IN  /\ asking' = asking \ {file}
         /\ \/ Incoming(file) = {} /\ UNCHANGED <<calls, mounted>>
            \/ /\ Incoming(file) # {} /\ file \in DOMAIN cache
               /\ mounted' = Put(mounted, file, cache[file]) /\ UNCHANGED calls
            \/ /\ Incoming(file) # {} /\ file \notin DOMAIN cache
               /\ calls' = <<Called(file)>> /\ UNCHANGED mounted
  /\ UNCHANGED <<mounts, cache>>

(* What a file without mounts is reachable under: itself. *)
Unmounted == << <<>> >>

(* Mutant of Follow: a file that is not mounted is reachable under nothing. *)
FollowToTheTop ==
  /\ calls # <<>> /\ Head(calls).left # {}
  /\ LET call == Head(calls)
         parent == NextMount(call).parent
     IN  \/ /\ parent \in DOMAIN cache
            /\ calls' = <<Resumed(call, cache[parent])>> \o Tail(calls) /\ UNCHANGED cache
         \/ /\ parent \notin DOMAIN cache /\ parent \in Entered
            /\ calls' = <<Resumed(call, <<>>)>> \o Tail(calls) /\ UNCHANGED cache
         \/ /\ parent \notin DOMAIN cache \cup Entered
            /\ calls' = <<Called(parent)>> \o calls /\ UNCHANGED cache
  /\ UNCHANGED <<mounts, asking, mounted>>

(* The next mount of the file: its parent is known, or being asked for,     *)
(* which gives nothing, or not mounted, or has to be asked for.             *)
Follow ==
  /\ calls # <<>> /\ Head(calls).left # {}
  /\ LET call == Head(calls)
         parent == NextMount(call).parent
     IN  \/ /\ parent \in DOMAIN cache
            /\ calls' = <<Resumed(call, cache[parent])>> \o Tail(calls)
            /\ UNCHANGED cache
         \/ /\ parent \notin DOMAIN cache /\ parent \in Entered
            /\ calls' = <<Resumed(call, <<>>)>> \o Tail(calls)
            /\ UNCHANGED cache
         \/ /\ parent \notin DOMAIN cache \cup Entered /\ Incoming(parent) = {}
            /\ calls' = <<Resumed(call, Unmounted)>> \o Tail(calls)
            /\ cache' = Put(cache, parent, Unmounted)
         \/ /\ parent \notin DOMAIN cache \cup Entered /\ Incoming(parent) # {}
            /\ calls' = <<Called(parent)>> \o calls
            /\ UNCHANGED cache
  /\ UNCHANGED <<mounts, asking, mounted>>

(* The last mount of the file: what was collected is kept and returned, to  *)
(* the caller or to be joined to the endpoints of the file.                 *)
Return ==
  /\ calls # <<>> /\ Head(calls).left = {}
  /\ LET call == Head(calls)
     IN  /\ cache' = Put(cache, call.file, call.collected)
         /\ \/ /\ Tail(calls) = <<>> /\ calls' = <<>>
               /\ mounted' = Put(mounted, call.file, call.collected)
            \/ /\ Tail(calls) # <<>> /\ UNCHANGED mounted
               /\ calls' = <<Resumed(calls[2], call.collected)>> \o Tail(Tail(calls))
  /\ UNCHANGED <<mounts, asking>>

MountsNext == Ask \/ Follow \/ Return

MountsSpec == MountsInit /\ [][MountsNext]_mountVars

-----------------------------------------------------------------------------
(* Properties *)

(* A way up from a file to one that is not mounted, over no file twice, as  *)
(* the mounts from the top down.                                            *)
IsWay(way, file) ==
  /\ way = <<>> => Incoming(file) = {}
  /\ way # <<>> => Incoming(way[1].parent) = {} /\ way[Len(way)].file = file
  /\ \A k \in DOMAIN way : k + 1 \in DOMAIN way => way[k].file = way[k + 1].parent
  /\ \A k \in DOMAIN way : way[k].parent # file
  /\ \A j, k \in DOMAIN way : way[j].parent = way[k].parent => j = k

Ways(file) == {way \in UNION {[1..n -> Range(mounts)] : n \in 0..(Cardinality(Routers) - 1)} : IsWay(way, file)}

Url(way) ==
  LET Upto[k \in 0..Len(way)] == IF k = 0 THEN <<>> ELSE JoinPaths(Upto[k - 1], way[k].at)
  IN  Upto[Len(way)]

UrlPrefixes(file) == {Url(way) : way \in Ways(file)}

(* Files above a file, itself only in a cycle. *)
ParentsOf(file) == {mounts[k].parent : k \in Incoming(file)}
Above(file) ==
  {g \in Routers : \A files \in SUBSET Routers :
     ParentsOf(file) \subseteq files /\ (\A f \in files : ParentsOf(f) \subseteq files) => g \in files}

InCycle(file) == file \in Above(file)

(* Every prefix is one of a chain of mounts that ends at a file that is not *)
(* mounted and passes through no file twice, in a cycle too.                *)
PrefixesAreChains ==
  \A file \in DOMAIN cache : Range(cache[file]) \subseteq UrlPrefixes(file)

(* A file that no cycle leads to is given the prefixes of all its chains,   *)
(* whatever the order of the files and of the answers already cached, as    *)
(* long as the limit has cut none of the lists it is drawn from.            *)
ChainsAreComplete ==
  \A file \in DOMAIN mounted :
    (\A f \in {file} \cup Above(file) : ~InCycle(f) /\ Cardinality(UrlPrefixes(f)) < MaxPrefixes)
    => Range(mounted[file]) = UrlPrefixes(file)

(* A prefix is joined to the endpoints of a file exactly when a chain of    *)
(* mounts leads there, no matter what was cached on the way to which file.  *)
PrefixesAreExact == PrefixesAreChains /\ ChainsAreComplete
=============================================================================
