---------------------------- MODULE ChangeRadius ----------------------------
(* The impact of a change (src/operations/workflow/change): from every seed *)
(* a breadth-first walk against the edges that couple, in the graph of the  *)
(* revision the seed belongs to, bounded in depth and in hits; the answer   *)
(* takes the hits of all seeds together and says whether a bound cut it.    *)
EXTENDS Integers, Sequences, FiniteSets, Functions

CONSTANTS
  Ids,       \* ids of nodes, the same in both revisions
  FileOf,    \* the file node of a node that is declared in one
  Grouping,  \* repository and package nodes
  Graphs,    \* the edges of the two revisions, by revision
  SeedLists, \* what changed
  Limits,    \* limits asked for
  Nothing    \* no node

Revisions == {"base", "candidate"}

ASSUME RadiusAssumption ==
  /\ DOMAIN FileOf \subseteq Ids /\ Range(FileOf) \subseteq Ids \ DOMAIN FileOf
  /\ Grouping \subseteq Ids /\ Nothing \notin Ids
  /\ \A g \in Graphs : /\ DOMAIN g = Revisions
                       /\ \A r \in Revisions :
                            g[r] \subseteq [from : Ids, to : Ids, couples : BOOLEAN]
  /\ SeedLists \subseteq Seq([node : Ids, revision : Revisions])
  /\ Limits \subseteq [depth : Nat, hits : Nat]

VARIABLES
  net, limit,  \* what was asked
  seeds,       \* what changed
  turn,        \* the number of the seed walked from
  visited,     \* nodes met from it
  queue,       \* nodes to expand, with their distances
  at, left,    \* the node being expanded and its edges still to look at
  hits,        \* what the walk of this seed has found
  witnesses,   \* what the walks of all seeds have found
  impacts,     \* the nodes among it, each once
  partial,     \* a walk was cut
  phase

ask == <<net, limit, seeds>>
radiusVars == <<ask, turn, visited, queue, at, left, hits, witnesses, impacts, partial, phase>>

RadiusInit ==
  /\ net \in Graphs /\ limit \in Limits /\ seeds \in SeedLists
  /\ turn = 0 /\ visited = {} /\ queue = <<>> /\ at = Nothing /\ left = {}
  /\ hits = <<>> /\ witnesses = {} /\ impacts = <<>> /\ partial = FALSE /\ phase = "seeds"

seed == seeds[turn]

(* Mutant of Searched: every seed is walked in the candidate. *)
SearchedNow == net["candidate"]

(* The graph the seed is walked in. *)
Searched == net[seed.revision]

StartSeed ==
  /\ phase = "seeds" /\ turn < Len(seeds)
  /\ turn' = turn + 1
  /\ visited' = {seeds[turn + 1].node}
  /\ queue' = <<[node |-> seeds[turn + 1].node, distance |-> 0]>>
  /\ hits' = <<>> /\ phase' = "walking"
  /\ UNCHANGED <<ask, at, left, witnesses, impacts, partial>>

Take ==
  /\ phase = "walking" /\ queue # <<>>
  /\ queue' = Tail(queue)
  /\ IF Head(queue).distance >= limit.depth THEN UNCHANGED <<at, left, phase>>
     ELSE /\ at' = Head(queue) /\ phase' = "expanding"
          /\ left' = {e \in Searched : e.to = Head(queue).node}
  /\ UNCHANGED <<ask, turn, visited, hits, witnesses, impacts, partial>>

Hit(node, distance) ==
  [seed |-> seed, node |-> node, distance |-> distance]

(* push_hit(): a node, and the file it is declared in, is one hit or two.   *)
Hits(node, distance) ==
  IF node \in DOMAIN FileOf THEN <<Hit(node, distance), Hit(FileOf[node], distance)>>
  ELSE <<Hit(node, distance)>>

(* A node is looked at while the hits are fewer than the limit.             *)
Room == Len(hits) < limit.hits

(* An edge that couples, from a node not met: it is met, and a hit unless   *)
(* it is a repository or a package, which are not walked through either.    *)
Look ==
  /\ phase = "expanding"
  /\ \E e \in left :
       LET node == e.from
           new == e.couples /\ node \notin visited
           hit == new /\ node \notin Grouping
       IN  /\ hit => Room
           /\ left' = left \ {e}
           /\ visited' = IF new THEN visited \cup {node} ELSE visited
           /\ hits' = IF hit THEN hits \o Hits(node, at.distance + 1) ELSE hits
           /\ queue' = IF hit THEN Append(queue, [node |-> node, distance |-> at.distance + 1])
                       ELSE queue
  /\ UNCHANGED <<ask, turn, at, witnesses, impacts, partial, phase>>

Expanded ==
  /\ phase = "expanding" /\ left = {}
  /\ at' = Nothing /\ phase' = "walking"
  /\ UNCHANGED <<ask, turn, visited, queue, left, hits, witnesses, impacts, partial>>

(* absorb(): the hits join those of the other seeds. A node that is hit     *)
(* again stays where it is.                                                 *)
Absorbed ==
  /\ witnesses' = witnesses \cup Range(hits)
  /\ LET absorbed[k \in 0..Len(hits)] ==
           IF k = 0 THEN impacts
           ELSE IF hits[k].node \in Range(absorbed[k - 1]) THEN absorbed[k - 1]
           ELSE Append(absorbed[k - 1], hits[k].node)
     IN  impacts' = absorbed[Len(hits)]

(* One hit too many ends the walk of this seed, and of no other.            *)
CutOff ==
  /\ phase = "expanding" /\ ~Room
  /\ \E e \in left : e.couples /\ e.from \notin visited \cup Grouping
  /\ Absorbed /\ partial' = TRUE
  /\ phase' = "seeds" /\ at' = Nothing /\ left' = {} /\ queue' = <<>>
  /\ UNCHANGED <<ask, turn, visited, hits>>

Walk ==
  /\ phase = "walking" /\ queue = <<>>
  /\ Absorbed /\ UNCHANGED partial
  /\ phase' = "seeds"
  /\ UNCHANGED <<ask, turn, visited, queue, at, left, hits>>

Answer ==
  /\ phase = "seeds" /\ turn = Len(seeds)
  /\ phase' = "answered"
  /\ UNCHANGED <<ask, turn, visited, queue, at, left, hits, witnesses, impacts, partial>>

RadiusNext == StartSeed \/ Take \/ Look \/ Expanded \/ CutOff \/ Walk \/ Answer

RadiusSpec == RadiusInit /\ [][RadiusNext]_radiusVars

-----------------------------------------------------------------------------
(* Properties *)

(* What depends on a node within so many steps, in a revision.              *)
Dependents(edges, node, depth) ==
  LET Nearer[k \in 0..depth] ==
        IF k = 0 THEN {node}
        ELSE LET near == Nearer[k - 1]
             IN  near \cup {e.from : e \in {d \in edges : d.couples /\ d.to \in near
                                                         /\ d.from \notin Grouping}}
  IN  Nearer[depth]

WithFiles(nodes) == nodes \cup {FileOf[n] : n \in nodes \cap DOMAIN FileOf}

(* A hit depends on its seed in the revision of the seed, at the distance   *)
(* it is shown with and not nearer; a file is shown for what it declares.   *)
HitsAreDependents ==
  \A hit \in witnesses :
    LET Near(distance) == Dependents(net[hit.seed.revision], hit.seed.node, distance)
                            \ {hit.seed.node}
        Exact == Near(hit.distance) \ Near(hit.distance - 1)
    IN  hit.distance \in 1..limit.depth /\ hit.node \in WithFiles(Exact)

(* An answer that is not partial has all dependents of every seed with the  *)
(* files they are declared in, those as well that an earlier seed had met,  *)
(* each in the revision of its seed.                                        *)
UncutIsWhole ==
  phase = "answered" /\ ~partial =>
    \A k \in DOMAIN seeds :
      LET found == Dependents(net[seeds[k].revision], seeds[k].node, limit.depth)
                     \ {seeds[k].node}
      IN  {hit.node : hit \in {h \in witnesses : h.seed = seeds[k]}} = WithFiles(found)

(* The nodes of the answer are those of the witnesses, each once, whichever *)
(* seeds and revisions they were met from.                                  *)
ImpactsAreWitnessed ==
  /\ Range(impacts) = {hit.node : hit \in witnesses}
  /\ \A j, k \in DOMAIN impacts : impacts[j] = impacts[k] => j = k

(* The radius is what depends on the seeds, each in its own revision, and   *)
(* says so where it is not all of it.                                       *)
RadiusIsExact == HitsAreDependents /\ UncutIsWhole /\ ImpactsAreWitnessed
=============================================================================
