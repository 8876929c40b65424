------------------------------ MODULE AbiTrace ------------------------------
(* web3_trace (src/operations/web3/mod.rs): what is within `depth` edges of *)
(* a node, in either direction, one page after another. A client follows    *)
(* the cursor of a page while the repository may be read again.             *)
EXTENDS Integers, Sequences, FiniteSets, SequencesExt, FiniteSetsExt

CONSTANTS
  Questions,  \* graphs by revision, the seed, the depth and the page size
  Nothing     \* no answer

VARIABLES
  given,  \* the graphs and the arguments
  state   \* the loaded revision, the walk, the pages the client has

vars == <<given, state>>

Step(node, hop) == [node |-> node, hop |-> hop]

Started(at) == [at EXCEPT !.at = "walk", !.steps = <<Step(given.seed, 0)>>,
                          !.frontier = <<Step(given.seed, 0)>>, !.cut = FALSE]

Init ==
  /\ given \in Questions
  /\ state = [at |-> "called", loaded |-> 1, offset |-> 0, bound |-> Nothing,
              steps |-> <<>>, frontier |-> <<>>, cut |-> FALSE,
              page |-> Nothing, pages |-> <<>>, from |-> Nothing]

Edges == given.graphs[state.loaded]

-----------------------------------------------------------------------------

(* page_offset_for(): a cursor that names another revision is refused.      *)
Begin ==
  /\ state.at = "called"
  /\ state' = IF state.bound \in {Nothing, state.loaded} THEN Started(state)
              ELSE [state EXCEPT !.at = "refused"]
  /\ UNCHANGED given

Touches(edge, node) == node \in {edge.from, edge.to}

(* An edge that leads on from a node at the limit, past the one it was      *)
(* found from.                                                              *)
LeadsOn(node, id) == \E edge \in Range(Edges) : Touches(edge, node) /\ ~Touches(edge, id)

(* walk_steps(): one node, the last one found, and the edges in their order.*)
Visit(last) ==
  FoldLeft(LAMBDA walk, edge :
             LET other == IF edge.from = last.node THEN edge.to ELSE edge.from
                 step == Step(other, last.hop + 1)
             IN  IF ~Touches(edge, last.node) \/ \E s \in Range(walk.steps) : s.node = other THEN walk
                 ELSE [walk EXCEPT
                         !.steps = Append(@, step), !.frontier = Append(@, step),
                         !.cut = @ \/ (step.hop = given.depth /\ LeadsOn(other, last.node))],
           [state EXCEPT !.frontier = Front(@)], Edges)

Walk ==
  /\ state.at = "walk" /\ state.frontier # <<>>
  /\ LET last == Last(state.frontier)
     IN  state' = IF last.hop >= given.depth THEN [state EXCEPT !.frontier = Front(@)] ELSE Visit(last)
  /\ UNCHANGED given

Answer ==
  /\ state.at = "walk" /\ state.frontier = <<>>
  /\ LET total == Len(state.steps)
         end == Min({state.offset + given.max, total})
         page == [steps |-> SubSeq(state.steps, state.offset + 1, end), end |-> end, more |-> end < total,
                  truncated |-> state.cut \/ end < total]
     IN  state' = [state EXCEPT !.at = "answered", !.page = page, !.pages = Append(@, page.steps),
                                !.from = IF @ = Nothing THEN state.loaded ELSE @]
  /\ UNCHANGED given

(* The repository is read again between two calls.                          *)
Reload ==
  /\ state.at = "answered" /\ state.loaded < Len(given.graphs)
  /\ state' = [state EXCEPT !.at = "reloaded", !.bound = state.loaded, !.loaded = @ + 1]
  /\ UNCHANGED given

(* The client goes on with the cursor of the page it was given.             *)
Continue ==
  /\ state.at \in {"answered", "reloaded"} /\ state.page.more
  /\ state' = [state EXCEPT !.at = "called", !.offset = state.page.end,
                            !.bound = IF state.at = "answered" THEN state.loaded ELSE @]
  /\ UNCHANGED given

Next == Begin \/ Walk \/ Answer \/ Reload \/ Continue

-----------------------------------------------------------------------------
(* Properties *)

(* The nodes at most n edges away.                                          *)
Within[n \in Nat] ==
  IF n = 0 THEN {given.seed}
  ELSE Within[n - 1] \cup UNION {{e.from, e.to} : e \in {e \in Range(Edges) : \E m \in Within[n - 1] : Touches(e, m)}}

Found == {s.node : s \in Range(state.steps)}

(* A node is listed once, no nearer than it is; an answer that is not       *)
(* truncated holds everything that is connected to the seed; and the pages  *)
(* a client has put together are one walk of one revision, however often    *)
(* the repository was read between them.                                    *)
TraceIsHonest ==
  state.at = "answered" =>
    /\ Cardinality(Found) = Len(state.steps)
    /\ \A s \in Range(state.steps) : s.node \in Within[s.hop] /\ s.hop <= given.depth
    /\ ~state.cut => Within[Len(Edges)] = Found
    /\ ~state.page.truncated => FlattenSeq(state.pages) = state.steps
    /\ state.from = state.loaded /\ FlattenSeq(state.pages) = SubSeq(state.steps, 1, state.page.end)

(* Everything within `depth` edges is a step (CHANGELOG.md:85 "`web3_trace` *)
(* walks the requested depth").                                             *)
DepthIsWalked == state.at = "answered" => Within[given.depth] \subseteq Found
=============================================================================
