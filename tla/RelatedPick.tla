---------------------------- MODULE RelatedPick ----------------------------
(* pick_related (src/operations/graph/related.rs): which of the nodes       *)
(* around a subject context_bundle shows. One pass over the edges per       *)
(* category, each with a quota, and every node at most once.                *)
EXTENDS Integers, Sequences, FiniteSets, Functions

CONSTANTS
  Subject,     \* the node looked at
  Others,      \* nodes around it
  EdgeLists,   \* edges at the subject: the incoming ones, then the outgoing
  TestSets,    \* which of the nodes are tests
  Intents,     \* what the caller is after
  Limits       \* how many nodes may be shown

Edge == [incoming : BOOLEAN, other : Others \cup {Subject},
         kind : {"calls", "implements", "contains"}]

ASSUME RelatedAssumption ==
  /\ Subject \notin Others
  /\ EdgeLists \subseteq Seq(Edge) /\ TestSets \subseteq SUBSET Others
  /\ \A list \in EdgeLists : \A i, j \in DOMAIN list :
       i < j /\ list[j].incoming => list[i].incoming
  /\ Intents \subseteq {"callers", "callees", "any"} /\ Limits \subseteq Nat \ {0}

VARIABLES
  incident, tests, intent, max,  \* what was asked
  bucket,                        \* the category of this pass
  pos,                           \* the edge looked at next
  taken,                         \* nodes picked in this pass
  used,                          \* nodes not to be looked at again
  picks                          \* the answer

question == <<incident, tests, intent, max>>
pickVars == <<question, bucket, pos, taken, used, picks>>

Buckets == <<"caller", "callee", "contract", "test", "other">>

(* The quotas of the passes; an intent gives its own side the most. *)
Quotas ==
  CASE intent = "callers" -> <<max \div 2 + 1, 1, 1, 1, 1>>
    [] intent = "callees" -> <<1, max \div 2 + 1, 1, 1, 1>>
    [] intent = "any"     -> <<2, 2, 1, 1, max>>

Classify(edge) ==
  CASE edge.kind = "calls"      -> IF edge.incoming THEN "caller" ELSE "callee"
    [] edge.kind = "implements" -> "contract"
    [] edge.kind = "contains"   -> IF edge.other \in tests THEN "test" ELSE "other"

PickInit ==
  /\ incident \in EdgeLists /\ tests \in TestSets /\ intent \in Intents /\ max \in Limits
  /\ bucket = 1 /\ pos = 1 /\ taken = 0 /\ used = {} /\ picks = <<>>

Done == bucket > Len(Buckets)

(* Mutant of PassOver: a pass ends at the limit of the answer only. *)
PassOverAtLimit == pos > Len(incident) \/ Len(picks) >= max

(* The pass is over: its quota or the limit is reached, or all edges seen.  *)
PassOver == pos > Len(incident) \/ taken >= Quotas[bucket] \/ Len(picks) >= max

(* An edge is looked at: its node is marked as used before its category is  *)
(* compared with the one of the pass.                                       *)
Consider ==
  /\ ~Done /\ ~PassOver
  /\ LET edge == incident[pos]
     IN  IF edge.other = Subject \/ edge.other \in used
         THEN UNCHANGED <<used, picks, taken>>
         ELSE /\ used' = used \cup {edge.other}
              /\ IF Classify(edge) = Buckets[bucket]
                 THEN /\ picks' = Append(picks, [other |-> edge.other,
                                                 category |-> Buckets[bucket]])
                      /\ taken' = taken + 1
                 ELSE UNCHANGED <<picks, taken>>
  /\ pos' = pos + 1
  /\ UNCHANGED <<question, bucket>>

NextPass ==
  /\ ~Done /\ PassOver
  /\ bucket' = bucket + 1 /\ pos' = 1 /\ taken' = 0
  /\ UNCHANGED <<question, used, picks>>

PickNext == Consider \/ NextPass

PickSpec == PickInit /\ [][PickNext]_pickVars

-----------------------------------------------------------------------------
(* Properties *)

Picked(category) == {k \in DOMAIN picks : picks[k].category = category}

(* Nodes all of whose edges are of one category. *)
OnlyAs(category) ==
  {n \in Others : /\ \E k \in DOMAIN incident : incident[k].other = n
                 /\ \A k \in DOMAIN incident : incident[k].other = n
                                               => Classify(incident[k]) = category}

(* A node is shown once, however many edges join it to the subject, and     *)
(* never more nodes than were asked for.                                    *)
EachNodeOnce ==
  /\ \A j, k \in DOMAIN picks : picks[j].other = picks[k].other => j = k
  /\ \A k \in DOMAIN picks : picks[k].other # Subject
  /\ Len(picks) <= max

(* When at least as many callers as their quota call the subject, a callee  *)
(* keeps its place in the answer: the pass for the callers has not gone as  *)
(* far as the outgoing edges.                                               *)
BusyCallersLeaveACallee ==
  Done /\ max > Quotas[1] /\ Cardinality(OnlyAs("caller")) >= Quotas[1]
  /\ OnlyAs("callee") # {} => Picked("callee") # {}

(* What is shown around a subject: nodes, each once, and not callers alone. *)
BundleIsFair == EachNodeOnce /\ BusyCallersLeaveACallee

(* "context_bundle keeps caller, callee, contract, and test quotas so a     *)
(* large fan-in cannot hide one important callee" (README.md): a node that  *)
(* is a callee and nothing else is not hidden while the quotas leave room.  *)
QuotasAreKept ==
  Done /\ max > Quotas[1] /\ OnlyAs("callee") # {} => Picked("callee") # {}
=============================================================================
