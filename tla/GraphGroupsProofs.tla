------------------------- MODULE GraphGroupsProofs --------------------------
(* Nodes in groups: those a context bundle shows around a subject, the      *)
(* communities of the whole graph, and the cycles of files that need one    *)
(* another; for every graph, limit and intent, and every order in which the *)
(* edges are looked at.                                                     *)
EXTENDS RelatedPick, CoupledComponents, RuntimeCycles, DataInduction, FiniteSetTheorems

-----------------------------------------------------------------------------
(* context_bundle: each node once, and not callers alone.                   *)

Shown == {picks[k].other : k \in DOMAIN picks}

PickTypes ==
  /\ incident \in EdgeLists /\ tests \in TestSets /\ intent \in Intents /\ max \in Limits
  /\ bucket \in 1..6 /\ pos \in 1..(Len(incident) + 1) /\ taken \in Nat
  /\ used \subseteq Others
  /\ picks \in Seq([other : Others, category : {"caller", "callee", "contract", "test", "other"}])

(* Every node shown is marked as used, so that none is picked again.        *)
ShownAreUsed ==
  /\ Shown \subseteq used
  /\ \A j, k \in DOMAIN picks : picks[j].other = picks[k].other => j = k
  /\ Len(picks) <= max

(* In the pass for the callers, exactly what was taken is shown, and no     *)
(* node is passed over that is a caller and nothing else.                   *)
CallersAreTaken ==
  bucket = 1 =>
    /\ Len(picks) = taken /\ taken <= Quotas[1]
    /\ used \cap OnlyAs("caller") \subseteq Shown
    /\ \A k \in 1..(pos - 1) : incident[k].other \in used \cup {Subject}

(* What is asked leaves room behind the callers, and there are enough of    *)
(* them to end their pass.                                                  *)
CallersAreBusy == max > Quotas[1] /\ Cardinality(OnlyAs("caller")) >= Quotas[1]

(* Until a callee is shown no node is used that is a callee and nothing     *)
(* else: the first pass has not come to the outgoing edges, and the second  *)
(* has met none of these nodes.                                             *)
CalleesAreKept ==
  CallersAreBusy =>
    \/ Picked("callee") # {}
    \/ OnlyAs("callee") = {}
    \/ /\ bucket = 1 /\ used \cap OnlyAs("callee") = {}
       /\ \A k \in 1..(pos - 1) : incident[k].incoming
    \/ /\ bucket = 2 /\ taken = 0 /\ Len(picks) <= Quotas[1]
       /\ used \cap OnlyAs("callee") = {}
       /\ \A k \in 1..(pos - 1) : incident[k].other \notin OnlyAs("callee")

PickInv == PickTypes /\ ShownAreUsed /\ CallersAreTaken /\ CalleesAreKept

(* The quotas are numbers, and every pass may take something.               *)
LEMMA QuotaTypes ==
  ASSUME PickTypes
  PROVE  /\ \A b \in 1..5 : Quotas[b] \in Nat \ {0}
         /\ Len(Buckets) = 5
         /\ \A b \in 1..5 : Buckets[b] \in {"caller", "callee", "contract", "test", "other"}
<1>1. max \in Nat \ {0} /\ intent \in {"callers", "callees", "any"}
  BY RelatedAssumption DEF PickTypes
<1>2. max \div 2 + 1 \in Nat \ {0}
  BY <1>1
<1>3. \A b \in 1..5 : Quotas[b] \in Nat \ {0}
  <2> SUFFICES ASSUME NEW b \in 1..5 PROVE Quotas[b] \in Nat \ {0}
    OBVIOUS
  <2> DEFINE half == max \div 2 + 1
  <2>1. half \in Nat \ {0}
    BY <1>2
  <2> HIDE DEF half
  <2>2. Quotas = CASE intent = "callers" -> <<half, 1, 1, 1, 1>>
                   [] intent = "callees" -> <<1, half, 1, 1, 1>>
                   [] intent = "any"     -> <<2, 2, 1, 1, max>>
    BY DEF Quotas, half
  <2>3. CASE intent = "callers"
    BY <2>1, <2>2, <2>3
  <2>4. CASE intent = "callees"
    BY <2>1, <2>2, <2>4
  <2>5. CASE intent = "any"
    BY <1>1, <2>2, <2>5
  <2> QED
    BY <1>1, <2>3, <2>4, <2>5
<1>4. Len(Buckets) = 5 /\ \A b \in 1..5 : Buckets[b] \in {"caller", "callee", "contract", "test", "other"}
  BY DEF Buckets
<1> QED
  BY <1>3, <1>4

(* There are five passes. *)
LEMMA Passes ==
  ASSUME PickTypes
  PROVE  Done <=> bucket = 6
<1>1. Len(Buckets) = 5
  BY DEF Buckets
<1> QED
  BY <1>1 DEF PickTypes, Done

LEMMA PickStarts == PickInit => PickInv
<1> SUFFICES ASSUME PickInit PROVE PickInv
  OBVIOUS
<1>1. PickTypes
  <2>1. Len(incident) \in Nat
    BY RelatedAssumption DEF PickInit
  <2>2. \A b \in 1..1 : pos \in 1..(Len(incident) + 1)
    BY <2>1 DEF PickInit
  <2> QED
    BY <2>2 DEF PickInit, PickTypes
<1>2. Quotas[1] \in Nat
  BY <1>1, QuotaTypes
<1>3. max \in Nat
  BY <1>1, RelatedAssumption DEF PickTypes
<1>4. ShownAreUsed /\ CallersAreTaken
  BY <1>2, <1>3 DEF PickInit, ShownAreUsed, CallersAreTaken, Shown
<1>5. CalleesAreKept
  BY DEF PickInit, CalleesAreKept
<1> QED
  BY <1>1, <1>4, <1>5 DEF PickInv

-----------------------------------------------------------------------------
(* Steps *)

(* What was asked stays what it is. *)
LEMMA QuestionStays ==
  ASSUME UNCHANGED question
  PROVE  /\ Quotas' = Quotas /\ \A c : OnlyAs(c)' = OnlyAs(c)
         /\ CallersAreBusy' <=> CallersAreBusy
<1>1. incident' = incident /\ tests' = tests /\ intent' = intent /\ max' = max
  BY DEF question
<1>2. Quotas' = Quotas
  BY <1>1 DEF Quotas
<1>3. \A c : OnlyAs(c)' = OnlyAs(c)
  BY <1>1 DEF OnlyAs, Classify
<1> QED
  BY <1>1, <1>2, <1>3 DEF CallersAreBusy

(* An edge of a listed node. *)
LEMMA EdgeTypes ==
  ASSUME PickTypes
  PROVE  /\ Len(incident) \in Nat /\ DOMAIN incident = 1..Len(incident)
         /\ \A k \in DOMAIN incident : incident[k] \in Edge
         /\ max \in Nat \ {0}
         /\ Len(picks) \in Nat /\ DOMAIN picks = 1..Len(picks)
  BY RelatedAssumption DEF PickTypes

(* No more nodes are shown than there are entries. *)
LEMMA ShownAreFew ==
  ASSUME PickTypes
  PROVE  IsFiniteSet(Shown) /\ Cardinality(Shown) <= Len(picks)
<1> DEFINE f == [k \in 1..Len(picks) |-> picks[k].other]
<1>1. Len(picks) \in Nat /\ DOMAIN picks = 1..Len(picks)
  BY EdgeTypes
<1>2. f \in Surjection(1..Len(picks), Shown)
  BY <1>1 DEF Shown, Surjection
<1>3. IsFiniteSet(1..Len(picks)) /\ Cardinality(1..Len(picks)) = Len(picks)
  <2>1. /\ IsFiniteSet(1..Len(picks))
        /\ Cardinality(1..Len(picks)) = IF 1 > Len(picks) THEN 0 ELSE Len(picks) - 1 + 1
    BY <1>1, FS_Interval
  <2> QED
    BY <1>1, <2>1
<1> QED
  BY <1>2, <1>3, FS_Surjection

(* The pass for busy callers ends before the outgoing edges: behind the     *)
(* incoming ones every node that is a caller and nothing else has been      *)
(* taken, and there are as many of them as the quota.                       *)
LEMMA OutgoingEdgesWait ==
  ASSUME PickInv, CallersAreBusy, bucket = 1, ~PassOver
  PROVE  incident[pos].incoming
<1> SUFFICES ASSUME ~incident[pos].incoming
             PROVE  FALSE
  OBVIOUS
<1>1. /\ PickTypes /\ Len(picks) = taken /\ used \cap OnlyAs("caller") \subseteq Shown
      /\ \A k \in 1..(pos - 1) : incident[k].other \in used \cup {Subject}
  BY DEF PickInv, CallersAreTaken
<1>a. pos \in DOMAIN incident /\ taken \in Nat /\ Quotas[1] \in Nat /\ taken < Quotas[1]
  BY <1>1, EdgeTypes, QuotaTypes DEF PickTypes, PassOver
<1>b. OnlyAs("caller") \subseteq Others /\ Subject \notin Others
  BY RelatedAssumption DEF OnlyAs
<1>2. \A k \in DOMAIN incident : Classify(incident[k]) = "caller" => incident[k].incoming
  BY <1>1, EdgeTypes DEF Classify, Edge
<1>3. \A k \in DOMAIN incident : k > pos => ~incident[k].incoming
  BY <1>1, <1>a, RelatedAssumption DEF PickTypes
<1>4. OnlyAs("caller") \subseteq Shown
  <2> SUFFICES ASSUME NEW n \in OnlyAs("caller") PROVE n \in Shown
    OBVIOUS
  <2>1. PICK k \in DOMAIN incident : incident[k].other = n /\ Classify(incident[k]) = "caller"
    BY DEF OnlyAs
  <2>2. k \in 1..(pos - 1)
    BY <1>1, <1>a, <1>2, <1>3, <2>1, EdgeTypes DEF PickTypes
  <2> QED
    BY <1>1, <1>b, <2>1, <2>2
<1>5. Cardinality(OnlyAs("caller")) <= taken
  <2>1. /\ IsFiniteSet(OnlyAs("caller"))
        /\ Cardinality(OnlyAs("caller")) <= Cardinality(Shown)
    BY <1>1, <1>4, ShownAreFew, FS_Subset
  <2>2. Cardinality(OnlyAs("caller")) \in Nat /\ Cardinality(Shown) \in Nat
    BY <1>1, <2>1, ShownAreFew, FS_CardinalityType
  <2> QED
    BY <1>1, <2>1, <2>2, ShownAreFew
<1>6. Cardinality(OnlyAs("caller")) \in Nat
  BY <1>1, <1>4, ShownAreFew, FS_Subset, FS_CardinalityType
<1> QED
  BY <1>a, <1>5, <1>6 DEF CallersAreBusy

(* A node is passed over. *)
LEMMA SkipKeeps ==
  ASSUME PickInv, Consider, incident[pos].other = Subject \/ incident[pos].other \in used
  PROVE  PickInv'
<1>1. /\ UNCHANGED <<question, bucket, used, picks, taken>> /\ pos' = pos + 1
      /\ UNCHANGED <<incident, max>> /\ PickTypes
  BY DEF Consider, PickInv, question
<1>a. pos \in DOMAIN incident /\ pos \in Nat /\ pos' - 1 = pos
  BY <1>1, EdgeTypes DEF Consider, PickTypes, PassOver
<1>2. Shown' = Shown /\ \A c : Picked(c)' = Picked(c)
  BY <1>1 DEF Shown, Picked
<1>3. PickTypes'
  <2>1. pos' \in 1..(Len(incident) + 1)
    BY <1>1, <1>a, EdgeTypes
  <2> QED
    BY <1>1, <2>1 DEF PickTypes, question
<1>4. ShownAreUsed'
  BY <1>1, <1>2 DEF PickInv, ShownAreUsed
<1>5. \A k \in 1..(pos' - 1) : k \in 1..(pos - 1) \/ k = pos
  BY <1>1 DEF PickTypes
<1>6. CallersAreTaken'
  BY <1>1, <1>2, <1>5, QuestionStays DEF PickInv, CallersAreTaken
<1>7. CalleesAreKept'
  <2> SUFFICES ASSUME CallersAreBusy, Picked("callee") = {}, OnlyAs("callee") # {}
               PROVE  \/ /\ bucket = 1 /\ used \cap OnlyAs("callee") = {}
                         /\ \A k \in 1..(pos' - 1) : incident[k].incoming
                      \/ /\ bucket = 2 /\ taken = 0 /\ Len(picks) <= Quotas[1]
                         /\ used \cap OnlyAs("callee") = {}
                         /\ \A k \in 1..(pos' - 1) : incident[k].other \notin OnlyAs("callee")
    BY <1>1, <1>2, QuestionStays DEF CalleesAreKept
  <2>1. CASE bucket = 1
    BY <1>1, <1>5, <2>1, OutgoingEdgesWait DEF PickInv, CalleesAreKept, Consider
  <2>2. CASE bucket # 1
    <3>1. incident[pos].other \notin OnlyAs("callee")
      BY <2>2, RelatedAssumption DEF PickInv, CalleesAreKept, OnlyAs
    <3> QED
      BY <1>1, <1>5, <2>2, <3>1 DEF PickInv, CalleesAreKept
  <2> QED
    BY <2>1, <2>2
<1> QED
  BY <1>3, <1>4, <1>6, <1>7 DEF PickInv

(* What looking at an edge of a node that is not used yet does in any case. *)
LEMMA FreshNode ==
  ASSUME PickInv, Consider, incident[pos].other # Subject, incident[pos].other \notin used
  PROVE  /\ pos \in DOMAIN incident /\ incident[pos] \in Edge /\ incident[pos].other \in Others
         /\ pos' \in 1..(Len(incident) + 1) /\ pos' = pos + 1
         /\ \A k \in 1..(pos' - 1) : k \in 1..(pos - 1) \/ k = pos
         /\ used' = used \cup {incident[pos].other} /\ UNCHANGED <<question, bucket>>
         /\ bucket \in 1..5 /\ taken < Quotas[bucket] /\ Len(picks) < max /\ ~PassOver
<1>1. PickTypes
  BY DEF PickInv
<1>2. pos \in DOMAIN incident /\ pos \in 1..Len(incident) /\ Len(incident) \in Nat
  BY <1>1, EdgeTypes DEF Consider, PickTypes, PassOver
<1>3. incident[pos] \in Edge /\ incident[pos].other \in Others
  BY <1>1, <1>2, EdgeTypes DEF Edge
<1>4. bucket \in 1..5
  BY <1>1, Passes DEF Consider, PickTypes
<1>5. taken < Quotas[bucket] /\ Len(picks) < max /\ ~PassOver
  <2>1. ~PassOver
    BY DEF Consider
  <2>2. Quotas[bucket] \in Nat /\ taken \in Nat /\ Len(picks) \in Nat /\ max \in Nat
    BY <1>1, <1>4, EdgeTypes, QuotaTypes DEF PickTypes
  <2> QED
    BY <2>1, <2>2 DEF PassOver
<1>6. used' = used \cup {incident[pos].other} /\ pos' = pos + 1 /\ UNCHANGED <<question, bucket>>
  BY DEF Consider
<1> QED
  BY <1>2, <1>3, <1>4, <1>5, <1>6

(* A node that is nothing but a callee is not met in the first pass of busy *)
(* callers, and when it is met its edge is that of a callee.                *)
LEMMA CalleeIsMet ==
  ASSUME PickInv, Consider, incident[pos].other # Subject, incident[pos].other \notin used,
         CallersAreBusy, incident[pos].other \in OnlyAs("callee")
  PROVE  bucket # 1 /\ Classify(incident[pos]) = "callee"
<1>1. pos \in DOMAIN incident /\ incident[pos] \in Edge /\ ~PassOver
  BY FreshNode
<1>2. Classify(incident[pos]) = "callee"
  BY <1>1 DEF OnlyAs
<1>3. ~incident[pos].incoming
  BY <1>1, <1>2 DEF Classify, Edge
<1> QED
  BY <1>1, <1>2, <1>3, OutgoingEdgesWait

(* A node is marked as used in the pass of another category.                *)
LEMMA MarkKeeps ==
  ASSUME PickInv, Consider, incident[pos].other # Subject, incident[pos].other \notin used,
         Classify(incident[pos]) # Buckets[bucket]
  PROVE  PickInv'
<1> DEFINE newcomer == incident[pos].other
<1>1. /\ UNCHANGED <<question, bucket, picks, taken>> /\ UNCHANGED <<incident, max>>
      /\ PickTypes /\ pos \in DOMAIN incident /\ newcomer \in Others /\ used' = used \cup {newcomer}
      /\ pos' \in 1..(Len(incident) + 1)
      /\ \A k \in 1..(pos' - 1) : k \in 1..(pos - 1) \/ k = pos
  BY FreshNode DEF Consider, PickInv, question
<1>2. Shown' = Shown /\ \A c : Picked(c)' = Picked(c)
  BY <1>1 DEF Shown, Picked
<1>3. PickTypes'
  BY <1>1 DEF PickTypes, question
<1>4. ShownAreUsed'
  BY <1>1, <1>2 DEF PickInv, ShownAreUsed
<1>5. bucket = 1 => newcomer \notin OnlyAs("caller")
  BY <1>1 DEF OnlyAs, Buckets
<1>6. CallersAreTaken'
  BY <1>1, <1>2, <1>5, QuestionStays DEF PickInv, CallersAreTaken
<1>7. CalleesAreKept'
  <2> SUFFICES ASSUME CallersAreBusy, Picked("callee") = {}, OnlyAs("callee") # {}
               PROVE  \/ /\ bucket = 1 /\ used' \cap OnlyAs("callee") = {}
                         /\ \A k \in 1..(pos' - 1) : incident[k].incoming
                      \/ /\ bucket = 2 /\ taken = 0 /\ Len(picks) <= Quotas[1]
                         /\ used' \cap OnlyAs("callee") = {}
                         /\ \A k \in 1..(pos' - 1) : incident[k].other \notin OnlyAs("callee")
    BY <1>1, <1>2, QuestionStays DEF CalleesAreKept
  <2>1. bucket \in {1, 2}
    BY DEF PickInv, CalleesAreKept
  <2>2. newcomer \notin OnlyAs("callee")
    BY <2>1, CalleeIsMet DEF Buckets
  <2>3. CASE bucket = 1
    <3>1. incident[pos].incoming /\ \A k \in 1..(pos - 1) : incident[k].incoming
      BY <2>3, FreshNode, OutgoingEdgesWait DEF PickInv, CalleesAreKept
    <3> QED
      BY <1>1, <2>2, <2>3, <3>1 DEF PickInv, CalleesAreKept
  <2>4. CASE bucket = 2
    <3>1. /\ taken = 0 /\ Len(picks) <= Quotas[1] /\ used \cap OnlyAs("callee") = {}
          /\ \A k \in 1..(pos - 1) : incident[k].other \notin OnlyAs("callee")
      BY <2>4 DEF PickInv, CalleesAreKept
    <3> QED
      BY <1>1, <2>2, <2>4, <3>1
  <2> QED
    BY <2>1, <2>3, <2>4
<1> QED
  BY <1>3, <1>4, <1>6, <1>7 DEF PickInv

(* A node is picked. *)
LEMMA PickKeeps ==
  ASSUME PickInv, Consider, incident[pos].other # Subject, incident[pos].other \notin used,
         Classify(incident[pos]) = Buckets[bucket]
  PROVE  PickInv'
<1> DEFINE newcomer == incident[pos].other
           pick == [other |-> newcomer, category |-> Buckets[bucket]]
<1>1. /\ UNCHANGED <<question, bucket>> /\ UNCHANGED <<incident, max>>
      /\ PickTypes /\ pos \in DOMAIN incident /\ newcomer \in Others /\ used' = used \cup {newcomer}
      /\ pos' \in 1..(Len(incident) + 1) /\ bucket \in 1..5
      /\ \A k \in 1..(pos' - 1) : k \in 1..(pos - 1) \/ k = pos
      /\ taken < Quotas[bucket] /\ Len(picks) < max /\ taken' = taken + 1
  BY FreshNode DEF Consider, PickInv, question
<1>2. picks' = Append(picks, pick)
  BY DEF Consider
<1>3. pick \in [other : Others, category : {"caller", "callee", "contract", "test", "other"}]
  BY <1>1, QuotaTypes
<1>4. /\ Len(picks) \in Nat /\ taken \in Nat /\ Len(picks') = Len(picks) + 1
      /\ DOMAIN picks = 1..Len(picks) /\ DOMAIN picks' = 1..Len(picks')
      /\ \A k \in DOMAIN picks : k \in DOMAIN picks' /\ picks'[k] = picks[k]
      /\ Len(picks') \in DOMAIN picks' /\ picks'[Len(picks')] = pick
      /\ \A k \in DOMAIN picks' : k \in DOMAIN picks \/ k = Len(picks')
  BY <1>1, <1>2, <1>3 DEF PickTypes
<1> HIDE DEF pick
<1>5. Shown' = Shown \cup {newcomer} /\ \A c : Picked(c) \subseteq Picked(c)'
  <2>1. pick.other = newcomer
    BY DEF pick
  <2> QED
    BY <1>4, <2>1 DEF Shown, Picked
<1>6. PickTypes'
  <2>1. picks' \in Seq([other : Others, category : {"caller", "callee", "contract", "test", "other"}])
    BY <1>1, <1>2, <1>3 DEF PickTypes
  <2> QED
    BY <1>1, <1>4, <2>1 DEF PickTypes, question
<1>7. ShownAreUsed'
  <2>1. pick.other = newcomer /\ max \in Nat
    BY <1>1, EdgeTypes DEF pick
  <2>2. newcomer \notin Shown
    BY DEF PickInv, ShownAreUsed
  <2>3. ASSUME NEW j \in DOMAIN picks', NEW k \in DOMAIN picks', picks'[j].other = picks'[k].other
        PROVE  j = k
    BY <1>4, <2>1, <2>2, <2>3 DEF PickInv, ShownAreUsed, Shown
  <2>4. Len(picks') <= max
    BY <1>1, <1>4, <2>1
  <2>5. Shown' \subseteq used'
    BY <1>1, <1>5 DEF PickInv, ShownAreUsed
  <2> QED
    BY <1>1, <2>3, <2>4, <2>5 DEF ShownAreUsed
<1>8. CallersAreTaken'
  <2> SUFFICES ASSUME bucket = 1
               PROVE  /\ Len(picks') = taken' /\ taken' <= Quotas[1]
                      /\ used' \cap OnlyAs("caller") \subseteq Shown'
                      /\ \A k \in 1..(pos' - 1) : incident[k].other \in used' \cup {Subject}
    BY <1>1, QuestionStays DEF CallersAreTaken
  <2>1. Quotas[1] \in Nat
    BY <1>1, QuotaTypes
  <2>2. /\ Len(picks) = taken /\ used \cap OnlyAs("caller") \subseteq Shown
        /\ \A k \in 1..(pos - 1) : incident[k].other \in used \cup {Subject}
    BY DEF PickInv, CallersAreTaken
  <2>3. Len(picks') = taken' /\ taken' <= Quotas[1]
    BY <1>1, <1>4, <2>1, <2>2
  <2> QED
    BY <1>1, <1>5, <2>2, <2>3
<1>9. CalleesAreKept'
  <2> SUFFICES ASSUME CallersAreBusy, Picked("callee") = {}, OnlyAs("callee") # {},
                      Picked("callee")' = {}
               PROVE  /\ bucket = 1 /\ used' \cap OnlyAs("callee") = {}
                      /\ \A k \in 1..(pos' - 1) : incident[k].incoming
    BY <1>1, <1>5, QuestionStays DEF CalleesAreKept
  <2>1. bucket = 1
    <3>1. bucket # 2
      BY <1>4 DEF Picked, Buckets, pick
    <3> QED
      BY <3>1 DEF PickInv, CalleesAreKept
  <2>2. newcomer \notin OnlyAs("callee")
    BY <2>1, CalleeIsMet
  <2>3. incident[pos].incoming /\ \A k \in 1..(pos - 1) : incident[k].incoming
    BY <2>1, FreshNode, OutgoingEdgesWait DEF PickInv, CalleesAreKept
  <2>4. used \cap OnlyAs("callee") = {}
    BY <2>1 DEF PickInv, CalleesAreKept
  <2> QED
    BY <1>1, <2>1, <2>2, <2>3, <2>4
<1> QED
  BY <1>6, <1>7, <1>8, <1>9 DEF PickInv

(* A pass begins. *)
LEMMA NextPassKeeps ==
  ASSUME PickInv, NextPass
  PROVE  PickInv'
<1>1. /\ UNCHANGED <<question, used, picks>> /\ UNCHANGED <<incident, max>> /\ PickTypes
      /\ bucket' = bucket + 1 /\ pos' = 1 /\ taken' = 0 /\ PassOver
  BY DEF NextPass, PickInv, question
<1>2. bucket \in 1..5 /\ Len(incident) \in Nat
  BY <1>1, Passes, EdgeTypes DEF NextPass, PickTypes
<1>3. Shown' = Shown /\ \A c : Picked(c)' = Picked(c)
  BY <1>1 DEF Shown, Picked
<1>4. PickTypes'
  BY <1>1, <1>2 DEF PickTypes, question
<1>5. ShownAreUsed' /\ CallersAreTaken'
  BY <1>1, <1>2, <1>3 DEF PickInv, ShownAreUsed, CallersAreTaken
<1>6. CalleesAreKept'
  <2> SUFFICES ASSUME CallersAreBusy, Picked("callee") = {}, OnlyAs("callee") # {}
               PROVE  /\ bucket' = 2 /\ taken' = 0 /\ Len(picks) <= Quotas[1]
                      /\ used \cap OnlyAs("callee") = {}
                      /\ \A k \in 1..(pos' - 1) : incident[k].other \notin OnlyAs("callee")
    BY <1>1, <1>3, QuestionStays DEF CalleesAreKept
  <2>1. used \cap OnlyAs("callee") = {}
    BY DEF PickInv, CalleesAreKept
  <2>2. CASE bucket = 1
    BY <1>1, <2>1, <2>2 DEF PickInv, CallersAreTaken
  <2>3. CASE bucket = 2
    <3>1. taken = 0 /\ Quotas[2] \in Nat \ {0}
      BY <1>1, <2>3, QuotaTypes DEF PickInv, CalleesAreKept
    <3>2. Len(picks) \in Nat /\ max \in Nat /\ Len(picks) <= Quotas[1] /\ Quotas[1] < max /\ Quotas[1] \in Nat
      BY <1>1, <2>3, QuotaTypes, EdgeTypes DEF PickInv, CalleesAreKept, CallersAreBusy
    <3>3. pos > Len(incident)
      BY <1>1, <2>3, <3>1, <3>2 DEF PassOver
    <3>4. PICK k \in DOMAIN incident : incident[k].other \in OnlyAs("callee")
      BY DEF OnlyAs
    <3>5. k \in 1..(pos - 1)
      BY <1>1, <3>3, <3>4, EdgeTypes DEF PickTypes
    <3> QED
      BY <2>3, <3>4, <3>5 DEF PickInv, CalleesAreKept
  <2> QED
    BY <2>2, <2>3 DEF PickInv, CalleesAreKept
<1> QED
  BY <1>4, <1>5, <1>6 DEF PickInv

LEMMA StutterKeeps == PickInv /\ UNCHANGED pickVars => PickInv'
<1> SUFFICES ASSUME PickInv, UNCHANGED pickVars
             PROVE  PickInv'
  OBVIOUS
<1>1. UNCHANGED <<question, bucket, pos, taken, used, picks>> /\ UNCHANGED <<incident, max>>
  BY DEF pickVars, question
<1>2. Shown' = Shown /\ \A c : Picked(c)' = Picked(c)
  BY <1>1 DEF Shown, Picked
<1>3. PickTypes'
  BY <1>1 DEF PickInv, PickTypes, question
<1>4. ShownAreUsed' /\ CallersAreTaken' /\ CalleesAreKept'
  BY <1>1, <1>2, QuestionStays DEF PickInv, ShownAreUsed, CallersAreTaken, CalleesAreKept
<1> QED
  BY <1>3, <1>4 DEF PickInv

-----------------------------------------------------------------------------
(* Around a subject every node is shown once and no more than were asked    *)
(* for; and where callers that fill their quota leave room in the answer, a *)
(* node that is only a callee is not lost behind them. For every list of    *)
(* edges, every limit and every intent.                                     *)
THEOREM BundlesAreFair == PickSpec => []BundleIsFair
<1>1. PickInit => PickInv
  BY PickStarts
<1>2. PickInv /\ [PickNext]_pickVars => PickInv'
  <2> SUFFICES ASSUME PickInv, [PickNext]_pickVars
               PROVE  PickInv'
    OBVIOUS
  <2>1. CASE Consider
    BY <2>1, SkipKeeps, MarkKeeps, PickKeeps
  <2>2. CASE NextPass
    BY <2>2, NextPassKeeps
  <2> QED
    BY <2>1, <2>2, StutterKeeps DEF PickNext
<1>3. PickInv => BundleIsFair
  <2> SUFFICES ASSUME PickInv
               PROVE  BundleIsFair
    OBVIOUS
  <2>1. Subject \notin Others
    BY RelatedAssumption
  <2>2. EachNodeOnce
    BY <2>1 DEF PickInv, ShownAreUsed, PickTypes, EachNodeOnce, Shown
  <2>3. Done => bucket \notin {1, 2}
    BY Passes DEF PickInv
  <2>4. BusyCallersLeaveACallee
    BY <2>3 DEF PickInv, CalleesAreKept, CallersAreBusy, BusyCallersLeaveACallee
  <2> QED
    BY <2>2, <2>4 DEF BundleIsFair
<1> QED
  BY <1>1, <1>2, <1>3, PTL DEF PickSpec

-----------------------------------------------------------------------------
(* coupled_components: the connected components over the edges that couple, *)
(* listed in one order.                                                     *)

(* The roots of a forest whose links lead to smaller nodes.                 *)
IsRootOf(root, forest) ==
  /\ forest \in [Indices -> Indices] /\ root \in [Indices -> Indices]
  /\ \A n \in Indices :
       /\ forest[n] <= n /\ root[n] <= n
       /\ forest[root[n]] = root[n] /\ root[forest[n]] = root[n]
       /\ forest[n] = n => root[n] = n

(* No pair leads out of the set.                                            *)
IsClosed(S, links) == \A pair \in links : pair[1] \in S <=> pair[2] \in S

(* The nodes of a tree are those that any closed set holds together.        *)
IsPartition(root, links) ==
  /\ \A pair \in links : root[pair[1]] = root[pair[2]]
  /\ \A S \in SUBSET Indices : IsClosed(S, links) =>
       \A m, n \in Indices : root[m] = root[n] /\ m \in S => n \in S

Looked == DOMAIN coupling.table \ unread

UnionTypes ==
  /\ coupling \in Couplings /\ unread \subseteq DOMAIN coupling.table
  /\ done \in BOOLEAN /\ (done => unread = {})

Forest == \E root : IsRootOf(root, parent) /\ IsPartition(root, Coupled(Looked))

UnionInv == UnionTypes /\ Forest /\ CommunitiesAreOrdered

-----------------------------------------------------------------------------
(* Climbing.                                                                *)

LEMMA RootsStay ==
  ASSUME NEW root, NEW forest, IsRootOf(root, forest), NEW other \in [Indices -> Indices],
         \A n \in Indices : other[n] \in {forest[n], root[n]}
  PROVE  IsRootOf(root, other)
<1>1. \A n \in Indices : n \in Nat /\ root[n] \in Indices /\ forest[n] \in Indices /\ root[root[n]] = root[n]
  BY DEF IsRootOf, Indices
<1>2. \A n \in Indices : other[n] = forest[n] \/ other[n] = root[n]
  OBVIOUS
<1> QED
  BY <1>1, <1>2 DEF IsRootOf

LEMMA Linking ==
  ASSUME NEW root, NEW forest, IsRootOf(root, forest), NEW low \in Indices, NEW high \in Indices,
         forest[low] = low, forest[high] = high, low <= high
  PROVE  IsRootOf([n \in Indices |-> IF root[n] = high THEN low ELSE root[n]],
                  [forest EXCEPT ![high] = low])
<1> DEFINE after == [n \in Indices |-> IF root[n] = high THEN low ELSE root[n]]
           linked == [forest EXCEPT ![high] = low]
<1>1. \A n \in Indices : n \in Int
  BY ComponentsAssumption DEF Indices
<1>2. /\ forest \in [Indices -> Indices] /\ root \in [Indices -> Indices]
      /\ root[low] = low /\ root[high] = high
  BY DEF IsRootOf
<1>3. linked \in [Indices -> Indices] /\ after \in [Indices -> Indices]
  BY <1>2
<1>4. /\ linked[high] = low /\ \A n \in Indices : n # high => linked[n] = forest[n]
      /\ \A n \in Indices : after[n] = IF root[n] = high THEN low ELSE root[n]
  BY <1>2
<1> HIDE DEF after, linked
<1>5. ASSUME NEW n \in Indices
      PROVE  /\ linked[n] <= n /\ after[n] <= n
             /\ linked[after[n]] = after[n] /\ after[linked[n]] = after[n]
             /\ linked[n] = n => after[n] = n
  <2>1. /\ forest[n] \in Indices /\ root[n] \in Indices /\ forest[n] <= n /\ root[n] <= n
        /\ forest[root[n]] = root[n] /\ root[forest[n]] = root[n]
        /\ forest[n] = n => root[n] = n
    BY DEF IsRootOf
  <2>2. linked[n] <= n /\ after[n] <= n
    BY <1>1, <1>4, <2>1
  <2>3. linked[after[n]] = after[n]
    BY <1>2, <1>4, <2>1
  <2>4. after[linked[n]] = after[n]
    BY <1>2, <1>4, <2>1
  <2>5. linked[n] = n => after[n] = n
    BY <1>2, <1>4, <2>1
  <2> QED
    BY <2>2, <2>3, <2>4, <2>5
<1>6. IsRootOf(after, linked)
  BY <1>3, <1>5 DEF IsRootOf
<1> QED
  BY <1>6 DEF after, linked

(* A way up a tree.                                                         *)
IsClimb(path, root, node) ==
  /\ path \in Seq(Indices) /\ path # <<>> /\ path[1] = node
  /\ \A k \in DOMAIN path : root[path[k]] = root[node]

LEMMA OneNodeUp ==
  ASSUME NEW root, NEW forest, IsRootOf(root, forest), NEW node \in Indices,
         NEW path, IsClimb(path, root, node)
  PROVE  LET last == path[Len(path)]
             higher == Append(path, forest[last])
         IN  /\ last \in Indices /\ forest[last] \in Indices /\ IsClimb(higher, root, node)
             /\ higher[Len(higher)] = forest[last]
<1>1. path \in Seq(Indices) /\ path # <<>> /\ path[1] = node /\ Len(path) \in DOMAIN path
  BY DEF IsClimb
<1>2. PICK last \in Indices : last = path[Len(path)]
  BY <1>1
<1>3. forest[last] \in Indices /\ root[forest[last]] = root[node]
  BY <1>1, <1>2 DEF IsRootOf, IsClimb
<1>4. PICK higher : higher = Append(path, forest[last])
  OBVIOUS
<1>5. /\ higher \in Seq(Indices) /\ higher # <<>> /\ higher[1] = node
      /\ higher[Len(higher)] = forest[last]
      /\ \A k \in DOMAIN higher : (k \in DOMAIN path /\ higher[k] = path[k]) \/ higher[k] = forest[last]
  BY <1>1, <1>3, <1>4
<1>6. IsClimb(higher, root, node)
  BY <1>3, <1>5 DEF IsClimb
<1> QED
  BY <1>2, <1>3, <1>4, <1>5, <1>6

(* What the recursion of Chain computes.                                    *)
LEMMA ClimbGrows ==
  ASSUME NEW forest \in [Indices -> Indices], NEW node \in Indices
  PROVE  \E c : /\ Chain(forest, node) = c[Count] /\ c[0] = <<node>>
               /\ \A k \in 1..Count :
                    c[k] = IF forest[Last(c[k - 1])] = Last(c[k - 1]) THEN c[k - 1]
                           ELSE Append(c[k - 1], forest[Last(c[k - 1])])
<1> DEFINE S == {path \in Seq(Indices) : path # <<>>}
           start == <<node>>
           Higher(path) == IF forest[Last(path)] = Last(path) THEN path
                           ELSE Append(path, forest[Last(path)])
           F == [path \in S |-> Higher(path)]
           Climb(c) == [k \in 0..Count |-> IF k = 0 THEN <<node>> ELSE Higher(c[k - 1])]
           W == CHOOSE c : c = Climb(c)
<1>1. Count \in Nat
  BY ComponentsAssumption
<1>2. Chain(forest, node) = W[Count]
  BY DEF Chain
<1>3. start \in S
  OBVIOUS
<1>4. F \in [S -> S]
  <2>1. ASSUME NEW path \in S
        PROVE  Higher(path) \in S
    <3>1. forest[Last(path)] \in Indices
      BY DEF Last
    <3> QED
      BY <3>1
  <2> QED
    BY <2>1
<1>5. \E c : IsIteration(c, Count, S, start, F)
  <2> HIDE DEF F, S, start
  <2> QED
    BY <1>1, <1>3, <1>4, IterationExists
<1>6. \E c : c = Climb(c)
  <2>1. PICK c : IsIteration(c, Count, S, start, F)
    BY <1>5
  <2>2. \A k \in 1..Count : c[k - 1] \in S
    BY <1>1, <2>1 DEF IsIteration
  <2> HIDE DEF Higher
  <2>3. \A k \in 1..Count : c[k] = Higher(c[k - 1])
    BY <2>1, <2>2 DEF IsIteration
  <2>4. c \in [0..Count -> S] /\ c[0] = <<node>>
    BY <2>1 DEF IsIteration
  <2> HIDE DEF S
  <2>5. \A k \in 0..Count : c[k] = IF k = 0 THEN <<node>> ELSE Higher(c[k - 1])
    <3> TAKE k \in 0..Count
    <3>1. k = 0 \/ k \in 1..Count
      BY <1>1
    <3>2. k \in 1..Count => k # 0 /\ c[k] = Higher(c[k - 1])
      BY <1>1, <2>3
    <3> QED
      BY <2>4, <3>1, <3>2
  <2>6. c = Climb(c)
    BY <2>4, <2>5
  <2> QED
    BY <2>6
<1>7. W = Climb(W)
  <2> HIDE DEF Climb
  <2> QED
    BY <1>6
<1> HIDE DEF W
<1>8. W[0] = <<node>> /\ \A k \in 1..Count : W[k] = Higher(W[k - 1])
  <2> HIDE DEF Higher
  <2> QED
    BY <1>1, <1>7
<1> QED
  BY <1>2, <1>8

(* The chain of a node ends at its root, for every link leads to a smaller  *)
(* node and there are no more than Count of them.                           *)
LEMMA ChainEndsAtRoot ==
  ASSUME NEW root, NEW forest, IsRootOf(root, forest), NEW node \in Indices
  PROVE  IsClimb(Chain(forest, node), root, node) /\ Last(Chain(forest, node)) = root[node]
<1>1. PICK c : /\ Chain(forest, node) = c[Count] /\ c[0] = <<node>>
               /\ \A k \in 1..Count :
                    c[k] = IF forest[Last(c[k - 1])] = Last(c[k - 1]) THEN c[k - 1]
                           ELSE Append(c[k - 1], forest[Last(c[k - 1])])
  BY ClimbGrows DEF IsRootOf
<1>2. Count \in Nat /\ \A n \in Indices : n \in Nat /\ n < Count
  BY ComponentsAssumption DEF Indices
<1> DEFINE T == {k \in 0..Count : /\ IsClimb(c[k], root, node)
                                  /\ \/ forest[Last(c[k])] = Last(c[k])
                                     \/ Last(c[k]) + k <= node}
<1>3. 0 \in T
  <2>1. IsClimb(<<node>>, root, node) /\ Last(<<node>>) = node
    BY DEF IsClimb, Last
  <2> QED
    BY <1>1, <1>2, <2>1
<1>4. ASSUME NEW k \in 0..Count, k < Count, k \in T
      PROVE  k + 1 \in T
  <2>1. k + 1 \in 1..Count /\ k + 1 - 1 = k /\ k + 1 \in 0..Count
    BY <1>2, <1>4
  <2>2. c[k + 1] = IF forest[Last(c[k])] = Last(c[k]) THEN c[k]
                   ELSE Append(c[k], forest[Last(c[k])])
    BY <1>1, <2>1
  <2>3. IsClimb(c[k], root, node) /\ (forest[Last(c[k])] = Last(c[k]) \/ Last(c[k]) + k <= node)
    BY <1>4
  <2>4. CASE forest[Last(c[k])] = Last(c[k])
    BY <2>1, <2>2, <2>3, <2>4
  <2>5. CASE forest[Last(c[k])] # Last(c[k])
    <3>1. /\ Last(c[k]) \in Indices /\ forest[Last(c[k])] \in Indices
          /\ IsClimb(c[k + 1], root, node) /\ Last(c[k + 1]) = forest[Last(c[k])]
      BY <2>2, <2>3, <2>5, OneNodeUp DEF Last
    <3>2. forest[Last(c[k])] <= Last(c[k])
      BY <3>1 DEF IsRootOf
    <3>3. Last(c[k + 1]) + (k + 1) <= node
      BY <1>2, <2>3, <2>5, <3>1, <3>2
    <3> QED
      BY <2>1, <3>1, <3>3
  <2> QED
    BY <2>4, <2>5
<1>5. Count \in T
  <2>1. \A k \in 0..Count : k \in T
    <3> HIDE DEF T
    <3> QED
      BY <1>2, <1>3, <1>4, BoundedInduction
  <2> QED
    BY <1>2, <2>1
<1> DEFINE path == Chain(forest, node)
<1>6. IsClimb(path, root, node) /\ (forest[Last(path)] = Last(path) \/ Last(path) + Count <= node)
  BY <1>1, <1>5
<1> HIDE DEF path
<1>7. Last(path) \in Indices /\ root[Last(path)] = root[node]
  <2>1. path \in Seq(Indices) /\ path # <<>> /\ Len(path) \in DOMAIN path /\ path[Len(path)] \in Indices
    BY <1>6 DEF IsClimb
  <2> QED
    BY <1>6, <2>1 DEF IsClimb, Last
<1>8. forest[Last(path)] = Last(path)
  BY <1>2, <1>6, <1>7
<1>9. root[Last(path)] = Last(path)
  BY <1>7, <1>8 DEF IsRootOf
<1> QED
  BY <1>6, <1>7, <1>9 DEF path

(* Compression changes links, not roots.                                    *)
LEMMA CompressionKeepsRoots ==
  ASSUME NEW root, NEW forest, IsRootOf(root, forest), NEW node \in Indices
  PROVE  IsRootOf(root, Compressed(forest, node))
<1> DEFINE chain == Chain(forest, node)
<1>1. IsClimb(chain, root, node) /\ Last(chain) = root[node]
  BY ChainEndsAtRoot
<1>2. Compressed(forest, node) =
        [n \in Indices |-> IF \E k \in DOMAIN chain : chain[k] = n THEN Last(chain) ELSE forest[n]]
  BY DEF Compressed
<1> HIDE DEF chain
<1>3. \A n \in Indices : (\E k \in DOMAIN chain : chain[k] = n) => Last(chain) = root[n]
  BY <1>1 DEF IsClimb
<1>4. \A n \in Indices : forest[n] \in Indices /\ root[n] \in Indices
  BY DEF IsRootOf
<1>5. /\ Compressed(forest, node) \in [Indices -> Indices]
      /\ \A n \in Indices : Compressed(forest, node)[n] \in {forest[n], root[n]}
  BY <1>2, <1>3, <1>4
<1> QED
  BY <1>5, RootsStay

-----------------------------------------------------------------------------
(* Joining.                                                                 *)

LEMMA PairsAreNodes ==
  ASSUME coupling \in Couplings, NEW seen \in SUBSET DOMAIN coupling.table
  PROVE  Coupled(seen) \subseteq Indices \X Indices
<1>1. \A e \in DOMAIN coupling.table : coupling.table[e] \in [from : Indices, to : Indices, kind : {"calls", "contains", "method"}]
  BY ComponentsAssumption DEF Range
<1>2. \A e \in DOMAIN coupling.table : coupling.table[e].from \in Indices /\ coupling.table[e].to \in Indices
  BY <1>1
<1> QED
  BY <1>2 DEF Coupled

(* The nodes one more pair away.                                            *)
Wider(near, links) ==
  near \cup {m \in Indices : \E pair \in links : \/ pair[1] \in near /\ pair[2] = m
                                                 \/ pair[2] \in near /\ pair[1] = m}

(* What the recursion of Joined computes.                                   *)
JoinsAs(w, n, seen) ==
  /\ Joined(n, seen) = w[Count - 1] /\ w[0] = {n}
  /\ \A k \in 0..Count : w[k] \in SUBSET Indices
  /\ \A k \in 1..Count : w[k] = Wider(w[k - 1], Coupled(seen))

LEMMA JoinedGrows ==
  ASSUME NEW n \in Indices, NEW seen
  PROVE  \E w : JoinsAs(w, n, seen)
<1> DEFINE S == SUBSET Indices
           start == {n}
           links == Coupled(seen)
           F == [near \in S |-> Wider(near, links)]
           Layers(w) == [k \in 0..Count |->
                           IF k = 0 THEN {n}
                           ELSE w[k - 1] \cup {m \in Indices : \E pair \in links :
                                                \/ pair[1] \in w[k - 1] /\ pair[2] = m
                                                \/ pair[2] \in w[k - 1] /\ pair[1] = m}]
           W == CHOOSE w : w = Layers(w)
<1>1. Count \in Nat
  BY ComponentsAssumption
<1>2. Joined(n, seen) = W[Count - 1]
  BY DEF Joined
<1>3. start \in S /\ F \in [S -> S]
  BY DEF Wider
<1> HIDE DEF links
<1>4. \E c : IsIteration(c, Count, S, start, F)
  <2> HIDE DEF F, S, start
  <2> QED
    BY <1>1, <1>3, IterationExists
<1>5. PICK c : IsIteration(c, Count, S, start, F)
  BY <1>4
<1>6. /\ c \in [0..Count -> SUBSET Indices] /\ c[0] = {n}
      /\ \A k \in 1..Count : c[k - 1] \in SUBSET Indices
      /\ \A k \in 1..Count : c[k] = Wider(c[k - 1], links)
  <2>1. /\ c \in [0..Count -> S] /\ c[0] = start
        /\ \A k \in 1..Count : c[k] = F[c[k - 1]]
    <3> HIDE DEF S, start, F
    <3> QED
      BY <1>5 DEF IsIteration
  <2>2. \A k \in 1..Count : c[k - 1] \in S
    <3> HIDE DEF S, start, F
    <3> QED
      BY <1>1, <2>1
  <2>3. \A near \in S : F[near] = Wider(near, links)
    OBVIOUS
  <2> QED
    BY <2>1, <2>2, <2>3
<1>7. \A k \in 0..Count :
        c[k] = IF k = 0 THEN {n}
               ELSE c[k - 1] \cup {m \in Indices : \E pair \in links :
                                    \/ pair[1] \in c[k - 1] /\ pair[2] = m
                                    \/ pair[2] \in c[k - 1] /\ pair[1] = m}
  <2> TAKE k \in 0..Count
  <2>1. k = 0 \/ k \in 1..Count
    BY <1>1
  <2>2. k \in 1..Count => k # 0 /\ c[k] = Wider(c[k - 1], links)
    BY <1>1, <1>6
  <2> QED
    BY <1>6, <2>1, <2>2 DEF Wider
<1>8. c = Layers(c)
  BY <1>6, <1>7
<1>9. W = Layers(W)
  <2> HIDE DEF Layers
  <2> QED
    BY <1>8
<1> HIDE DEF W
<1> DEFINE T == {k \in 0..Count : W[k] \in SUBSET Indices}
<1>10. W[0] = {n} /\ \A k \in 1..Count : W[k] = Wider(W[k - 1], links)
  <2>1. \A k \in 0..Count :
          W[k] = IF k = 0 THEN {n}
                 ELSE W[k - 1] \cup {m \in Indices : \E pair \in links :
                                      \/ pair[1] \in W[k - 1] /\ pair[2] = m
                                      \/ pair[2] \in W[k - 1] /\ pair[1] = m}
    BY <1>9
  <2>2. \A k \in 1..Count : k \in 0..Count /\ k # 0
    BY <1>1
  <2>3. 0 \in 0..Count
    BY <1>1
  <2> QED
    BY <2>1, <2>2, <2>3 DEF Wider
<1>11. 0 \in T
  BY <1>1, <1>10
<1>12. ASSUME NEW k \in 0..Count, k < Count, k \in T
       PROVE  k + 1 \in T
  <2>1. k + 1 \in 1..Count /\ k + 1 - 1 = k /\ k + 1 \in 0..Count
    BY <1>1, <1>12
  <2>2. W[k + 1] = Wider(W[k], links)
    BY <1>10, <2>1
  <2> QED
    BY <1>12, <2>1, <2>2 DEF Wider
<1>13. \A k \in 0..Count : k \in T
  <2> HIDE DEF T
  <2> QED
    BY <1>1, <1>11, <1>12, BoundedInduction
<1> QED
  BY <1>2, <1>10, <1>13 DEF links, JoinsAs

LEMMA NodesAreFinite == Count \in Nat /\ IsFiniteSet(Indices) /\ Cardinality(Indices) = Count
<1>1. Count \in Nat /\ 0 \in Int /\ Count - 1 \in Int
  BY ComponentsAssumption
<1>2. IsFiniteSet(0..(Count - 1)) /\ Cardinality(0..(Count - 1)) = IF 0 > Count - 1 THEN 0 ELSE Count - 1 - 0 + 1
  BY <1>1, FS_Interval
<1> QED
  BY <1>1, <1>2 DEF Indices

(* Joined is the smallest closed set around a node: every step that adds    *)
(* nothing has closed it, and there is no room for Count steps that do.     *)
LEMMA JoinedIsClosed ==
  ASSUME coupling \in Couplings, NEW n \in Indices, NEW seen \in SUBSET DOMAIN coupling.table
  PROVE  /\ Joined(n, seen) \in SUBSET Indices /\ n \in Joined(n, seen)
         /\ IsClosed(Joined(n, seen), Coupled(seen))
         /\ \A S \in SUBSET Indices : n \in S /\ IsClosed(S, Coupled(seen)) => Joined(n, seen) \subseteq S
<1>0. PICK w : JoinsAs(w, n, seen)
  BY JoinedGrows
<1> DEFINE links == Coupled(seen)
           N == Count - 1
<1>1. /\ Joined(n, seen) = w[N] /\ w[0] = {n}
      /\ \A k \in 0..Count : w[k] \in SUBSET Indices
      /\ \A k \in 1..Count : w[k] = Wider(w[k - 1], links)
  BY <1>0 DEF JoinsAs
<1>2. /\ Count \in Nat /\ N \in Nat /\ N \in 0..N /\ N + 1 = Count
      /\ IsFiniteSet(Indices) /\ Cardinality(Indices) = Count
  BY NodesAreFinite DEF Indices
<1>3. links \subseteq Indices \X Indices
  BY PairsAreNodes
<1> HIDE DEF links, N
<1>4. \A k \in 0..N : /\ w[k] \in SUBSET Indices /\ IsFiniteSet(w[k]) /\ Cardinality(w[k]) \in Nat
                      /\ k < N => w[k + 1] = Wider(w[k], links)
  <2> TAKE k \in 0..N
  <2>1. k \in 0..Count /\ k + 1 \in 1..Count /\ k + 1 - 1 = k
    BY <1>2
  <2>2. w[k] \in SUBSET Indices
    BY <1>1, <2>1
  <2>3. w[k + 1] = Wider(w[k], links)
    BY <1>1, <2>1
  <2> QED
    BY <1>2, <2>2, <2>3, FS_Subset, FS_CardinalityType
<1> DEFINE T == {k \in 0..N : n \in w[k] /\ (IsClosed(w[k], links) \/ Cardinality(w[k]) >= k + 1)}
<1>5. 0 \in T
  <2>1. Cardinality({n}) = 1
    BY FS_Singleton
  <2>2. w[0] = {n} /\ 0 \in 0..N
    BY <1>1, <1>2
  <2> QED
    BY <2>1, <2>2
<1>6. ASSUME NEW k \in 0..N, k < N, k \in T
      PROVE  k + 1 \in T
  <2>1. /\ w[k + 1] = Wider(w[k], links) /\ w[k] \subseteq w[k + 1] /\ k + 1 \in 0..N
        /\ IsFiniteSet(w[k]) /\ IsFiniteSet(w[k + 1]) /\ w[k] \in SUBSET w[k + 1]
        /\ Cardinality(w[k]) \in Nat /\ Cardinality(w[k + 1]) \in Nat
        /\ n \in w[k] /\ (IsClosed(w[k], links) \/ Cardinality(w[k]) >= k + 1)
    <3>1. k + 1 \in 0..N /\ w[k + 1] = Wider(w[k], links)
      BY <1>2, <1>4, <1>6
    <3>2. /\ IsFiniteSet(w[k]) /\ IsFiniteSet(w[k + 1])
          /\ Cardinality(w[k]) \in Nat /\ Cardinality(w[k + 1]) \in Nat
      BY <1>4, <3>1
    <3>3. w[k] \subseteq w[k + 1]
      BY <3>1 DEF Wider
    <3>4. n \in w[k] /\ (IsClosed(w[k], links) \/ Cardinality(w[k]) >= k + 1)
      BY <1>6
    <3> QED
      BY <3>1, <3>2, <3>3, <3>4
  <2>2. CASE IsClosed(w[k], links)
    <3>1. w[k + 1] = w[k]
      BY <2>1, <2>2 DEF Wider, IsClosed
    <3> QED
      BY <2>1, <2>2, <3>1
  <2>3. CASE ~IsClosed(w[k], links)
    <3>1. PICK pair \in links : ~(pair[1] \in w[k] <=> pair[2] \in w[k])
      BY <2>3 DEF IsClosed
    <3>2. pair = <<pair[1], pair[2]>> /\ pair[1] \in Indices /\ pair[2] \in Indices
      BY <1>3
    <3>3. w[k + 1] # w[k]
      <4>1. CASE pair[1] \in w[k]
        BY <2>1, <3>1, <3>2, <4>1 DEF Wider
      <4>2. CASE pair[2] \in w[k]
        BY <2>1, <3>1, <3>2, <4>2 DEF Wider
      <4> QED
        BY <3>1, <4>1, <4>2
    <3>4. Cardinality(w[k]) <= Cardinality(w[k + 1]) /\ Cardinality(w[k]) # Cardinality(w[k + 1])
      BY <2>1, <3>3, FS_Subset
    <3> QED
      BY <2>1, <2>3, <3>4
  <2> QED
    BY <2>2, <2>3
<1>7. N \in T
  <2>1. \A k \in 0..N : k \in T
    <3> HIDE DEF T
    <3> QED
      BY <1>2, <1>5, <1>6, BoundedInduction
  <2> QED
    BY <1>2, <2>1
<1>8. IsClosed(w[N], links)
  <2>1. CASE Cardinality(w[N]) >= N + 1
    <3>1. w[N] \in SUBSET Indices /\ Cardinality(w[N]) \in Nat
      BY <1>2, <1>4
    <3>2. Cardinality(w[N]) <= Cardinality(Indices)
      BY <1>2, <3>1, FS_Subset
    <3>3. Cardinality(w[N]) = Cardinality(Indices)
      BY <1>2, <2>1, <3>1, <3>2
    <3>4. w[N] = Indices
      BY <1>2, <3>1, <3>3, FS_Subset
    <3> QED
      BY <1>3, <3>4 DEF IsClosed
  <2> QED
    BY <1>7, <2>1
<1>9. ASSUME NEW S \in SUBSET Indices, n \in S, IsClosed(S, links)
      PROVE  w[N] \subseteq S
  <2> DEFINE U == {k \in 0..N : w[k] \subseteq S}
  <2>1. 0 \in U
    BY <1>1, <1>2, <1>9
  <2>2. ASSUME NEW k \in 0..N, k < N, k \in U
        PROVE  k + 1 \in U
    <3>1. w[k + 1] = Wider(w[k], links) /\ k + 1 \in 0..N /\ w[k] \subseteq S
      BY <1>2, <1>4, <2>2
    <3> QED
      BY <1>9, <3>1 DEF Wider, IsClosed
  <2>3. \A k \in 0..N : k \in U
    <3> HIDE DEF U
    <3> QED
      BY <1>2, <2>1, <2>2, BoundedInduction
  <2> QED
    BY <1>2, <2>3
<1> QED
  BY <1>1, <1>2, <1>4, <1>7, <1>8, <1>9 DEF links

(* A node is joined to the nodes of its tree.                               *)
LEMMA JoinedIsTree ==
  ASSUME coupling \in Couplings, NEW n \in Indices, NEW seen \in SUBSET DOMAIN coupling.table,
         NEW root, IsPartition(root, Coupled(seen))
  PROVE  Joined(n, seen) = {m \in Indices : root[m] = root[n]}
<1> DEFINE tree == {m \in Indices : root[m] = root[n]}
<1>1. Coupled(seen) \subseteq Indices \X Indices
  BY PairsAreNodes
<1>2. IsClosed(tree, Coupled(seen)) /\ n \in tree /\ tree \in SUBSET Indices
  BY <1>1 DEF IsClosed, IsPartition
<1>3. Joined(n, seen) \subseteq tree
  BY <1>2, JoinedIsClosed
<1>4. tree \subseteq Joined(n, seen)
  BY JoinedIsClosed DEF IsPartition
<1> QED
  BY <1>3, <1>4

-----------------------------------------------------------------------------
(* Listing.                                                                 *)

LEMMA RankedInOrder ==
  ASSUME NEW S, IsFiniteSet(S), NEW order, IsOrderOn(order, S)
  PROVE  /\ Ranked(S, order) \in [1..Cardinality(S) -> S]
         /\ Range(Ranked(S, order)) = S
         /\ \A j, k \in 1..Cardinality(S) :
              j < k => <<Ranked(S, order)[j], Ranked(S, order)[k]>> \in order
<1>1. Ranked(S, order) = InOrder(S, order)
  BY DEF Ranked, InOrder
<1> QED
  BY <1>1, ListedInOrder

(* The nodes of a group in their order.                                     *)
LEMMA AscendingIsOrdered ==
  ASSUME NEW S \in SUBSET Indices
  PROVE  /\ Ascending(S) \in Seq(S) /\ Len(Ascending(S)) = Cardinality(S)
         /\ IsFiniteSet(S) /\ Cardinality(S) \in Nat
         /\ Range(Ascending(S)) = S
         /\ \A i, j \in DOMAIN Ascending(S) : i < j => Ascending(S)[i] < Ascending(S)[j]
         /\ Cardinality(S) > 1 => Ascending(S)[1] \in S
<1> DEFINE order == {pair \in S \X S : pair[1] < pair[2]}
<1>1. IsFiniteSet(S) /\ Cardinality(S) \in Nat
  BY NodesAreFinite, FS_Subset, FS_CardinalityType
<1>2. \A n \in S : n \in Int
  BY NodesAreFinite DEF Indices
<1>3. IsOrderOn(order, S)
  BY <1>2 DEF IsOrderOn
<1>4. \A m, n \in S : <<m, n>> \in order => m < n
  OBVIOUS
<1>5. Ascending(S) = Ranked(S, order)
  BY DEF Ascending
<1> HIDE DEF order
<1>6. /\ Ascending(S) \in [1..Cardinality(S) -> S] /\ Range(Ascending(S)) = S
      /\ \A i, j \in 1..Cardinality(S) : i < j => <<Ascending(S)[i], Ascending(S)[j]>> \in order
  BY <1>1, <1>3, <1>5, RankedInOrder
<1>7. Ascending(S) \in Seq(S) /\ Len(Ascending(S)) = Cardinality(S)
  BY <1>1, <1>6
<1>8. \A i, j \in DOMAIN Ascending(S) : i < j => Ascending(S)[i] < Ascending(S)[j]
  BY <1>4, <1>6
<1> QED
  BY <1>1, <1>6, <1>7, <1>8

-----------------------------------------------------------------------------
(* The steps.                                                               *)

(* The tree of one root becomes part of the tree of another.                *)
IsMergeOf(after, root, low, high) ==
  \A n \in Indices : after[n] = IF root[n] = high THEN low ELSE root[n]

(* A pair more joins the trees of its two nodes.                            *)
LEMMA PartitionMerges ==
  ASSUME NEW root \in [Indices -> Indices], NEW links \in SUBSET (Indices \X Indices),
         IsPartition(root, links), NEW a \in Indices, NEW b \in Indices,
         NEW low, NEW high, {low, high} = {root[a], root[b]},
         NEW after, IsMergeOf(after, root, low, high)
  PROVE  IsPartition(after, links \cup {<<a, b>>})
<1> DEFINE wider == links \cup {<<a, b>>}
<1>1. \A n \in Indices : after[n] = IF root[n] = high THEN low ELSE root[n]
  BY DEF IsMergeOf
<1>2. \A pair \in links : pair[1] \in Indices /\ pair[2] \in Indices /\ root[pair[1]] = root[pair[2]]
  BY DEF IsPartition
<1>3. \A pair \in wider : after[pair[1]] = after[pair[2]]
  BY <1>1, <1>2
<1>4. ASSUME NEW S \in SUBSET Indices, IsClosed(S, wider), NEW m \in S, NEW n \in Indices, after[m] = after[n]
      PROVE  n \in S
  <2>1. \A i, j \in Indices : root[i] = root[j] /\ i \in S => j \in S
    BY <1>4 DEF IsPartition, IsClosed
  <2>2. a \in S <=> b \in S
    <3>1. <<a, b>> \in wider /\ <<a, b>>[1] = a /\ <<a, b>>[2] = b
      OBVIOUS
    <3> QED
      BY <1>4, <3>1 DEF IsClosed
  <2>3. root[m] = root[n] \/ (root[m] \in {root[a], root[b]} /\ root[n] \in {root[a], root[b]})
    BY <1>1, <1>4
  <2> QED
    BY <2>1, <2>2, <2>3
<1> QED
  BY <1>3, <1>4 DEF IsPartition

LEMMA UnionJoins ==
  ASSUME UnionTypes, Forest, Union
  PROVE  Forest'
<1>1. PICK root : IsRootOf(root, parent) /\ IsPartition(root, Coupled(Looked))
  BY DEF Forest
<1>2. PICK e \in unread :
        /\ unread' = unread \ {e} /\ UNCHANGED <<coupling, components, done>>
        /\ parent' = IF Couples(e)
                     THEN Linked(Compressed(Compressed(parent, coupling.table[e].from), coupling.table[e].to),
                                 coupling.table[e].from, coupling.table[e].to)
                     ELSE parent
  BY DEF Union
<1>3. Looked' = Looked \cup {e} /\ e \in DOMAIN coupling.table
  BY <1>2 DEF Looked, UnionTypes
<1>4. PICK a \in Indices, b \in Indices : a = coupling.table[e].from /\ b = coupling.table[e].to
  <2>1. coupling.table[e] \in [from : Indices, to : Indices, kind : {"calls", "contains", "method"}]
    BY <1>3, ComponentsAssumption DEF Range, UnionTypes
  <2> QED
    BY <2>1
<1>5. CASE ~Couples(e)
  <2>1. parent' = parent
    BY <1>2, <1>5
  <2>2. Coupled(Looked)' = Coupled(Looked)
    BY <1>2, <1>3, <1>5 DEF Coupled, Couples
  <2> QED
    BY <1>1, <2>1, <2>2 DEF Forest
<1>6. CASE Couples(e)
  <2>1. Coupled(Looked)' = Coupled(Looked) \cup {<<a, b>>}
    BY <1>2, <1>3, <1>4, <1>6 DEF Coupled, Couples
  <2>2. PICK found : found = Compressed(Compressed(parent, a), b)
    OBVIOUS
  <2>3. IsRootOf(root, found)
    BY <1>1, <2>2, CompressionKeepsRoots
  <2>4. /\ Root(found, a) = root[a] /\ Root(found, b) = root[b]
        /\ root[a] \in Indices /\ root[b] \in Indices /\ root \in [Indices -> Indices]
        /\ found[root[a]] = root[a] /\ found[root[b]] = root[b]
    BY <2>3, ChainEndsAtRoot DEF Root, IsRootOf
  <2>5. parent' = IF root[a] < root[b] THEN [found EXCEPT ![root[b]] = root[a]]
                  ELSE [found EXCEPT ![root[a]] = root[b]]
    BY <1>2, <1>4, <1>6, <2>2, <2>4 DEF Linked
  <2>6. PICK low \in Indices, high \in Indices :
          /\ {low, high} = {root[a], root[b]} /\ low <= high
          /\ parent' = [found EXCEPT ![high] = low]
    <3>1. root[a] \in Int /\ root[b] \in Int
      BY <2>4, NodesAreFinite DEF Indices
    <3>2. CASE root[a] < root[b]
      <4>1. root[a] <= root[b] /\ parent' = [found EXCEPT ![root[b]] = root[a]]
        BY <2>5, <3>1, <3>2
      <4> USE <2>4
      <4> WITNESS root[a] \in Indices, root[b] \in Indices
      <4> QED
        BY <4>1
    <3>3. CASE ~(root[a] < root[b])
      <4>1. root[b] <= root[a] /\ parent' = [found EXCEPT ![root[a]] = root[b]]
        BY <2>5, <3>1, <3>3
      <4> USE <2>4
      <4> WITNESS root[b] \in Indices, root[a] \in Indices
      <4> QED
        BY <4>1
    <3> QED
      BY <3>2, <3>3
  <2>7. PICK after : after = [n \in Indices |-> IF root[n] = high THEN low ELSE root[n]]
    OBVIOUS
  <2>8. IsRootOf(after, parent')
    <3>1. found[low] = low /\ found[high] = high
      BY <2>4, <2>6
    <3> QED
      BY <2>3, <2>6, <2>7, <3>1, Linking
  <2>9. IsPartition(after, Coupled(Looked) \cup {<<a, b>>})
    <3>1. PICK links \in SUBSET (Indices \X Indices) : links = Coupled(Looked)
      BY PairsAreNodes DEF Looked, UnionTypes
    <3>2. IsMergeOf(after, root, low, high)
      BY <2>7 DEF IsMergeOf
    <3>3. root \in [Indices -> Indices] /\ {low, high} = {root[a], root[b]} /\ IsPartition(root, links)
      BY <1>1, <2>4, <2>6, <3>1
    <3>4. IsPartition(after, links \cup {<<a, b>>})
      BY <3>2, <3>3, PartitionMerges
    <3> QED
      BY <3>1, <3>4
  <2> QED
    BY <2>1, <2>8, <2>9 DEF Forest
<1> QED
  BY <1>5, <1>6

LEMMA ForestStarts == UnionInit => Forest
<1> SUFFICES ASSUME UnionInit
             PROVE  Forest
  OBVIOUS
<1>1. \A n \in Indices : n <= n
  BY NodesAreFinite DEF Indices
<1>2. IsRootOf(parent, parent)
  BY <1>1 DEF UnionInit, IsRootOf
<1>3. Coupled(Looked) = {}
  BY DEF UnionInit, Looked, Coupled
<1>4. IsPartition(parent, {})
  BY DEF UnionInit, IsPartition
<1> QED
  BY <1>2, <1>3, <1>4 DEF Forest

(* The forest tells the communities of the edges looked at.                 *)
LEMMA ForestIsExact == UnionTypes /\ Forest => RootsAreComponents
<1> SUFFICES ASSUME UnionTypes, Forest
             PROVE  RootsAreComponents
  OBVIOUS
<1>1. PICK root : IsRootOf(root, parent) /\ IsPartition(root, Coupled(Looked))
  BY DEF Forest
<1>2. \A n \in Indices : Root(parent, n) = root[n]
  BY <1>1, ChainEndsAtRoot DEF Root
<1>3. \A n \in Indices : Joined(n, DOMAIN coupling.table \ unread) = {m \in Indices : root[m] = root[n]}
  BY <1>1, JoinedIsTree DEF UnionTypes, Looked
<1>4. \A m \in Indices : root[m] \in Indices /\ root[root[m]] = root[m] /\ root[m] <= m
  BY <1>1 DEF IsRootOf
<1> SUFFICES ASSUME NEW n \in Indices
             PROVE  LET group == Joined(n, DOMAIN coupling.table \ unread)
                    IN  Root(parent, n) \in group /\ \A m \in group : Root(parent, n) <= m
  BY DEF RootsAreComponents
<1> QED
  BY <1>2, <1>3, <1>4

Groups == {g \in {Members(r) : r \in Indices} : Cardinality(g) > 1}

Communities == {g \in {Joined(n, DOMAIN coupling.table) : n \in Indices} : Cardinality(g) > 1}

(* When all edges were looked at the trees are the communities, and the     *)
(* order in which they are listed leaves none of them a choice of place.    *)
LEMMA GroupsAreCommunities ==
  ASSUME UnionTypes, Forest, unread = {}
  PROVE  /\ Groups = Communities
         /\ Groups \in SUBSET (SUBSET Indices) /\ IsFiniteSet(Groups)
         /\ \A g, h \in Groups : g # h => g \cap h = {}
         /\ \A g \in Groups : Cardinality(g) > 1
<1>1. PICK root : IsRootOf(root, parent) /\ IsPartition(root, Coupled(Looked))
  BY DEF Forest
<1>2. \A n \in Indices : Root(parent, n) = root[n] /\ root[n] \in Indices
  BY <1>1, ChainEndsAtRoot DEF Root, IsRootOf
<1>3. \A r \in Indices : Members(r) = {m \in Indices : root[m] = r}
  BY <1>2 DEF Members
<1>4. Looked = DOMAIN coupling.table
  BY DEF Looked
<1>5. \A n \in Indices : Joined(n, DOMAIN coupling.table) = {m \in Indices : root[m] = root[n]}
  BY <1>1, <1>4, JoinedIsTree DEF UnionTypes
<1>6. ASSUME NEW g \in Groups
      PROVE  /\ g \in SUBSET Indices /\ Cardinality(g) > 1
             /\ \E n \in Indices : g = {m \in Indices : root[m] = root[n]}
  <2>1. PICK r \in Indices : g = Members(r) /\ Cardinality(g) > 1
    BY DEF Groups
  <2>2. g = {m \in Indices : root[m] = r}
    BY <1>3, <2>1
  <2>3. g # {}
    BY <2>1, FS_EmptySet
  <2>4. PICK n \in Indices : root[n] = r
    BY <2>2, <2>3
  <2> QED
    BY <2>1, <2>2, <2>4
<1>7. Groups \subseteq Communities
  <2> SUFFICES ASSUME NEW g \in Groups
               PROVE  g \in Communities
    OBVIOUS
  <2>1. PICK n \in Indices : g = {m \in Indices : root[m] = root[n]}
    BY <1>6
  <2>2. g = Joined(n, DOMAIN coupling.table)
    BY <1>5, <2>1
  <2> QED
    BY <1>6, <2>2 DEF Communities
<1>8. Communities \subseteq Groups
  <2> SUFFICES ASSUME NEW n \in Indices, Cardinality(Joined(n, DOMAIN coupling.table)) > 1
               PROVE  Joined(n, DOMAIN coupling.table) \in Groups
    BY DEF Communities
  <2>1. Joined(n, DOMAIN coupling.table) = Members(root[n]) /\ root[n] \in Indices
    BY <1>2, <1>3, <1>5
  <2> QED
    BY <2>1 DEF Groups
<1>9. Groups \in SUBSET (SUBSET Indices)
  BY <1>6
<1>10. IsFiniteSet(Groups)
  <2>1. IsFiniteSet(SUBSET Indices)
    BY NodesAreFinite, FS_SUBSET
  <2> QED
    BY <1>9, <2>1, FS_Subset
<1>11. \A g, h \in Groups : g # h => g \cap h = {}
  <2> TAKE g, h \in Groups
  <2>1. PICK m \in Indices : g = {k \in Indices : root[k] = root[m]}
    BY <1>6
  <2>2. PICK n \in Indices : h = {k \in Indices : root[k] = root[n]}
    BY <1>6
  <2> QED
    BY <2>1, <2>2
<1> QED
  BY <1>6, <1>7, <1>8, <1>9, <1>10, <1>11

(* The order of the groups is one.                                          *)
LEMMA PrecedenceIsOrder ==
  ASSUME NEW groups \in SUBSET (SUBSET Indices),
         \A g, h \in groups : g # h => g \cap h = {},
         \A g \in groups : Cardinality(g) > 1
  PROVE  IsOrderOn(Precedence(groups), groups)
<1>1. PICK size, first :
        \A g \in groups : /\ size[g] = Cardinality(g) /\ first[g] = Ascending(g)[1]
                          /\ size[g] \in Nat /\ first[g] \in Int /\ first[g] \in g
  <2> DEFINE size == [g \in groups |-> Cardinality(g)]
             first == [g \in groups |-> Ascending(g)[1]]
  <2>1. \A g \in groups : /\ Cardinality(g) \in Nat /\ Ascending(g)[1] \in g
                          /\ Ascending(g)[1] \in Int
    <3> TAKE g \in groups
    <3>1. g \in SUBSET Indices /\ Cardinality(g) > 1
      OBVIOUS
    <3>2. Cardinality(g) \in Nat /\ Ascending(g)[1] \in g
      BY <3>1, AscendingIsOrdered
    <3>3. Ascending(g)[1] \in Indices
      BY <3>1, <3>2
    <3>4. \A n \in Indices : n \in Int
      BY NodesAreFinite DEF Indices
    <3> QED
      BY <3>2, <3>3, <3>4
  <2>2. \A g \in groups : /\ size[g] = Cardinality(g) /\ first[g] = Ascending(g)[1]
                          /\ size[g] \in Nat /\ first[g] \in Int /\ first[g] \in g
    BY <2>1
  <2> HIDE DEF size, first
  <2> QED
    BY <2>2
<1>2. \A g, h \in groups :
        <<g, h>> \in Precedence(groups) <=>
          size[g] > size[h] \/ (size[g] = size[h] /\ first[g] < first[h])
  BY <1>1 DEF Precedence
<1>3. \A g \in groups : size[g] \in Nat /\ first[g] \in Int
  BY <1>1
<1>4. \A g, h \in groups : g # h => first[g] # first[h]
  BY <1>1
<1>5. \A x \in groups : <<x, x>> \notin Precedence(groups)
  BY <1>2, <1>3
<1>6. \A x, y \in groups : x # y => <<x, y>> \in Precedence(groups) \/ <<y, x>> \in Precedence(groups)
  BY <1>2, <1>3, <1>4
<1>7. \A x, y, z \in groups :
        <<x, y>> \in Precedence(groups) /\ <<y, z>> \in Precedence(groups)
        => <<x, z>> \in Precedence(groups)
  BY <1>2, <1>3
<1> QED
  BY <1>5, <1>6, <1>7 DEF IsOrderOn

LEMMA GroupLists ==
  ASSUME UnionTypes, Forest, Group
  PROVE  CommunitiesAreOrdered'
<1>1. unread = {} /\ UNCHANGED <<coupling, unread, parent>>
  BY DEF Group
<1>2. PICK groups : groups = Groups
  OBVIOUS
<1>3. /\ groups = Communities /\ groups \in SUBSET (SUBSET Indices) /\ IsFiniteSet(groups)
      /\ \A g, h \in groups : g # h => g \cap h = {}
      /\ \A g \in groups : Cardinality(g) > 1
  BY <1>1, <1>2, GroupsAreCommunities
<1>4. PICK sorted : sorted = Ranked(groups, Precedence(groups))
  OBVIOUS
<1>5. components' = [k \in DOMAIN sorted |-> Ascending(sorted[k])]
  BY <1>2, <1>4 DEF Group, Groups
<1>6. /\ sorted \in [1..Cardinality(groups) -> groups] /\ Range(sorted) = groups
      /\ \A j, k \in 1..Cardinality(groups) : j < k => <<sorted[j], sorted[k]>> \in Precedence(groups)
  <2>1. IsOrderOn(Precedence(groups), groups)
    BY <1>3, PrecedenceIsOrder
  <2> QED
    BY <1>3, <1>4, <2>1, RankedInOrder
<1>7. ASSUME NEW k \in DOMAIN sorted
      PROVE  /\ sorted[k] \in groups /\ k \in DOMAIN components' /\ components'[k] = Ascending(sorted[k])
             /\ Range(components'[k]) = sorted[k] /\ Len(components'[k]) = Cardinality(sorted[k])
             /\ \A i, j \in DOMAIN components'[k] : i < j => components'[k][i] < components'[k][j]
  <2>1. sorted[k] \in groups /\ sorted[k] \in SUBSET Indices
    BY <1>3, <1>6
  <2>2. k \in DOMAIN components' /\ components'[k] = Ascending(sorted[k])
    BY <1>5
  <2> QED
    BY <2>1, <2>2, AscendingIsOrdered
<1>8. DOMAIN components' = DOMAIN sorted /\ DOMAIN sorted = 1..Cardinality(groups)
  BY <1>5, <1>6
<1>9. {Range(components'[k]) : k \in DOMAIN components'} = groups
  <2>1. \A k \in DOMAIN components' : Range(components'[k]) = sorted[k] /\ sorted[k] \in groups
    BY <1>7, <1>8
  <2>2. \A g \in groups : \E k \in DOMAIN components' : sorted[k] = g
    BY <1>6, <1>8 DEF Range
  <2> QED
    BY <2>1, <2>2
<1>10. ASSUME NEW j \in DOMAIN components', NEW k \in DOMAIN components', j < k
       PROVE  \/ Len(components'[j]) > Len(components'[k])
              \/ /\ Len(components'[j]) = Len(components'[k])
                 /\ components'[j][1] < components'[k][1]
  <2>1. <<sorted[j], sorted[k]>> \in Precedence(groups)
    BY <1>6, <1>8, <1>10
  <2>2. \/ Cardinality(sorted[j]) > Cardinality(sorted[k])
        \/ /\ Cardinality(sorted[j]) = Cardinality(sorted[k])
           /\ Ascending(sorted[j])[1] < Ascending(sorted[k])[1]
    BY <2>1 DEF Precedence
  <2>3. /\ Len(components'[j]) = Cardinality(sorted[j]) /\ Len(components'[k]) = Cardinality(sorted[k])
        /\ components'[j] = Ascending(sorted[j]) /\ components'[k] = Ascending(sorted[k])
    BY <1>7, <1>8
  <2> QED
    BY <2>2, <2>3
<1>11. {Range(components'[k]) : k \in DOMAIN components'}
         = {g \in {Joined(n, DOMAIN coupling.table) : n \in Indices} : Cardinality(g) > 1}
  BY <1>3, <1>9 DEF Communities
<1>12. \A n, seen : Joined(n, seen)' = Joined(n, seen)
  BY <1>1 DEF Joined, Coupled
<1> QED
  BY <1>1, <1>7, <1>8, <1>10, <1>11, <1>12 DEF CommunitiesAreOrdered

-----------------------------------------------------------------------------
LEMMA UnionStarts == UnionInit => UnionInv
<1> SUFFICES ASSUME UnionInit
             PROVE  UnionInv
  OBVIOUS
<1>1. UnionTypes
  BY DEF UnionInit, UnionTypes
<1>2. CommunitiesAreOrdered
  BY DEF UnionInit, CommunitiesAreOrdered
<1> QED
  BY <1>1, <1>2, ForestStarts DEF UnionInv

LEMMA UnionGoesOn == UnionInv /\ [UnionNext]_unionVars => UnionInv'
<1> SUFFICES ASSUME UnionInv, [UnionNext]_unionVars
             PROVE  UnionInv'
  OBVIOUS
<1>1. UnionTypes'
  <2>1. CASE Union
    BY <2>1 DEF UnionInv, UnionTypes, Union
  <2>2. CASE Group
    BY <2>2 DEF UnionInv, UnionTypes, Group
  <2>3. CASE UNCHANGED unionVars
    BY <2>3 DEF UnionInv, UnionTypes, unionVars
  <2> QED
    BY <2>1, <2>2, <2>3 DEF UnionNext
<1>2. CASE Union
  <2>1. ~done'
    BY <1>2 DEF Union, UnionInv, UnionTypes
  <2>2. CommunitiesAreOrdered'
    BY <2>1 DEF CommunitiesAreOrdered
  <2> QED
    BY <1>1, <1>2, <2>2, UnionJoins DEF UnionInv
<1>3. CASE Group
  <2>1. UNCHANGED <<coupling, unread, parent>>
    BY <1>3 DEF Group
  <2>2. Coupled(Looked)' = Coupled(Looked)
    BY <2>1 DEF Coupled, Looked
  <2>3. Forest'
    BY <2>1, <2>2 DEF UnionInv, Forest
  <2> QED
    BY <1>1, <1>3, <2>3, GroupLists DEF UnionInv
<1>4. CASE UNCHANGED unionVars
  <2>1. UNCHANGED <<coupling, unread, parent, components, done>>
    BY <1>4 DEF unionVars
  <2>2. Coupled(Looked)' = Coupled(Looked)
    BY <2>1 DEF Coupled, Looked
  <2>3. Forest'
    BY <2>1, <2>2 DEF UnionInv, Forest
  <2>4. \A n, seen : Joined(n, seen)' = Joined(n, seen)
    BY <2>1 DEF Joined, Coupled
  <2>5. CommunitiesAreOrdered'
    BY <2>1, <2>4 DEF UnionInv, CommunitiesAreOrdered
  <2> QED
    BY <1>1, <2>3, <2>5 DEF UnionInv
<1> QED
  BY <1>2, <1>3, <1>4 DEF UnionNext

(* For every graph, and every order in which the edges of a node are looked *)
(* at: the roots tell the connected components from the first edge on, and  *)
(* the answer lists them once and in their only order.                      *)
THEOREM CommunitiesAreExact == UnionSpec => []CommunitiesAreComponents
<1>1. UnionInit => UnionInv
  BY UnionStarts
<1>2. UnionInv /\ [UnionNext]_unionVars => UnionInv'
  BY UnionGoesOn
<1>3. UnionInv => CommunitiesAreComponents
  BY ForestIsExact DEF UnionInv, CommunitiesAreComponents
<1> QED
  BY <1>1, <1>2, <1>3, PTL DEF UnionSpec

-----------------------------------------------------------------------------
(* runtime_dependency_cycles: the strong components of two digraphs.        *)

Mutual(one, other) == Leads(pairs, one, other) /\ Leads(pairs, other, one)

OnTheWay == {stack[k].node : k \in {j \in DOMAIN stack : stack[j].expanded}}

Finished == {finished[k] : k \in DOMAIN finished}

LeftLater(one, other) ==
  \E i, j \in DOMAIN finished : i < j /\ finished[i] = other /\ finished[j] = one

(* What the components of a digraph amount to.                              *)
CyclesIn(edges) == {files \in {FilesOf(c) : c \in Strong(edges)} : Several(files)}

Known == IF digraph = "files" THEN {} ELSE CyclesIn(Dependencies)

CycleTypes ==
  /\ program \in Programs /\ digraph \in {"files", "calls"}
  /\ pairs = IF digraph = "files" THEN Dependencies ELSE Calls
  /\ met \subseteq Keys /\ component \subseteq Keys
  /\ finished \in Seq(Keys) /\ \A i, j \in DOMAIN finished : finished[i] = finished[j] => i = j

(* The first pass: a node that is on the way leads to all that is above it, *)
(* its neighbours have been met or are above it, those of a finished node   *)
(* have been met.                                                           *)
WayUp ==
  /\ stack \in Seq([node : Keys, expanded : BOOLEAN])
  /\ met = Finished \cup OnTheWay /\ Finished \cap OnTheWay = {}
  /\ \A i, j \in DOMAIN stack :
       stack[i].expanded /\ stack[j].expanded /\ stack[i].node = stack[j].node => i = j
  /\ \A i, j \in DOMAIN stack :
       i < j /\ stack[i].expanded => Leads(pairs, stack[i].node, stack[j].node)
  /\ \A n \in Finished : Successors(n) \subseteq met
  /\ \A i \in DOMAIN stack : stack[i].expanded =>
       \A n \in Successors(stack[i].node) : n \in met \/ \E j \in DOMAIN stack : j > i /\ stack[j].node = n

(* Where a finished node leads to without a way back, some node of its own  *)
(* component was left later, or is on the way still.                        *)
LeftBehind ==
  \A n \in Finished : \A m \in Keys : Leads(pairs, n, m) /\ ~Leads(pairs, m, n) =>
    \E r \in Keys : Mutual(n, r) /\ (r \in OnTheWay \/ LeftLater(r, m))

(* The second pass: the component at hand, and those that are closed.       *)
AtHand == component \cup {stack[k] : k \in DOMAIN stack}

Assigned == met \ AtHand

LastIsOutermost ==
  \A n, m \in Keys : Leads(pairs, n, m) /\ ~Leads(pairs, m, n) =>
    \E r \in Keys : Mutual(n, r) /\ (r \notin Finished \/ LeftLater(r, m))

Gathering ==
  /\ stack \in Seq(Keys) /\ AtHand \subseteq met
  /\ Keys \ Finished \subseteq met
  /\ \A n \in Assigned : \A m \in Keys : Mutual(n, m) => m \in Assigned
  /\ \A n, m \in AtHand : Mutual(n, m)
  /\ AtHand # {} => AtHand \ Finished # {}
  /\ \A n \in component : Predecessors(n) \subseteq met
  /\ cycles = Known \cup {files \in {FilesOf(c) : c \in {k \in Strong(pairs) : k \subseteq Assigned}} :
                            Several(files)}

CyclesInv ==
  /\ CycleTypes
  /\ \/ pass = "order" /\ component = {} /\ cycles = Known /\ WayUp /\ LeftBehind
     \/ pass = "assign" /\ Gathering /\ LastIsOutermost
     \/ pass = "done" /\ digraph = "calls" /\ cycles = Known \cup CyclesIn(pairs)

(* To lead somewhere is reflexive and transitive, follows the edges, and    *)
(* leaves no set that is closed under them.                                 *)
LEMMA LeadsOn ==
  ASSUME NEW E
  PROVE  /\ \A n \in Ends(E) : Leads(E, n, n)
         /\ \A a, b \in Ends(E) : <<a, b>> \in E => Leads(E, a, b)
         /\ \A a, b, c \in Ends(E) : Leads(E, a, b) /\ Leads(E, b, c) => Leads(E, a, c)
         /\ \A S \in SUBSET Ends(E) : \A a \in S, b \in Ends(E) :
              (\A e \in E : e[1] \in S => e[2] \in S) /\ Leads(E, a, b) => b \in S
<1>1. \A n \in Ends(E) : Leads(E, n, n)
  BY DEF Leads
<1>2. ASSUME NEW a \in Ends(E), NEW b \in Ends(E), <<a, b>> \in E
      PROVE  Leads(E, a, b)
  <2> SUFFICES ASSUME NEW near \in SUBSET Ends(E), a \in near,
                      \A e \in E : e[1] \in near => e[2] \in near
               PROVE  b \in near
    BY DEF Leads
  <2> QED
    BY <1>2
<1>3. ASSUME NEW a \in Ends(E), NEW b \in Ends(E), NEW c \in Ends(E), Leads(E, a, b), Leads(E, b, c)
      PROVE  Leads(E, a, c)
  <2> SUFFICES ASSUME NEW near \in SUBSET Ends(E), a \in near,
                      \A e \in E : e[1] \in near => e[2] \in near
               PROVE  c \in near
    BY DEF Leads
  <2>1. b \in near
    BY <1>3 DEF Leads
  <2> QED
    BY <1>3, <2>1 DEF Leads
<1>4. ASSUME NEW S \in SUBSET Ends(E), NEW a \in S, NEW b \in Ends(E),
             \A e \in E : e[1] \in S => e[2] \in S, Leads(E, a, b)
      PROVE  b \in S
  BY <1>4 DEF Leads
<1> QED
  BY <1>1, <1>2, <1>3, <1>4

(* Dependencies are pairs of files, calls are pairs of nodes with an owner. *)
LEMMA PairsAreOwned ==
  ASSUME program \in Programs
  PROVE  /\ Dependencies \subseteq Files \X Files
         /\ Calls \subseteq Owned \X Owned
<1>1. \A kind : \A e \in Counted(kind) : e \in ProgramEdge /\ e.kind = kind
  BY CyclesAssumption DEF Counted
<1>2. \A e \in ProgramEdge : e.from \in Owned /\ (e.kind \in {"imports", "calls", "mounts"} => e.to \in Owned)
  BY DEF ProgramEdge
<1>3. \A n \in Owned : Owner[n] \in Files
  BY CyclesAssumption
<1>4. Transported \subseteq Files \X Files
  <2> SUFFICES ASSUME NEW p \in Counted("publishes") \X Counted("consumes")
               PROVE  <<Owner[p[1].from], Owner[p[2].from]>> \in Files \X Files
    BY DEF Transported
  <2>1. p[1] \in ProgramEdge /\ p[2] \in ProgramEdge
    BY <1>1
  <2> QED
    BY <1>2, <1>3, <2>1
<1>5. {<<Owner[e.from], Owner[e.to]>> : e \in Counted("imports") \cup Counted("mounts")} \subseteq Files \X Files
  <2> SUFFICES ASSUME NEW e \in Counted("imports") \cup Counted("mounts")
               PROVE  <<Owner[e.from], Owner[e.to]>> \in Files \X Files
    OBVIOUS
  <2>1. e \in ProgramEdge /\ e.kind \in {"imports", "calls", "mounts"}
    BY <1>1
  <2> QED
    BY <1>2, <1>3, <2>1
<1>6. Dependencies \subseteq Files \X Files
  BY <1>4, <1>5 DEF Dependencies
<1>7. Calls \subseteq Owned \X Owned
  <2> SUFFICES ASSUME NEW e \in Counted("calls")
               PROVE  <<e.from, e.to>> \in Owned \X Owned
    BY DEF Calls
  <2>1. e \in ProgramEdge /\ e.kind = "calls"
    BY <1>1
  <2> QED
    BY <1>2, <2>1
<1> QED
  BY <1>6, <1>7

LEMMA KeyTypes ==
  ASSUME CycleTypes
  PROVE  /\ \A e \in pairs : e = <<e[1], e[2]>> /\ e[1] \in Keys /\ e[2] \in Keys
         /\ Keys \subseteq Owned /\ Keys \subseteq Nat /\ IsFiniteSet(Keys)
         /\ \A n, m : m \in Successors(n) <=> <<n, m>> \in pairs
         /\ \A n, m : m \in Predecessors(n) <=> <<m, n>> \in pairs
         /\ \A n : Successors(n) \subseteq Keys /\ Predecessors(n) \subseteq Keys
<1>1. pairs \subseteq Owned \X Owned
  BY PairsAreOwned DEF CycleTypes, Owned
<1>2. \A e \in pairs : e = <<e[1], e[2]>> /\ e[1] \in Owned /\ e[2] \in Owned
  BY <1>1
<1>3. \A e \in pairs : e[1] \in Keys /\ e[2] \in Keys
  BY DEF Keys, Ends
<1>4. Keys \subseteq Owned
  BY <1>2 DEF Keys, Ends
<1>5. Keys \subseteq Nat /\ IsFiniteSet(Keys)
  BY <1>4, CyclesAssumption, FS_Subset
<1>6. \A n, m : m \in Successors(n) <=> <<n, m>> \in pairs
  BY <1>2 DEF Successors
<1>7. \A n, m : m \in Predecessors(n) <=> <<m, n>> \in pairs
  BY <1>2 DEF Predecessors
<1>8. \A n : Successors(n) \subseteq Keys /\ Predecessors(n) \subseteq Keys
  BY <1>3 DEF Successors, Predecessors
<1> QED
  BY <1>2, <1>3, <1>4, <1>5, <1>6, <1>7, <1>8

(* What is pushed are the nodes, each at some place.                        *)
LEMMA PushedOnce ==
  ASSUME NEW S, IsFiniteSet(S), S \subseteq Nat
  PROVE  /\ Pushed(S) \in Seq(S)
         /\ \A n \in S : \E k \in DOMAIN Pushed(S) : Pushed(S)[k] = n
<1> DEFINE order == {pair \in S \X S : pair[1] > pair[2]}
<1>1. IsOrderOn(order, S)
  BY DEF IsOrderOn
<1>3. Pushed(S) = InOrder(S, order)
  BY DEF Pushed, InOrder
<1> HIDE DEF order
<1>4. Cardinality(S) \in Nat
  BY FS_CardinalityType
<1>5. InOrder(S, order) \in [1..Cardinality(S) -> S] /\ Range(InOrder(S, order)) = S
  BY <1>1, ListedInOrder
<1>6. Pushed(S) \in Seq(S)
  BY <1>3, <1>4, <1>5
<1>7. \A n \in S : \E k \in DOMAIN Pushed(S) : Pushed(S)[k] = n
  BY <1>3, <1>5 DEF Range
<1> QED
  BY <1>6, <1>7

(* The places of a stack whose top is taken.                                *)
LEMMA FrontPlaces ==
  ASSUME NEW S, NEW q \in Seq(S), q # <<>>
  PROVE  /\ Len(q) \in DOMAIN q /\ Last(q) = q[Len(q)] /\ Last(q) \in S
         /\ Front(q) \in Seq(S) /\ Len(Front(q)) = Len(q) - 1
         /\ \A k \in DOMAIN Front(q) : k \in DOMAIN q /\ k < Len(q) /\ Front(q)[k] = q[k]
         /\ \A k \in DOMAIN q : k = Len(q) \/ k \in DOMAIN Front(q)
<1>1. Len(q) \in Nat \ {0} /\ DOMAIN q = 1..Len(q)
  OBVIOUS
<1>2. Front(q) = SubSeq(q, 1, Len(q) - 1)
  BY DEF Front
<1>3. Front(q) \in Seq(S) /\ Len(Front(q)) = Len(q) - 1
  BY <1>1, <1>2
<1>4. \A k \in 1..(Len(q) - 1) : Front(q)[k] = q[k]
  BY <1>1, <1>2
<1>5. DOMAIN Front(q) = 1..(Len(q) - 1)
  BY <1>1, <1>3
<1> QED
  BY <1>1, <1>3, <1>4, <1>5 DEF Last

LEMMA MutualOn ==
  ASSUME NEW a \in Keys
  PROVE  /\ Leads(pairs, a, a) /\ Mutual(a, a)
         /\ \A b \in Keys : Mutual(a, b) => Mutual(b, a)
         /\ \A b, c \in Keys : /\ Leads(pairs, a, b) /\ Leads(pairs, b, c) => Leads(pairs, a, c)
                               /\ Mutual(a, b) /\ Mutual(b, c) => Mutual(a, c)
BY LeadsOn DEF Mutual, Keys

(* The graph stays while a pass goes on.                                    *)
LEMMA GraphStays ==
  ASSUME pairs' = pairs, program' = program, digraph' = digraph
  PROVE  /\ Keys' = Keys /\ Known' = Known
         /\ (Dependencies' = Dependencies /\ Calls' = Calls)
         /\ \A a, b : Mutual(a, b)' = Mutual(a, b)
         /\ \A n : Successors(n)' = Successors(n) /\ Predecessors(n)' = Predecessors(n)
<1>1. Keys' = Keys
  BY DEF Keys
<1>2. Dependencies' = Dependencies /\ Calls' = Calls
  BY DEF Dependencies, Calls, Transported, Counted, Visible
<1>3. Known' = Known
  BY <1>2 DEF Known
<1>4. \A a, b : Mutual(a, b)' = Mutual(a, b)
  BY DEF Mutual
<1>5. \A n : Successors(n)' = Successors(n) /\ Predecessors(n)' = Predecessors(n)
  BY DEF Successors, Predecessors
<1> QED
  BY <1>1, <1>2, <1>3, <1>4, <1>5

(* A node that is left goes to the end of the list.                         *)
LEMMA FinishedGrows ==
  ASSUME NEW g \in Keys, finished \in Seq(Keys), finished' = Append(finished, g)
  PROVE  /\ finished' \in Seq(Keys)
         /\ Finished' = Finished \cup {g}
         /\ \A r, m : LeftLater(r, m) => LeftLater(r, m)'
         /\ \A m \in Finished : LeftLater(g, m)'
         /\ (\A i, j \in DOMAIN finished : finished[i] = finished[j] => i = j) /\ g \notin Finished
              => \A i, j \in DOMAIN finished' : finished'[i] = finished'[j] => i = j
<1>1. finished' \in Seq(Keys) /\ DOMAIN finished \subseteq DOMAIN finished'
  BY AppendPlaces
<1>2. DOMAIN finished' = DOMAIN finished \cup {Len(finished) + 1} /\ finished'[Len(finished) + 1] = g
  BY AppendPlaces
<1>3. \A k \in DOMAIN finished : k < Len(finished) + 1 /\ k \in Nat /\ finished'[k] = finished[k]
  OBVIOUS
<1>4. Finished' = Finished \cup {g}
  BY <1>2, <1>3 DEF Finished
<1>5. \A r, m : LeftLater(r, m) => LeftLater(r, m)'
  BY <1>1, <1>3 DEF LeftLater
<1>6. \A m \in Finished : LeftLater(g, m)'
  <2> SUFFICES ASSUME NEW k \in DOMAIN finished
               PROVE  LeftLater(g, finished[k])'
    BY DEF Finished
  <2>1. k \in DOMAIN finished' /\ Len(finished) + 1 \in DOMAIN finished' /\ k < Len(finished) + 1
    BY <1>2, <1>3
  <2>2. finished'[k] = finished[k] /\ finished'[Len(finished) + 1] = g
    BY <1>2, <1>3
  <2>3. \E i, j \in DOMAIN finished' : i < j /\ finished'[i] = finished[k] /\ finished'[j] = g
    BY <2>1, <2>2
  <2> QED
    BY <2>3 DEF LeftLater
<1>7. ASSUME \A i, j \in DOMAIN finished : finished[i] = finished[j] => i = j, g \notin Finished,
             NEW i \in DOMAIN finished', NEW j \in DOMAIN finished', finished'[i] = finished'[j]
      PROVE  i = j
  <2>1. \A k \in DOMAIN finished : finished[k] # g
    BY <1>7 DEF Finished
  <2> QED
    BY <1>2, <1>3, <1>7, <2>1
<1> QED
  BY <1>1, <1>4, <1>5, <1>6, <1>7

(* The second entry of a node is popped: the node is left.                  *)
LEMMA LeavingKeeps ==
  ASSUME CycleTypes, WayUp, LeftBehind, stack # <<>>, Last(stack).expanded,
         stack' = Front(stack), finished' = Append(finished, Last(stack).node),
         met' = met, pairs' = pairs, program' = program, digraph' = digraph, component' = component
  PROVE  CycleTypes' /\ WayUp' /\ LeftBehind'
<1> DEFINE top == Len(stack)
           Entries == [node : Keys, expanded : BOOLEAN]
<1>0. /\ top \in DOMAIN stack /\ Last(stack) = stack[top] /\ stack[top] \in Entries
      /\ stack' \in Seq(Entries)
      /\ \A k \in DOMAIN stack' : k \in DOMAIN stack /\ k < top /\ stack'[k] = stack[k]
      /\ \A k \in DOMAIN stack : k = top \/ k \in DOMAIN stack'
  <2>1. stack \in Seq(Entries)
    BY DEF WayUp
  <2> HIDE DEF Entries
  <2> QED
    BY <2>1, FrontPlaces
<1>1. /\ stack \in Seq([node : Keys, expanded : BOOLEAN])
      /\ top \in DOMAIN stack /\ Last(stack) = stack[top] /\ stack[top] \in [node : Keys, expanded : BOOLEAN]
      /\ stack' \in Seq([node : Keys, expanded : BOOLEAN])
      /\ \A k \in DOMAIN stack' : k \in DOMAIN stack /\ k < top /\ stack'[k] = stack[k]
      /\ \A k \in DOMAIN stack : k = top \/ k \in DOMAIN stack'
  BY <1>0 DEF WayUp
<1>20. PICK g \in Keys : g = stack[top].node
  BY <1>1
<1>2. g \in Keys /\ stack[top].expanded /\ g \in OnTheWay
  BY <1>1, <1>20 DEF OnTheWay
<1> HIDE DEF top
<1>3. g \notin Finished
  BY <1>2 DEF WayUp
<1>4. finished' = Append(finished, g) /\ finished \in Seq(Keys)
  BY <1>1, <1>20 DEF CycleTypes
<1>5. /\ finished' \in Seq(Keys)
      /\ Finished' = Finished \cup {g}
      /\ \A r, m : LeftLater(r, m) => LeftLater(r, m)'
      /\ \A m \in Finished : LeftLater(g, m)'
      /\ \A i, j \in DOMAIN finished' : finished'[i] = finished'[j] => i = j
  <2>1. \A i, j \in DOMAIN finished : finished[i] = finished[j] => i = j
    BY DEF CycleTypes
  <2>2. /\ finished' \in Seq(Keys)
        /\ Finished' = Finished \cup {g}
        /\ \A r, m : LeftLater(r, m) => LeftLater(r, m)'
        /\ \A m \in Finished : LeftLater(g, m)'
        /\ (\A i, j \in DOMAIN finished : finished[i] = finished[j] => i = j) /\ g \notin Finished
              => \A i, j \in DOMAIN finished' : finished'[i] = finished'[j] => i = j
    BY <1>2, <1>4, FinishedGrows, Zenon
  <2> QED
    BY <1>3, <2>1, <2>2
<1>6. \A k \in DOMAIN stack : stack[k].expanded /\ k # top => stack[k].node # g
  BY <1>20, <1>1, <1>2 DEF WayUp
<1>7. OnTheWay' = OnTheWay \ {g}
  <2>1. ASSUME NEW n \in OnTheWay'
        PROVE  n \in OnTheWay \ {g}
    <3>1. PICK k \in DOMAIN stack' : stack'[k].expanded /\ stack'[k].node = n
      BY DEF OnTheWay
    <3>2. k \in DOMAIN stack /\ k # top /\ stack[k] = stack'[k] /\ k < top
      BY <1>1, <3>1
    <3> QED
      BY <1>6, <3>1, <3>2 DEF OnTheWay
  <2>2. ASSUME NEW n \in OnTheWay, n # g
        PROVE  n \in OnTheWay'
    <3>1. PICK k \in DOMAIN stack : stack[k].expanded /\ stack[k].node = n
      BY DEF OnTheWay
    <3>2. k # top
      BY <1>20, <2>2, <3>1
    <3>3. k \in DOMAIN stack' /\ stack'[k] = stack[k]
      BY <1>1, <3>2
    <3> QED
      BY <3>1, <3>3 DEF OnTheWay
  <2> QED
    BY <2>1, <2>2
<1>8. /\ Keys' = Keys /\ Dependencies' = Dependencies /\ Calls' = Calls
      /\ \A a, b : Mutual(a, b)' = Mutual(a, b)
      /\ \A n : Successors(n)' = Successors(n)
  BY GraphStays
<1>9. CycleTypes'
  BY <1>5, <1>8 DEF CycleTypes
<1>10. Successors(g) \subseteq met
  BY <1>20, <1>1, <1>2 DEF WayUp
<1>11. WayUp'
  <2>1. met' = Finished' \cup OnTheWay' /\ Finished' \cap OnTheWay' = {}
    BY <1>2, <1>3, <1>5, <1>7 DEF WayUp
  <2>2. \A i, j \in DOMAIN stack' :
          stack'[i].expanded /\ stack'[j].expanded /\ stack'[i].node = stack'[j].node => i = j
    BY <1>1 DEF WayUp
  <2>3. \A i, j \in DOMAIN stack' :
          i < j /\ stack'[i].expanded => Leads(pairs, stack'[i].node, stack'[j].node)
    BY <1>1 DEF WayUp
  <2>4. \A n \in Finished' : Successors(n)' \subseteq met'
    BY <1>5, <1>8, <1>10 DEF WayUp
  <2>5. ASSUME NEW i \in DOMAIN stack', stack'[i].expanded, NEW n \in Successors(stack'[i].node)
        PROVE  n \in met \/ \E j \in DOMAIN stack' : j > i /\ stack'[j].node = n
    <3>1. i \in DOMAIN stack /\ stack[i] = stack'[i]
      BY <1>1
    <3>2. n \in met \/ \E j \in DOMAIN stack : j > i /\ stack[j].node = n
      BY <2>5, <3>1 DEF WayUp
    <3>3. stack[top].node \in met
      BY <1>20, <1>2 DEF WayUp
    <3> QED
      BY <1>1, <3>2, <3>3
  <2> QED
    BY <1>1, <1>8, <2>1, <2>2, <2>3, <2>4, <2>5 DEF WayUp
<1>12. \A r \in OnTheWay : r # g => Leads(pairs, r, g)
  <2> SUFFICES ASSUME NEW k \in DOMAIN stack, stack[k].expanded, stack[k].node # g
               PROVE  Leads(pairs, stack[k].node, g)
    BY DEF OnTheWay
  <2>1. k < top
    BY <1>1, <1>20
  <2> QED
    BY <1>20, <1>1, <2>1 DEF WayUp
<1>13. Finished \subseteq Keys /\ OnTheWay \subseteq Keys
  <2>1. \A k \in DOMAIN stack : stack[k] \in Entries
    <3>1. stack \in Seq(Entries)
      BY <1>1
    <3> HIDE DEF Entries
    <3> QED
      BY <3>1
  <2>2. \A k \in DOMAIN finished : finished[k] \in Keys
    BY <1>4
  <2> QED
    BY <2>1, <2>2 DEF Finished, OnTheWay
<1>14. ASSUME NEW m \in Keys, Leads(pairs, g, m), ~Leads(pairs, m, g)
       PROVE  \E r \in Keys : Mutual(g, r) /\ (r \in OnTheWay' \/ LeftLater(r, m)')
  <2>1. CASE \E r \in OnTheWay \ {g} : Leads(pairs, g, r)
    BY <1>7, <1>12, <1>13, <2>1 DEF Mutual
  <2>2. CASE \A r \in OnTheWay \ {g} : ~Leads(pairs, g, r)
    <3> DEFINE S == {n \in Finished \cup {g} : Leads(pairs, g, n)}
    <3>1. S \in SUBSET Keys /\ g \in S
      BY <1>2, <1>13, MutualOn
    <3>2. ASSUME NEW e \in pairs, e[1] \in S
          PROVE  e[2] \in S
      <4>1. e = <<e[1], e[2]>> /\ e[1] \in Keys /\ e[2] \in Keys /\ e[2] \in Successors(e[1])
        BY KeyTypes
      <4>2. e[2] \in met
        BY <1>10, <3>2, <4>1 DEF WayUp
      <4>3. Leads(pairs, e[1], e[2])
        BY <4>1, LeadsOn DEF Keys
      <4>4. Leads(pairs, g, e[2])
        BY <1>2, <3>2, <4>1, <4>3, MutualOn
      <4> QED
        BY <2>2, <4>2, <4>4 DEF WayUp
    <3>3. m \in S
      <4> HIDE DEF S
      <4> QED
        BY <1>14, <3>1, <3>2, LeadsOn DEF Keys
    <3>4. m # g
      BY <1>2, <1>14, MutualOn
    <3>5. LeftLater(g, m)'
      BY <1>5, <3>3, <3>4
    <3>6. Mutual(g, g)
      BY <1>2, MutualOn
    <3> QED
      BY <1>2, <3>5, <3>6
  <2> QED
    BY <2>1, <2>2
<1>15. ASSUME NEW n \in Finished', NEW m \in Keys, Leads(pairs, n, m), ~Leads(pairs, m, n)
       PROVE  \E r \in Keys : Mutual(n, r) /\ (r \in OnTheWay' \/ LeftLater(r, m)')
  <2>1. CASE n = g
    BY <1>14, <1>15, <2>1
  <2>2. CASE n \in Finished
    <3>1. PICK r \in Keys : Mutual(n, r) /\ (r \in OnTheWay \/ LeftLater(r, m))
      BY <1>15, <2>2 DEF LeftBehind
    <3>2. CASE LeftLater(r, m) \/ r \in OnTheWay'
      BY <1>5, <3>1, <3>2
    <3>3. CASE r = g
      <4>1. n \in Keys /\ Mutual(g, n) /\ Leads(pairs, g, n) /\ Leads(pairs, n, g)
        BY <1>13, <2>2, <3>1, <3>3, MutualOn DEF Mutual
      <4>2. Leads(pairs, g, m) /\ ~Leads(pairs, m, g)
        BY <1>2, <1>15, <4>1, MutualOn
      <4>3. PICK s \in Keys : Mutual(g, s) /\ (s \in OnTheWay' \/ LeftLater(s, m)')
        BY <1>14, <4>2
      <4>4. Mutual(n, s)
        BY <1>2, <3>1, <3>3, <4>1, <4>3, MutualOn
      <4> QED
        BY <4>3, <4>4
    <3> QED
      BY <1>7, <3>1, <3>2, <3>3
  <2> QED
    BY <1>5, <2>1, <2>2
<1>16. LeftBehind'
  BY <1>8, <1>15 DEF LeftBehind
<1> QED
  BY <1>9, <1>11, <1>16

(* A neighbour is popped that has been met.                                 *)
LEMMA PassingKeeps ==
  ASSUME CycleTypes, WayUp, LeftBehind, stack # <<>>, ~Last(stack).expanded, Last(stack).node \in met,
         stack' = Front(stack), finished' = finished,
         met' = met, pairs' = pairs, program' = program, digraph' = digraph, component' = component
  PROVE  CycleTypes' /\ WayUp' /\ LeftBehind'
<1> DEFINE top == Len(stack)
           Entries == [node : Keys, expanded : BOOLEAN]
<1>1. /\ stack \in Seq(Entries)
      /\ top \in DOMAIN stack /\ Last(stack) = stack[top] /\ stack[top] \in Entries
      /\ stack' \in Seq(Entries)
      /\ \A k \in DOMAIN stack' : k \in DOMAIN stack /\ k < top /\ stack'[k] = stack[k]
      /\ \A k \in DOMAIN stack : k = top \/ k \in DOMAIN stack'
  <2>1. stack \in Seq(Entries)
    BY DEF WayUp
  <2> HIDE DEF Entries
  <2> QED
    BY <2>1, FrontPlaces
<1> HIDE DEF top
<1>2. OnTheWay' = OnTheWay
  BY <1>1 DEF OnTheWay
<1>3. /\ Keys' = Keys /\ Dependencies' = Dependencies /\ Calls' = Calls
      /\ \A a, b : Mutual(a, b)' = Mutual(a, b)
      /\ \A n : Successors(n)' = Successors(n)
  BY GraphStays
<1>4. Finished' = Finished /\ \A r, m : LeftLater(r, m)' = LeftLater(r, m)
  BY DEF Finished, LeftLater
<1>5. CycleTypes'
  BY <1>3 DEF CycleTypes
<1>6. WayUp'
  <2>1. ASSUME NEW i \in DOMAIN stack', stack'[i].expanded, NEW n \in Successors(stack'[i].node)
        PROVE  n \in met \/ \E j \in DOMAIN stack' : j > i /\ stack'[j].node = n
    <3>1. i \in DOMAIN stack /\ stack[i] = stack'[i]
      BY <1>1
    <3>2. n \in met \/ \E j \in DOMAIN stack : j > i /\ stack[j].node = n
      BY <2>1, <3>1 DEF WayUp
    <3>3. stack[top].node \in met
      BY <1>1
    <3> QED
      BY <1>1, <3>2, <3>3
  <2>2. \A i, j \in DOMAIN stack' :
          stack'[i].expanded /\ stack'[j].expanded /\ stack'[i].node = stack'[j].node => i = j
    BY <1>1 DEF WayUp
  <2>3. \A i, j \in DOMAIN stack' :
          i < j /\ stack'[i].expanded => Leads(pairs, stack'[i].node, stack'[j].node)
    BY <1>1 DEF WayUp
  <2> QED
    BY <1>1, <1>2, <1>3, <1>4, <2>1, <2>2, <2>3 DEF WayUp
<1>7. LeftBehind'
  BY <1>2, <1>3, <1>4 DEF LeftBehind
<1> QED
  BY <1>5, <1>6, <1>7

(* The places of two lists in a row.                                        *)
LEMMA ConcatPlaces ==
  ASSUME NEW S, NEW a \in Seq(S), NEW b \in Seq(S)
  PROVE  /\ a \o b \in Seq(S) /\ Len(a \o b) = Len(a) + Len(b)
         /\ \A k \in DOMAIN a : k \in DOMAIN (a \o b) /\ (a \o b)[k] = a[k]
         /\ \A k \in DOMAIN b : Len(a) + k \in DOMAIN (a \o b) /\ (a \o b)[Len(a) + k] = b[k]
         /\ \A k \in DOMAIN (a \o b) :
              k \in DOMAIN a \/ (k - Len(a) \in DOMAIN b /\ (a \o b)[k] = b[k - Len(a)])
OBVIOUS

(* A stack whose top is replaced by an item with others above it.           *)
HasReplaced(new, S, q, item, more) ==
  /\ new \in Seq(S) /\ DOMAIN q \subseteq DOMAIN new /\ new[Len(q)] = item
  /\ \A k \in DOMAIN new : /\ k \in Nat
                           /\ k < Len(q) => k \in DOMAIN q /\ new[k] = q[k]
                           /\ k > Len(q) => \E j \in DOMAIN more : new[k] = more[j]
  /\ \A k \in DOMAIN q : k < Len(q) => new[k] = q[k]
  /\ \A j \in DOMAIN more : \E k \in DOMAIN new : k > Len(q) /\ new[k] = more[j]

LEMMA ReplacedPlaces ==
  ASSUME NEW S, NEW q \in Seq(S), q # <<>>, NEW item \in S, NEW more \in Seq(S)
  PROVE  HasReplaced(Append(Front(q), item) \o more, S, q, item, more)
<1> DEFINE low == Front(q)
           front == Append(low, item)
<1>0. PICK new : new = Append(Front(q), item) \o more
  OBVIOUS
<1>1. PICK n \in Nat \ {0} : Len(q) = n
  OBVIOUS
<1>2. PICK m \in Nat : Len(more) = m
  OBVIOUS
<1>3. DOMAIN q = 1..n /\ DOMAIN more = 1..m
  BY <1>1, <1>2
<1>4. low \in Seq(S) /\ Len(low) = n - 1 /\ \A k \in DOMAIN low : low[k] = q[k]
  BY <1>1, FrontPlaces
<1>19. new = front \o more
  BY <1>0
<1> HIDE DEF low
<1>5. DOMAIN low = 1..(n - 1)
  BY <1>4
<1>6. front \in Seq(S) /\ Len(front) = n /\ front[n] = item
  BY <1>4
<1>7. \A k \in 1..(n - 1) : front[k] = low[k]
  BY <1>4, <1>5
<1> HIDE DEF front
<1>20. front \o more \in Seq(S) /\ DOMAIN (front \o more) = 1..(n + m)
  <2>1. front \o more \in Seq(S)
    BY <1>6
  <2>2. Len(front \o more) = Len(front) + Len(more)
    BY <1>6, ConcatPlaces
  <2>3. Len(front \o more) = n + m
    BY <1>2, <1>6, <2>2
  <2> QED
    BY <2>1, <2>3
<1>21. \A k \in 1..n : (front \o more)[k] = front[k]
  BY <1>2, <1>6
<1>22. \A k \in 1..(n + m) : k > n => k - n \in 1..m /\ (front \o more)[k] = more[k - n]
  BY <1>2, <1>6
<1>8. new \in Seq(S) /\ DOMAIN new = 1..(n + m)
  BY <1>19, <1>20
<1>9. \A k \in 1..n : new[k] = front[k]
  BY <1>19, <1>21
<1>10. \A k \in 1..(n + m) : k > n => k - n \in 1..m /\ new[k] = more[k - n]
  BY <1>19, <1>22
<1>11. \A k \in DOMAIN new : k \in Nat /\ (k < n => k \in DOMAIN q /\ new[k] = q[k])
  <2> TAKE k \in DOMAIN new
  <2>1. k \in 1..(n + m)
    BY <1>8
  <2>2. k < n => k \in 1..(n - 1) /\ k \in 1..n
    BY <2>1
  <2>3. \A i \in 1..(n - 1) : low[i] = q[i]
    BY <1>4, <1>5
  <2> QED
    BY <1>3, <1>7, <1>9, <2>1, <2>2, <2>3
<1>12. \A k \in DOMAIN new : k > n => \E j \in DOMAIN more : new[k] = more[j]
  BY <1>3, <1>8, <1>10
<1>13. \A j \in DOMAIN more : \E k \in DOMAIN new : k > n /\ new[k] = more[j]
  <2> TAKE j \in DOMAIN more
  <2>1. j \in 1..m /\ j + n \in 1..(n + m) /\ j + n > n /\ (j + n) - n = j
    BY <1>3
  <2> QED
    BY <1>8, <1>10, <2>1
<1>14. DOMAIN q \subseteq DOMAIN new /\ new[n] = item
  BY <1>3, <1>6, <1>8, <1>9
<1>15. \A k \in DOMAIN q : k < n => new[k] = q[k]
  <2> TAKE k \in DOMAIN q
  <2>1. k < n => k \in 1..(n - 1) /\ k \in 1..n
    BY <1>3
  <2>2. \A i \in 1..(n - 1) : low[i] = q[i]
    BY <1>4, <1>5
  <2> QED
    BY <1>7, <1>9, <2>1, <2>2
<1>16. HasReplaced(new, S, q, item, more)
  BY <1>1, <1>8, <1>11, <1>12, <1>13, <1>14, <1>15 DEF HasReplaced
<1> QED
  BY <1>0, <1>16, Zenon

(* A node is met: it is on the way, under its neighbours.                   *)
LEMMA MeetingKeeps ==
  ASSUME CycleTypes, WayUp, LeftBehind, stack # <<>>, ~Last(stack).expanded, Last(stack).node \notin met,
         met' = met \cup {Last(stack).node}, finished' = finished,
         stack' = Append(Front(stack), Entry(Last(stack).node, TRUE))
                    \o [k \in DOMAIN Pushed(Successors(Last(stack).node)) |->
                          Entry(Pushed(Successors(Last(stack).node))[k], FALSE)],
         pairs' = pairs, program' = program, digraph' = digraph, component' = component
  PROVE  CycleTypes' /\ WayUp' /\ LeftBehind'
<1> DEFINE Entries == [node : Keys, expanded : BOOLEAN]
<1>1. PICK top \in Nat : top = Len(stack)
  BY DEF WayUp
<1>2. /\ stack \in Seq(Entries) /\ top \in DOMAIN stack
      /\ Last(stack) = stack[top] /\ stack[top] \in Entries
      /\ \A k \in DOMAIN stack : stack[k] \in Entries /\ k <= top
  <2>1. stack \in Seq(Entries)
    BY DEF WayUp
  <2> HIDE DEF Entries
  <2> QED
    BY <1>1, <2>1, FrontPlaces
<1>3. PICK g \in Keys : g = Last(stack).node
  BY <1>2
<1>4. stack[top].node = g /\ ~stack[top].expanded /\ g \notin met
  BY <1>2, <1>3
<1> DEFINE next == Pushed(Successors(g))
           more == [k \in DOMAIN next |-> Entry(next[k], FALSE)]
<1>5. Successors(g) \subseteq Keys /\ IsFiniteSet(Successors(g)) /\ Successors(g) \subseteq Nat
  BY KeyTypes, FS_Subset
<1>6. next \in Seq(Successors(g)) /\ \A n \in Successors(g) : \E k \in DOMAIN next : next[k] = n
  BY <1>5, PushedOnce
<1>7. /\ more \in Seq(Entries)
      /\ \A j \in DOMAIN more : more[j].node \in Successors(g) /\ ~more[j].expanded
      /\ \A n \in Successors(g) : \E j \in DOMAIN more : more[j].node = n
  <2>1. \A k \in DOMAIN next : next[k] \in Successors(g)
    BY <1>6
  <2>2. \A k \in DOMAIN next : more[k].node = next[k] /\ more[k].expanded = FALSE /\ more[k] \in Entries
    BY <1>5, <2>1 DEF Entry
  <2>3. Len(next) \in Nat /\ DOMAIN next = 1..Len(next)
    BY <1>6
  <2>4. DOMAIN more = DOMAIN next
    OBVIOUS
  <2>5. more \in Seq(Entries)
    <3> HIDE DEF Entries, next
    <3>1. \A k \in 1..Len(next) : Entry(next[k], FALSE) \in Entries
      BY <2>2, <2>3
    <3>2. more \in [1..Len(next) -> Entries]
      BY <2>3, <3>1
    <3> HIDE DEF more
    <3> QED
      BY <2>3, <3>2
  <2> HIDE DEF next, more
  <2> QED
    BY <1>6, <2>1, <2>2, <2>4, <2>5
<1>8. stack' = Append(Front(stack), Entry(g, TRUE)) \o more
  BY <1>3
<1>9. Entry(g, TRUE) \in Entries /\ Entry(g, TRUE).node = g /\ Entry(g, TRUE).expanded
  BY DEF Entry
<1> HIDE DEF next, more, Entries
<1>10. /\ stack' \in Seq(Entries) /\ DOMAIN stack \subseteq DOMAIN stack' /\ stack'[top] = Entry(g, TRUE)
       /\ \A k \in DOMAIN stack' : /\ k \in Nat
                                   /\ k < top => k \in DOMAIN stack /\ stack'[k] = stack[k]
                                   /\ k > top => \E j \in DOMAIN more : stack'[k] = more[j]
       /\ \A k \in DOMAIN stack : k < top => stack'[k] = stack[k]
       /\ \A j \in DOMAIN more : \E k \in DOMAIN stack' : k > top /\ stack'[k] = more[j]
  <2>1. Entry(g, TRUE) \in Entries /\ stack # <<>> /\ more \in Seq(Entries)
    BY <1>7, <1>9
  <2>2. /\ stack' \in Seq(Entries) /\ DOMAIN stack \subseteq DOMAIN stack' /\ stack'[Len(stack)] = Entry(g, TRUE)
        /\ \A k \in DOMAIN stack' : /\ k \in Nat
                                    /\ k < Len(stack) => k \in DOMAIN stack /\ stack'[k] = stack[k]
                                    /\ k > Len(stack) => \E j \in DOMAIN more : stack'[k] = more[j]
        /\ \A k \in DOMAIN stack : k < Len(stack) => stack'[k] = stack[k]
        /\ \A j \in DOMAIN more : \E k \in DOMAIN stack' : k > Len(stack) /\ stack'[k] = more[j]
    <3>1. HasReplaced(Append(Front(stack), Entry(g, TRUE)) \o more, Entries, stack, Entry(g, TRUE), more)
      BY <1>2, <2>1, ReplacedPlaces
    <3>2. HasReplaced(stack', Entries, stack, Entry(g, TRUE), more)
      BY <1>8, <3>1, Zenon
    <3> QED
      BY <3>2 DEF HasReplaced
  <2> QED
    BY <1>1, <2>2
<1>11. /\ Keys' = Keys /\ Dependencies' = Dependencies /\ Calls' = Calls
       /\ \A a, b : Mutual(a, b)' = Mutual(a, b)
       /\ \A n : Successors(n)' = Successors(n)
  BY GraphStays
<1>12. Finished' = Finished /\ \A r, m : LeftLater(r, m)' = LeftLater(r, m)
  BY DEF Finished, LeftLater
<1>13. CycleTypes'
  BY <1>3, <1>11 DEF CycleTypes
<1>14. /\ stack'[top].node = g /\ stack'[top].expanded /\ top \in DOMAIN stack'
       /\ \A k \in DOMAIN stack' : stack'[k].expanded => k <= top
       /\ \A k \in DOMAIN stack' : k > top => stack'[k].node \in Successors(g)
  <2>1. \A k \in DOMAIN stack' : k > top => stack'[k].node \in Successors(g) /\ ~stack'[k].expanded
    BY <1>7, <1>10
  <2>2. top \in DOMAIN stack' /\ \A k \in DOMAIN stack' : k \in Nat
    BY <1>2, <1>10
  <2>3. ASSUME NEW k \in DOMAIN stack', stack'[k].expanded
        PROVE  k <= top
    <3>1. k \in Nat /\ ~(k > top)
      BY <1>10, <2>1, <2>3
    <3> QED
      BY <1>1, <3>1
  <2>4. stack'[top].node = g /\ stack'[top].expanded
    BY <1>9, <1>10
  <2> QED
    BY <2>1, <2>2, <2>3, <2>4
<1>15. \A k \in DOMAIN stack' : stack'[k].expanded =>
         k = top \/ (k < top /\ k \in DOMAIN stack /\ stack'[k] = stack[k])
  <2> SUFFICES ASSUME NEW k \in DOMAIN stack', stack'[k].expanded
               PROVE  k = top \/ (k < top /\ k \in DOMAIN stack /\ stack'[k] = stack[k])
    OBVIOUS
  <2>1. k \in Nat /\ k <= top
    BY <1>10, <1>14
  <2>2. k = top \/ k < top
    BY <1>1, <2>1
  <2> QED
    BY <1>10, <2>2
<1>16. OnTheWay' = OnTheWay \cup {g}
  <2>1. ASSUME NEW n \in OnTheWay'
        PROVE  n \in OnTheWay \cup {g}
    <3>1. PICK k \in DOMAIN stack' : stack'[k].expanded /\ stack'[k].node = n
      BY DEF OnTheWay
    <3> QED
      BY <1>14, <1>15, <3>1 DEF OnTheWay
  <2>2. ASSUME NEW n \in OnTheWay
        PROVE  n \in OnTheWay'
    <3>1. PICK k \in DOMAIN stack : stack[k].expanded /\ stack[k].node = n
      BY DEF OnTheWay
    <3>2. k # top /\ k < top
      BY <1>1, <1>2, <1>4, <3>1
    <3>3. k \in DOMAIN stack' /\ stack'[k] = stack[k]
      BY <1>10, <3>2
    <3> QED
      BY <3>1, <3>3 DEF OnTheWay
  <2>3. g \in OnTheWay'
    BY <1>14 DEF OnTheWay
  <2> QED
    BY <2>1, <2>2, <2>3
<1>17. met' = met \cup {g}
  BY <1>3
<1>18. WayUp'
  <2>1. met' = Finished' \cup OnTheWay' /\ Finished' \cap OnTheWay' = {}
    BY <1>4, <1>12, <1>16, <1>17 DEF WayUp
  <2>2. ASSUME NEW i \in DOMAIN stack', NEW j \in DOMAIN stack', stack'[i].expanded, stack'[j].expanded,
               stack'[i].node = stack'[j].node
        PROVE  i = j
    <3>1. \A k \in DOMAIN stack : stack[k].expanded => stack[k].node # g
      BY <1>4 DEF WayUp, OnTheWay
    <3>2. \A a, b \in DOMAIN stack :
            stack[a].expanded /\ stack[b].expanded /\ stack[a].node = stack[b].node => a = b
      BY <1>4 DEF WayUp
    <3>3. stack'[top].node = g
      BY <1>14
    <3>4. i = top \/ (i \in DOMAIN stack /\ stack'[i] = stack[i])
      BY <1>15, <2>2
    <3>5. j = top \/ (j \in DOMAIN stack /\ stack'[j] = stack[j])
      BY <1>15, <2>2
    <3> QED
      BY <2>2, <3>1, <3>2, <3>3, <3>4, <3>5
  <2>3. ASSUME NEW i \in DOMAIN stack', NEW j \in DOMAIN stack', i < j, stack'[i].expanded
        PROVE  Leads(pairs, stack'[i].node, stack'[j].node)
    <3>1. \A n \in Successors(g) : n \in Keys /\ Leads(pairs, g, n)
      BY KeyTypes, LeadsOn DEF Keys
    <3>2. i \in Nat /\ j \in Nat
      BY <1>10
    <3>3. CASE j <= top
      <4>1. i < top
        BY <2>3, <3>2, <3>3
      <4>2. stack'[i] = stack[i] /\ i \in DOMAIN stack
        BY <1>10, <4>1
      <4>3. j \in DOMAIN stack /\ stack'[j].node = stack[j].node
        <5>1. j = top \/ j < top
          BY <1>1, <3>2, <3>3
        <5> QED
          BY <1>2, <1>4, <1>10, <1>14, <5>1
      <4> QED
        BY <2>3, <4>2, <4>3 DEF WayUp
    <3>4. CASE j > top /\ i = top
      BY <1>14, <3>1, <3>4
    <3>5. CASE j > top /\ i < top
      <4>1. stack'[i] = stack[i] /\ i \in DOMAIN stack
        BY <1>10, <3>5
      <4>2. Leads(pairs, stack[i].node, g)
        BY <1>2, <1>4, <2>3, <3>5, <4>1 DEF WayUp
      <4>3. stack[i].node \in Keys
        BY <1>2, <4>1 DEF Entries
      <4>4. stack'[j].node \in Keys /\ Leads(pairs, g, stack'[j].node)
        BY <1>14, <3>1, <3>5
      <4>5. PICK n \in Keys : n = stack'[j].node
        BY <4>4
      <4>6. PICK a \in Keys : a = stack[i].node
        BY <4>3
      <4>7. Leads(pairs, a, g) /\ Leads(pairs, g, n)
        BY <4>2, <4>4, <4>5, <4>6
      <4>8. Leads(pairs, a, n)
        BY <4>7, MutualOn
      <4> QED
        BY <4>1, <4>5, <4>6, <4>8
    <3>6. i = top \/ i < top
      BY <1>15, <2>3
    <3>7. j <= top \/ j > top
      BY <1>1, <3>2
    <3> QED
      BY <3>3, <3>4, <3>5, <3>6, <3>7
  <2>4. \A n \in Finished' : Successors(n)' \subseteq met'
    BY <1>11, <1>12, <1>17 DEF WayUp
  <2>5. ASSUME NEW i \in DOMAIN stack', stack'[i].expanded, NEW n \in Successors(stack'[i].node)
        PROVE  n \in met' \/ \E j \in DOMAIN stack' : j > i /\ stack'[j].node = n
    <3>1. CASE i = top
      <4>1. n \in Successors(g)
        BY <1>14, <2>5, <3>1
      <4>2. PICK j \in DOMAIN more : more[j].node = n
        BY <1>7, <4>1
      <4>3. PICK k \in DOMAIN stack' : k > top /\ stack'[k] = more[j]
        BY <1>10
      <4> QED
        BY <3>1, <4>2, <4>3
    <3>2. CASE i < top /\ i \in DOMAIN stack /\ stack'[i] = stack[i]
      <4>1. n \in met \/ \E j \in DOMAIN stack : j > i /\ stack[j].node = n
        BY <2>5, <3>2 DEF WayUp
      <4>2. \A j \in DOMAIN stack : j \in DOMAIN stack' /\ (j = top \/ stack'[j] = stack[j])
        <5> TAKE j \in DOMAIN stack
        <5>1. j \in Nat /\ j <= top
          BY <1>2
        <5> QED
          <6>1. j = top \/ j < top
            BY <1>1, <5>1
          <6> QED
            BY <1>10, <6>1
      <4> QED
        BY <1>4, <1>17, <4>1, <4>2
    <3> QED
      BY <1>15, <2>5, <3>1, <3>2
  <2> QED
    BY <1>10, <1>11, <2>1, <2>2, <2>3, <2>4, <2>5 DEF WayUp, Entries
<1>19. LeftBehind'
  BY <1>11, <1>12, <1>16 DEF LeftBehind
<1> QED
  BY <1>13, <1>18, <1>19

(* The smallest node that was not met is started from.                      *)
LEMMA StartKeeps ==
  ASSUME CycleTypes, WayUp, LeftBehind, Start
  PROVE  CycleTypes' /\ WayUp' /\ LeftBehind'
<1>1. PICK n \in Keys \ met : stack' = <<Entry(n, FALSE)>>
  <2>1. Keys \ met \subseteq Nat /\ Keys \ met # {}
    BY KeyTypes DEF Start
  <2>2. \E n \in Keys \ met : \A m \in Keys \ met : n <= m
    BY <2>1, SmallestOfNumbers
  <2> QED
    BY <2>2 DEF Start
<1>2. /\ pairs' = pairs /\ program' = program /\ digraph' = digraph /\ met' = met
      /\ finished' = finished /\ component' = component /\ stack = <<>>
  BY DEF Start
<1>3. /\ Keys' = Keys /\ Dependencies' = Dependencies /\ Calls' = Calls
      /\ \A a, b : Mutual(a, b)' = Mutual(a, b)
      /\ \A k : Successors(k)' = Successors(k)
  BY <1>2, GraphStays
<1>4. stack' \in Seq([node : Keys, expanded : BOOLEAN]) /\ DOMAIN stack' = {1} /\ ~stack'[1].expanded
  BY <1>1 DEF Entry
<1>5. OnTheWay' = {} /\ OnTheWay = {}
  BY <1>2, <1>4 DEF OnTheWay
<1>6. Finished' = Finished /\ \A r, m : LeftLater(r, m)' = LeftLater(r, m)
  BY <1>2 DEF Finished, LeftLater
<1>7. CycleTypes'
  BY <1>2, <1>3 DEF CycleTypes
<1>8. WayUp'
  BY <1>2, <1>3, <1>4, <1>5, <1>6 DEF WayUp
<1>9. LeftBehind'
  BY <1>2, <1>3, <1>5, <1>6 DEF LeftBehind
<1> QED
  BY <1>7, <1>8, <1>9

LEMMA VisitKeeps ==
  ASSUME CycleTypes, WayUp, LeftBehind, Visit
  PROVE  CycleTypes' /\ WayUp' /\ LeftBehind'
<1>1. /\ stack # <<>> /\ pairs' = pairs /\ program' = program /\ digraph' = digraph
      /\ component' = component
  BY DEF Visit
<1>2. CASE /\ Last(stack).expanded /\ stack' = Front(stack) /\ met' = met
           /\ finished' = Append(finished, Last(stack).node)
  BY <1>1, <1>2, LeavingKeeps
<1>3. CASE /\ ~Last(stack).expanded /\ Last(stack).node \in met /\ stack' = Front(stack)
           /\ met' = met /\ finished' = finished
  BY <1>1, <1>3, PassingKeeps
<1>4. CASE /\ ~Last(stack).expanded /\ Last(stack).node \notin met
           /\ met' = met \cup {Last(stack).node} /\ finished' = finished
           /\ stack' = Append(Front(stack), Entry(Last(stack).node, TRUE))
                         \o [k \in DOMAIN Pushed(Successors(Last(stack).node)) |->
                               Entry(Pushed(Successors(Last(stack).node))[k], FALSE)]
  BY <1>1, <1>4, MeetingKeeps
<1> QED
  BY <1>2, <1>3, <1>4 DEF Visit

(* Each strong component is all of what is mutual to one of its nodes.      *)
LEMMA StrongOnes ==
  /\ \A c \in Strong(pairs) : /\ c \subseteq Keys
                              /\ \E n \in Keys : n \in c /\ c = {m \in Keys : Mutual(n, m)}
  /\ \A n \in Keys : {m \in Keys : Mutual(n, m)} \in Strong(pairs)
<1>1. Strong(pairs) = {{m \in Keys : Mutual(n, m)} : n \in Keys}
  BY DEF Strong, Mutual, Keys
<1>2. \A n \in Keys : n \in {m \in Keys : Mutual(n, m)}
  BY MutualOn
<1> QED
  BY <1>1, <1>2

LEMMA TurnKeeps ==
  ASSUME CycleTypes, WayUp, LeftBehind, component = {}, cycles = Known, Turn
  PROVE  CycleTypes' /\ Gathering' /\ LastIsOutermost'
<1>1. /\ pairs' = pairs /\ program' = program /\ digraph' = digraph /\ met' = {} /\ stack' = <<>>
      /\ stack = <<>> /\ finished' = finished /\ component' = {} /\ cycles' = Known
      /\ Keys \subseteq met
  BY DEF Turn
<1>2. /\ Keys' = Keys /\ Known' = Known /\ Dependencies' = Dependencies /\ Calls' = Calls
      /\ \A a, b : Mutual(a, b)' = Mutual(a, b)
      /\ \A k : Predecessors(k)' = Predecessors(k)
  BY <1>1, GraphStays
<1>3. Finished' = Finished /\ \A r, m : LeftLater(r, m)' = LeftLater(r, m)
  BY <1>1 DEF Finished, LeftLater
<1>4. OnTheWay = {}
  BY <1>1 DEF OnTheWay
<1>5. Keys \subseteq Finished
  BY <1>1, <1>4 DEF WayUp
<1>6. CycleTypes'
  BY <1>1, <1>2 DEF CycleTypes
<1>7. LastIsOutermost'
  <2>1. \A n, m \in Keys : Leads(pairs, n, m) /\ ~Leads(pairs, m, n) =>
          \E r \in Keys : Mutual(n, r) /\ LeftLater(r, m)
    BY <1>4, <1>5 DEF LeftBehind
  <2> QED
    BY <1>1, <1>2, <1>3, <2>1 DEF LastIsOutermost
<1>8. AtHand' = {} /\ Assigned' = {}
  BY <1>1 DEF AtHand, Assigned
<1>9. \A c \in Strong(pairs) : ~(c \subseteq Assigned')
  BY <1>8, StrongOnes
<1>10. stack' \in Seq(Keys)
  BY <1>1
<1>11. {files \in {FilesOf(c) : c \in {k \in Strong(pairs) : k \subseteq Assigned'}} : Several(files)} = {}
  BY <1>9
<1>12. {files \in {FilesOf(c) : c \in {k \in Strong(pairs) : k \subseteq Assigned}} : Several(files)}' = {}
  BY <1>1, <1>11 DEF FilesOf
<1>13. Gathering'
  <2>1. AtHand' \subseteq met' /\ (Keys \ Finished)' \subseteq met'
    BY <1>2, <1>3, <1>5, <1>8
  <2>2. \A n \in Assigned' : \A m \in Keys' : Mutual(n, m)' => m \in Assigned'
    BY <1>8
  <2>3. \A n, m \in AtHand' : Mutual(n, m)'
    BY <1>8
  <2>4. AtHand' # {} => (AtHand \ Finished)' # {}
    BY <1>8
  <2>5. \A n \in component' : Predecessors(n)' \subseteq met'
    BY <1>1
  <2>6. cycles' = Known' \cup {files \in {FilesOf(c) : c \in {k \in Strong(pairs) : k \subseteq Assigned}} : Several(files)}'
    BY <1>1, <1>2, <1>12
  <2> QED
    BY <1>2, <1>10, <2>1, <2>2, <2>3, <2>4, <2>5, <2>6 DEF Gathering
<1> QED
  BY <1>6, <1>7, <1>13

(* The node left last is taken from the list.                               *)
LEMMA FinishedShrinks ==
  ASSUME finished \in Seq(Keys), finished # <<>>, finished' = Front(finished),
         \A i, j \in DOMAIN finished : finished[i] = finished[j] => i = j
  PROVE  /\ Last(finished) \in Keys /\ finished' \in Seq(Keys)
         /\ Finished' = Finished \ {Last(finished)}
         /\ \A i, j \in DOMAIN finished' : finished'[i] = finished'[j] => i = j
         /\ \A r, m : LeftLater(r, m) => r = Last(finished) \/ LeftLater(r, m)'
<1>1. PICK n \in Nat : n = Len(finished)
  OBVIOUS
<1>2. /\ n \in DOMAIN finished /\ Last(finished) = finished[n] /\ Last(finished) \in Keys
      /\ finished' \in Seq(Keys)
      /\ \A k \in DOMAIN finished' : k \in DOMAIN finished /\ k < n /\ finished'[k] = finished[k]
      /\ \A k \in DOMAIN finished : k = n \/ k \in DOMAIN finished'
  BY <1>1, FrontPlaces
<1>3. Finished' = Finished \ {Last(finished)}
  <2>1. ASSUME NEW x \in Finished'
        PROVE  x \in Finished \ {Last(finished)}
    <3>1. PICK k \in DOMAIN finished' : finished'[k] = x
      BY DEF Finished
    <3>2. k \in DOMAIN finished /\ k # n /\ finished[k] = x
      BY <1>1, <1>2, <3>1
    <3> QED
      BY <1>2, <3>2 DEF Finished
  <2>2. ASSUME NEW x \in Finished, x # Last(finished)
        PROVE  x \in Finished'
    <3>1. PICK k \in DOMAIN finished : finished[k] = x
      BY DEF Finished
    <3>2. k \in DOMAIN finished' /\ finished'[k] = x
      BY <1>2, <2>2, <3>1
    <3> QED
      BY <3>2 DEF Finished
  <2> QED
    BY <2>1, <2>2
<1>4. \A i, j \in DOMAIN finished' : finished'[i] = finished'[j] => i = j
  BY <1>2
<1>5. ASSUME NEW r, NEW m, LeftLater(r, m), r # Last(finished)
      PROVE  LeftLater(r, m)'
  <2>1. PICK i \in DOMAIN finished, j \in DOMAIN finished : i < j /\ finished[i] = m /\ finished[j] = r
    BY <1>5 DEF LeftLater
  <2>2. j \in DOMAIN finished' /\ finished'[j] = r
    BY <1>2, <1>5, <2>1
  <2>3. i # n
    BY <1>1, <1>2, <2>1, <2>2
  <2>4. i \in DOMAIN finished' /\ finished'[i] = m
    BY <1>2, <2>1, <2>3
  <2> QED
    BY <2>1, <2>2, <2>4 DEF LeftLater
<1> QED
  BY <1>2, <1>3, <1>4, <1>5

LEMMA AssignKeeps ==
  ASSUME CycleTypes, Gathering, LastIsOutermost, Assign
  PROVE  CycleTypes' /\ Gathering' /\ LastIsOutermost'
<1>1. /\ pairs' = pairs /\ program' = program /\ digraph' = digraph /\ component = {}
      /\ stack = <<>> /\ finished # <<>> /\ finished' = Front(finished) /\ component' = {}
      /\ cycles' = cycles
  BY DEF Assign
<1>2. /\ Keys' = Keys /\ Known' = Known /\ Dependencies' = Dependencies /\ Calls' = Calls
      /\ \A a, b : Mutual(a, b)' = Mutual(a, b)
      /\ \A k : Predecessors(k)' = Predecessors(k)
  BY <1>1, GraphStays
<1>3. PICK g \in Keys :
        /\ g = Last(finished) /\ finished' \in Seq(Keys)
        /\ Finished' = Finished \ {g}
        /\ \A i, j \in DOMAIN finished' : finished'[i] = finished'[j] => i = j
        /\ \A r, m : LeftLater(r, m) => r = g \/ LeftLater(r, m)'
  <2>1. /\ finished \in Seq(Keys)
        /\ \A i, j \in DOMAIN finished : finished[i] = finished[j] => i = j
    BY DEF CycleTypes
  <2>2. /\ Last(finished) \in Keys /\ finished' \in Seq(Keys)
        /\ Finished' = Finished \ {Last(finished)}
        /\ \A i, j \in DOMAIN finished' : finished'[i] = finished'[j] => i = j
        /\ \A r, m : LeftLater(r, m) => r = Last(finished) \/ LeftLater(r, m)'
    BY <1>1, <2>1, FinishedShrinks
  <2>3. PICK g \in Keys : g = Last(finished)
    BY <2>2
  <2> QED
    BY <2>2, <2>3
<1>4. \/ g \in met /\ met' = met /\ stack' = <<>>
      \/ g \notin met /\ met' = met \cup {g} /\ stack' = <<g>>
  BY <1>1, <1>3 DEF Assign
<1>5. CycleTypes'
  BY <1>1, <1>2, <1>3, <1>4 DEF CycleTypes
<1>6. LastIsOutermost'
  <2>1. ASSUME NEW n \in Keys, NEW m \in Keys, Leads(pairs, n, m), ~Leads(pairs, m, n)
        PROVE  \E r \in Keys : Mutual(n, r) /\ (r \notin Finished' \/ LeftLater(r, m)')
    BY <1>3, <2>1 DEF LastIsOutermost
  <2> QED
    BY <1>1, <1>2, <2>1 DEF LastIsOutermost
<1>7. AtHand = {} /\ Assigned = met
  BY <1>1 DEF AtHand, Assigned
<1>8. /\ AtHand' = IF g \in met THEN {} ELSE {g}
      /\ Assigned' = Assigned
      /\ stack' \in Seq(Keys)
  <2>1. CASE g \in met /\ met' = met /\ stack' = <<>>
    <3>1. AtHand' = {}
      BY <1>1, <2>1 DEF AtHand
    <3> QED
      BY <1>7, <2>1, <3>1 DEF Assigned
  <2>2. CASE g \notin met /\ met' = met \cup {g} /\ stack' = <<g>>
    <3>1. DOMAIN stack' = {1} /\ stack'[1] = g /\ stack' \in Seq(Keys)
      BY <2>2
    <3>2. AtHand' = {g}
      BY <1>1, <3>1 DEF AtHand
    <3> QED
      BY <1>7, <2>2, <3>1, <3>2 DEF Assigned
  <2> QED
    BY <1>4, <2>1, <2>2
<1>9. Gathering'
  <2>1. AtHand' \subseteq met' /\ (Keys \ Finished)' \subseteq met'
    BY <1>2, <1>3, <1>4, <1>8 DEF Gathering
  <2>2. \A n \in Assigned' : \A m \in Keys' : Mutual(n, m)' => m \in Assigned'
    BY <1>2, <1>8 DEF Gathering
  <2>3. \A n, m \in AtHand' : Mutual(n, m)'
    <3>1. Mutual(g, g)
      BY MutualOn
    <3> QED
      BY <1>2, <1>8, <3>1
  <2>4. AtHand' # {} => (AtHand \ Finished)' # {}
    BY <1>3, <1>8
  <2>5. \A n \in component' : Predecessors(n)' \subseteq met'
    BY <1>1
  <2>6. cycles' = Known' \cup {files \in {FilesOf(c) : c \in {k \in Strong(pairs) : k \subseteq Assigned}} : Several(files)}'
    BY <1>1, <1>2, <1>8 DEF Gathering, FilesOf
  <2> QED
    BY <1>2, <1>8, <2>1, <2>2, <2>3, <2>4, <2>5, <2>6 DEF Gathering
<1> QED
  BY <1>5, <1>6, <1>9

(* What is not yet in a component and leads to the one at hand is led to by *)
(* it too: or a node of its own component would have been left later.       *)
LEMMA GatheredIsMutual ==
  ASSUME CycleTypes, Gathering, LastIsOutermost,
         NEW x \in AtHand, NEW y \in Keys \ met, Leads(pairs, y, x)
  PROVE  Mutual(x, y)
<1>1. AtHand \subseteq Keys
  BY DEF Gathering, CycleTypes
<1>2. PICK r0 \in Keys : r0 \in AtHand /\ r0 \notin Finished
  BY <1>1 DEF Gathering
<1>3. Mutual(x, r0) /\ Leads(pairs, x, r0) /\ Leads(pairs, r0, x)
  BY <1>2 DEF Gathering, Mutual
<1>4. x \in Keys /\ Leads(pairs, y, r0)
  BY <1>1, <1>2, <1>3, MutualOn
<1>5. Leads(pairs, r0, y)
  <2> SUFFICES ASSUME ~Leads(pairs, r0, y)
               PROVE  FALSE
    OBVIOUS
  <2>1. PICK s \in Keys : Mutual(y, s) /\ (s \notin Finished \/ LeftLater(s, r0))
    BY <1>2, <1>4 DEF LastIsOutermost
  <2>2. ~LeftLater(s, r0)
    BY <1>2 DEF LeftLater, Finished
  <2>3. s \in met
    BY <2>1, <2>2 DEF Gathering
  <2>4. Mutual(s, y)
    BY <2>1, MutualOn
  <2>5. s \notin Assigned
    BY <2>4 DEF Gathering, Assigned
  <2>6. Mutual(r0, s)
    BY <1>2, <2>3, <2>5 DEF Gathering, Assigned
  <2>7. Mutual(r0, y)
    BY <1>2, <2>4, <2>6, MutualOn
  <2> QED
    BY <2>7 DEF Mutual
<1>6. Mutual(r0, y)
  BY <1>4, <1>5 DEF Mutual
<1> QED
  BY <1>2, <1>3, <1>4, <1>6, MutualOn

LEMMA GatherKeeps ==
  ASSUME CycleTypes, Gathering, LastIsOutermost, Gather
  PROVE  CycleTypes' /\ Gathering' /\ LastIsOutermost'
<1>1. /\ pairs' = pairs /\ program' = program /\ digraph' = digraph /\ stack # <<>>
      /\ finished' = finished /\ cycles' = cycles
  BY DEF Gather
<1>2. /\ Keys' = Keys /\ Known' = Known /\ Dependencies' = Dependencies /\ Calls' = Calls
      /\ \A a, b : Mutual(a, b)' = Mutual(a, b)
      /\ \A k : Predecessors(k)' = Predecessors(k)
  BY <1>1, GraphStays
<1>3. PICK n \in Nat : n = Len(stack)
  BY DEF Gathering
<1>4. /\ stack \in Seq(Keys) /\ n \in DOMAIN stack /\ Last(stack) = stack[n] /\ Last(stack) \in Keys
      /\ Front(stack) \in Seq(Keys)
      /\ \A k \in DOMAIN Front(stack) : k \in DOMAIN stack /\ k < n /\ Front(stack)[k] = stack[k]
      /\ \A k \in DOMAIN stack : k = n \/ k \in DOMAIN Front(stack)
  BY <1>1, <1>3, FrontPlaces DEF Gathering
<1>5. PICK g \in Keys : g = Last(stack)
  BY <1>4
<1>6. PICK new \in SUBSET Keys : new = Predecessors(g) \ met
  BY KeyTypes
<1>7. PICK low \in Seq(Keys) : low = Front(stack)
  BY <1>4
<1>8. PICK high \in Seq(Keys) : /\ high = Pushed(new)
                                /\ {high[k] : k \in DOMAIN high} = new
  <2>1. IsFiniteSet(new) /\ new \subseteq Nat
    BY <1>6, KeyTypes, FS_Subset
  <2>2. Pushed(new) \in Seq(new) /\ \A m \in new : \E k \in DOMAIN Pushed(new) : Pushed(new)[k] = m
    BY <2>1, PushedOnce
  <2>3. PICK high : high = Pushed(new)
    OBVIOUS
  <2>4. high \in Seq(new) /\ \A m \in new : \E k \in DOMAIN high : high[k] = m
    BY <2>2, <2>3
  <2>5. high \in Seq(Keys) /\ \A k \in DOMAIN high : high[k] \in new
    BY <2>4
  <2> QED
    BY <2>3, <2>4, <2>5
<1>9. component' = component \cup {g} /\ met' = met \cup new /\ stack' = low \o high
  BY <1>5, <1>6, <1>7, <1>8 DEF Gather
<1>10. /\ stack' \in Seq(Keys)
       /\ {stack'[k] : k \in DOMAIN stack'} = {low[k] : k \in DOMAIN low} \cup new
  <2>1. /\ low \o high \in Seq(Keys)
        /\ \A k \in DOMAIN low : k \in DOMAIN (low \o high) /\ (low \o high)[k] = low[k]
        /\ \A k \in DOMAIN high : Len(low) + k \in DOMAIN (low \o high) /\ (low \o high)[Len(low) + k] = high[k]
        /\ \A k \in DOMAIN (low \o high) :
              k \in DOMAIN low \/ (k - Len(low) \in DOMAIN high /\ (low \o high)[k] = high[k - Len(low)])
    BY ConcatPlaces
  <2>2. PICK both : both = low \o high
    OBVIOUS
  <2>3. /\ both \in Seq(Keys)
        /\ \A k \in DOMAIN low : k \in DOMAIN both /\ both[k] = low[k]
        /\ \A k \in DOMAIN high : Len(low) + k \in DOMAIN both /\ both[Len(low) + k] = high[k]
        /\ \A k \in DOMAIN both : k \in DOMAIN low \/ (k - Len(low) \in DOMAIN high /\ both[k] = high[k - Len(low)])
    BY <2>1, <2>2
  <2>4. {both[k] : k \in DOMAIN both} = {low[k] : k \in DOMAIN low} \cup {high[k] : k \in DOMAIN high}
    BY <2>3
  <2>5. stack' = both
    BY <1>9, <2>2
  <2>6. {stack'[k] : k \in DOMAIN stack'} = {both[k] : k \in DOMAIN both}
    BY <2>5, Zenon
  <2> QED
    BY <1>8, <2>3, <2>4, <2>5, <2>6
<1>11. {stack[k] : k \in DOMAIN stack} = {low[k] : k \in DOMAIN low} \cup {g}
  BY <1>4, <1>5, <1>7
<1>12. g \in AtHand /\ AtHand' = AtHand \cup new
  BY <1>9, <1>10, <1>11 DEF AtHand
<1>13. AtHand \subseteq met /\ Assigned' = Assigned
  BY <1>6, <1>9, <1>12 DEF Gathering, Assigned
<1>14. Finished' = Finished /\ \A r, m : LeftLater(r, m)' = LeftLater(r, m)
  BY <1>1 DEF Finished, LeftLater
<1>15. CycleTypes'
  BY <1>1, <1>2, <1>5, <1>6, <1>9 DEF CycleTypes
<1>16. LastIsOutermost'
  BY <1>1, <1>2, <1>14 DEF LastIsOutermost
<1>17. \A y \in new : y \in Keys \ met /\ Mutual(g, y)
  <2> TAKE y \in new
  <2>1. y \in Keys \ met /\ <<y, g>> \in pairs
    BY <1>6, KeyTypes
  <2>2. Leads(pairs, y, g)
    BY <2>1, LeadsOn DEF Keys
  <2> QED
    BY <1>12, <2>1, <2>2, GatheredIsMutual
<1>18. \A a \in AtHand' : Mutual(g, a) /\ a \in Keys
  BY <1>12, <1>13, <1>17 DEF Gathering, CycleTypes
<1>19. Gathering'
  <2>1. AtHand' \subseteq met' /\ (Keys \ Finished)' \subseteq met'
    BY <1>2, <1>9, <1>12, <1>14 DEF Gathering
  <2>2. \A a \in Assigned' : \A m \in Keys' : Mutual(a, m)' => m \in Assigned'
    BY <1>2, <1>13 DEF Gathering
  <2>3. \A a, b \in AtHand' : Mutual(a, b)
    <3> TAKE a, b \in AtHand'
    <3>1. a \in Keys /\ b \in Keys /\ Mutual(g, a) /\ Mutual(g, b)
      BY <1>18
    <3>2. Mutual(a, g)
      BY <3>1, MutualOn
    <3> QED
      BY <3>1, <3>2, MutualOn
  <2>4. AtHand' # {} => (AtHand \ Finished)' # {}
    BY <1>12, <1>14 DEF Gathering
  <2>5. \A a \in component' : Predecessors(a)' \subseteq met'
    <3>1. Predecessors(g) \subseteq met'
      BY <1>6, <1>9
    <3>2. \A a \in component : Predecessors(a) \subseteq met'
      BY <1>9 DEF Gathering
    <3> QED
      BY <1>2, <1>9, <3>1, <3>2
  <2>6. cycles' = Known' \cup {files \in {FilesOf(c) : c \in {k \in Strong(pairs) : k \subseteq Assigned}} : Several(files)}'
    BY <1>1, <1>2, <1>13 DEF Gathering, FilesOf
  <2> QED
    BY <1>2, <1>10, <2>1, <2>2, <2>3, <2>4, <2>5, <2>6 DEF Gathering
<1> QED
  BY <1>15, <1>16, <1>19

(* The component at hand is a whole one when nothing is left to follow.     *)
LEMMA ClosedIsWhole ==
  ASSUME CycleTypes, Gathering, AtHand = component, NEW n \in component
  PROVE  component = {m \in Keys : Mutual(n, m)}
<1>1. n \in Keys /\ component \subseteq Keys /\ component \cap Assigned = {}
  BY DEF CycleTypes, Assigned
<1>2. \A m \in component : Mutual(n, m)
  BY DEF Gathering
<1>3. ASSUME NEW m \in Keys, Mutual(n, m), m \notin met
      PROVE  FALSE
  <2> DEFINE T == {v \in Keys : Leads(pairs, m, v) /\ (~Leads(pairs, v, n) \/ v \notin met)}
  <2>1. Leads(pairs, n, m) /\ Leads(pairs, m, n) /\ Leads(pairs, n, n) /\ Leads(pairs, m, m)
    BY <1>1, <1>3, MutualOn DEF Mutual
  <2>2. T \in SUBSET Keys /\ m \in T
    BY <1>3, <2>1
  <2>3. ASSUME NEW e \in pairs, e[1] \in T
        PROVE  e[2] \in T
    <3>1. PICK v \in Keys, w \in Keys : v = e[1] /\ w = e[2] /\ <<v, w>> \in pairs
      BY KeyTypes
    <3>2. v \in T /\ Leads(pairs, m, v)
      BY <2>3, <3>1
    <3>3. Leads(pairs, v, w)
      BY <3>1, LeadsOn DEF Keys
    <3>4. Leads(pairs, m, w)
      BY <3>2, <3>3, MutualOn
    <3>5. ASSUME Leads(pairs, w, n), w \in met
          PROVE  FALSE
      <4>1. Leads(pairs, v, n)
        BY <1>1, <3>3, <3>5, MutualOn
      <4>2. v \notin met
        BY <3>2, <4>1
      <4>3. Leads(pairs, n, w)
        BY <1>1, <1>3, <2>1, <3>4, MutualOn
      <4>4. Mutual(w, n)
        BY <3>5, <4>3 DEF Mutual
      <4>5. w \notin Assigned
        BY <1>1, <4>4 DEF Gathering
      <4>6. w \in component
        BY <3>5, <4>5 DEF Assigned
      <4>7. v \in Predecessors(w)
        BY <3>1, KeyTypes
      <4> QED
        BY <4>2, <4>6, <4>7 DEF Gathering
    <3> QED
      BY <3>1, <3>4, <3>5
  <2>4. n \in T
    <3> HIDE DEF T
    <3> QED
      BY <1>1, <2>1, <2>2, <2>3, LeadsOn DEF Keys
  <2> QED
    BY <2>1, <2>4, <1>1 DEF Gathering
<1>4. ASSUME NEW m \in Keys, Mutual(n, m)
      PROVE  m \in component
  <2>1. m \in met
    BY <1>3, <1>4
  <2>2. Mutual(m, n)
    BY <1>1, <1>4, MutualOn
  <2>3. m \notin Assigned
    BY <1>1, <2>2 DEF Gathering
  <2> QED
    BY <2>1, <2>3 DEF Assigned
<1> QED
  BY <1>1, <1>2, <1>4

LEMMA CloseKeeps ==
  ASSUME CycleTypes, Gathering, LastIsOutermost, Close
  PROVE  CycleTypes' /\ Gathering' /\ LastIsOutermost'
<1>1. /\ pairs' = pairs /\ program' = program /\ digraph' = digraph /\ stack = <<>> /\ stack' = <<>>
      /\ finished' = finished /\ met' = met /\ component # {} /\ component' = {}
      /\ cycles' = cycles \cup {files \in {FilesOf(component)} : Several(files)}
  BY DEF Close
<1>2. /\ Keys' = Keys /\ Known' = Known /\ Dependencies' = Dependencies /\ Calls' = Calls
      /\ \A a, b : Mutual(a, b)' = Mutual(a, b)
      /\ \A k : Predecessors(k)' = Predecessors(k)
  BY <1>1, GraphStays
<1>3. AtHand = component /\ AtHand' = {}
  BY <1>1 DEF AtHand
<1>4. component \subseteq Keys /\ component \subseteq met
  BY <1>3 DEF CycleTypes, Gathering
<1>5. Assigned' = Assigned \cup component
  BY <1>1, <1>3, <1>4 DEF Assigned
<1>6. \A n \in component : component = {m \in Keys : Mutual(n, m)}
  BY <1>3, ClosedIsWhole
<1>7. Finished' = Finished /\ \A r, m : LeftLater(r, m)' = LeftLater(r, m)
  BY <1>1 DEF Finished, LeftLater
<1>8. CycleTypes'
  BY <1>1, <1>2 DEF CycleTypes
<1>9. LastIsOutermost'
  BY <1>1, <1>2, <1>7 DEF LastIsOutermost
<1>10. component \in Strong(pairs)
  BY <1>1, <1>4, <1>6, StrongOnes
<1>11. \A c \in Strong(pairs) : c \subseteq Assigned' <=> c \subseteq Assigned \/ c = component
  <2> TAKE c \in Strong(pairs)
  <2>1. PICK n \in Keys : n \in c /\ c = {m \in Keys : Mutual(n, m)}
    BY StrongOnes
  <2>2. CASE n \in component
    BY <1>5, <1>6, <2>1, <2>2
  <2>3. CASE n \in Assigned
    <3>1. c \subseteq Assigned
      BY <2>1, <2>3 DEF Gathering
    <3> QED
      BY <1>5, <3>1
  <2>4. CASE n \notin Assigned'
    BY <1>5, <2>1, <2>4
  <2> QED
    BY <1>5, <2>2, <2>3, <2>4
<1>12. {k \in Strong(pairs) : k \subseteq Assigned'} = {k \in Strong(pairs) : k \subseteq Assigned} \cup {component}
  BY <1>10, <1>11
<1>13. cycles' = Known' \cup {files \in {FilesOf(c) : c \in {k \in Strong(pairs) : k \subseteq Assigned'}} : Several(files)}
  <2> DEFINE old == {k \in Strong(pairs) : k \subseteq Assigned}
             now == {k \in Strong(pairs) : k \subseteq Assigned'}
  <2>1. cycles = Known \cup {files \in {FilesOf(c) : c \in old} : Several(files)}
    BY DEF Gathering
  <2>2. now = old \cup {component}
    BY <1>12
  <2> HIDE DEF old, now
  <2>3. {FilesOf(c) : c \in now} = {FilesOf(c) : c \in old} \cup {FilesOf(component)}
    BY <2>2
  <2>4. cycles' = Known' \cup {files \in {FilesOf(c) : c \in now} : Several(files)}
    BY <1>1, <1>2, <2>1, <2>3
  <2> QED
    BY <2>4 DEF now
<1>14. Gathering'
  <2>1. AtHand' \subseteq met' /\ (Keys \ Finished)' \subseteq met'
    BY <1>1, <1>2, <1>3, <1>7 DEF Gathering
  <2>2. \A n \in Assigned' : \A m \in Keys' : Mutual(n, m)' => m \in Assigned'
    BY <1>2, <1>5, <1>6 DEF Gathering
  <2>3. \A n, m \in AtHand' : Mutual(n, m)'
    BY <1>3
  <2>4. AtHand' # {} => (AtHand \ Finished)' # {}
    BY <1>3
  <2>5. \A n \in component' : Predecessors(n)' \subseteq met'
    BY <1>1
  <2>6. cycles' = Known' \cup {files \in {FilesOf(c) : c \in {k \in Strong(pairs) : k \subseteq Assigned}} : Several(files)}'
    BY <1>1, <1>13 DEF FilesOf
  <2>7. stack' \in Seq(Keys)
    BY <1>1
  <2> QED
    BY <1>2, <2>1, <2>2, <2>3, <2>4, <2>5, <2>6, <2>7 DEF Gathering
<1> QED
  BY <1>8, <1>9, <1>14

(* Nothing is left of a digraph: all its components are known.              *)
LEMMA AllAssigned ==
  ASSUME CycleTypes, Gathering, Switch
  PROVE  cycles = Known \cup CyclesIn(pairs)
<1>1. stack = <<>> /\ component = {} /\ finished = <<>>
  BY DEF Switch
<1>2. AtHand = {} /\ Finished = {}
  BY <1>1 DEF AtHand, Finished
<1>3. Keys \subseteq Assigned
  BY <1>2 DEF Gathering, Assigned
<1>4. {k \in Strong(pairs) : k \subseteq Assigned} = Strong(pairs)
  BY <1>3, StrongOnes
<1> QED
  BY <1>4 DEF Gathering, CyclesIn

LEMMA SwitchKeeps ==
  ASSUME CycleTypes, Gathering, Switch
  PROVE  CyclesInv'
<1>1. /\ program' = program /\ component' = {} /\ stack' = <<>> /\ finished' = <<>> /\ finished = <<>>
      /\ cycles' = cycles /\ component = {}
  BY DEF Switch
<1>2. Dependencies' = Dependencies /\ Calls' = Calls
  BY <1>1 DEF Dependencies, Calls, Transported, Counted, Visible
<1>3. cycles = Known \cup CyclesIn(pairs)
  BY AllAssigned
<1>4. CASE digraph = "files"
  <2>1. digraph' = "calls" /\ pairs' = Calls' /\ pass' = "order" /\ met' = {}
    BY <1>2, <1>4 DEF Switch
  <2>2. cycles' = Known'
    BY <1>1, <1>2, <1>3, <1>4, <2>1 DEF Known, CyclesIn, CycleTypes, FilesOf
  <2>3. CycleTypes'
    BY <1>1, <2>1 DEF CycleTypes
  <2>4. Finished' = {} /\ OnTheWay' = {}
    BY <1>1 DEF Finished, OnTheWay
  <2>5. WayUp'
    BY <1>1, <2>1, <2>4 DEF WayUp
  <2>6. LeftBehind'
    BY <2>4 DEF LeftBehind
  <2> QED
    BY <1>1, <2>1, <2>2, <2>3, <2>5, <2>6 DEF CyclesInv
<1>5. CASE digraph # "files"
  <2>1. digraph' = digraph /\ pairs' = pairs /\ met' = met /\ pass' = "done" /\ digraph = "calls"
    BY <1>5 DEF Switch, CycleTypes
  <2>2. Known' = Known /\ CyclesIn(pairs)' = CyclesIn(pairs)
    BY <1>2, <2>1 DEF Known, CyclesIn, FilesOf
  <2>3. CycleTypes'
    BY <1>1, <1>2, <2>1 DEF CycleTypes, Keys
  <2> QED
    BY <1>1, <1>3, <2>1, <2>2, <2>3 DEF CyclesInv
<1> QED
  BY <1>4, <1>5

LEMMA CyclesStart == CyclesInit => CyclesInv
<1> SUFFICES ASSUME CyclesInit
             PROVE  CyclesInv
  OBVIOUS
<1>1. /\ finished = <<>> /\ stack = <<>> /\ digraph = "files" /\ pass = "order" /\ met = {}
      /\ component = {} /\ cycles = {} /\ pairs = Dependencies /\ program \in Programs
  BY DEF CyclesInit
<1>2. Finished = {} /\ OnTheWay = {}
  BY <1>1 DEF Finished, OnTheWay
<1>3. CycleTypes
  BY <1>1 DEF CycleTypes
<1>4. WayUp
  BY <1>1, <1>2 DEF WayUp
<1>5. LeftBehind
  BY <1>2 DEF LeftBehind
<1> QED
  BY <1>1, <1>3, <1>4, <1>5 DEF CyclesInv, Known

LEMMA CyclesKept == CyclesInv /\ [CyclesNext]_cycleVars => CyclesInv'
<1> SUFFICES ASSUME CyclesInv, [CyclesNext]_cycleVars
             PROVE  CyclesInv'
  OBVIOUS
<1>1. CASE Start
  <2>1. /\ CycleTypes /\ WayUp /\ LeftBehind /\ component = {} /\ cycles = Known /\ pass' = "order"
        /\ component' = component /\ cycles' = cycles
        /\ pairs' = pairs /\ program' = program /\ digraph' = digraph
    BY <1>1 DEF CyclesInv, Start
  <2>2. CycleTypes' /\ WayUp' /\ LeftBehind'
    BY <1>1, <2>1, StartKeeps
  <2>3. Known' = Known
    BY <2>1, GraphStays
  <2> QED
    BY <2>1, <2>2, <2>3 DEF CyclesInv
<1>2. CASE Visit
  <2>1. /\ CycleTypes /\ WayUp /\ LeftBehind /\ component = {} /\ cycles = Known /\ pass' = "order"
        /\ component' = component /\ cycles' = cycles
        /\ pairs' = pairs /\ program' = program /\ digraph' = digraph
    BY <1>2 DEF CyclesInv, Visit
  <2>2. CycleTypes' /\ WayUp' /\ LeftBehind'
    BY <1>2, <2>1, VisitKeeps
  <2>3. Known' = Known
    BY <2>1, GraphStays
  <2> QED
    BY <2>1, <2>2, <2>3 DEF CyclesInv
<1>3. CASE Turn
  <2>1. CycleTypes /\ WayUp /\ LeftBehind /\ component = {} /\ cycles = Known /\ pass' = "assign"
    BY <1>3 DEF CyclesInv, Turn
  <2> QED
    BY <1>3, <2>1, TurnKeeps DEF CyclesInv
<1>4. CASE Assign \/ Gather \/ Close
  <2>1. CycleTypes /\ Gathering /\ LastIsOutermost /\ pass' = "assign"
    BY <1>4 DEF CyclesInv, Assign, Gather, Close
  <2> QED
    BY <1>4, <2>1, AssignKeeps, GatherKeeps, CloseKeeps DEF CyclesInv
<1>5. CASE Switch
  BY <1>5, SwitchKeeps DEF CyclesInv, Switch
<1>6. CASE UNCHANGED cycleVars
  <2>1. /\ program' = program /\ digraph' = digraph /\ pairs' = pairs /\ pass' = pass /\ met' = met
        /\ stack' = stack /\ finished' = finished /\ component' = component /\ cycles' = cycles
    BY <1>6 DEF cycleVars
  <2>2. /\ Keys' = Keys /\ Known' = Known /\ Dependencies' = Dependencies /\ Calls' = Calls
        /\ \A a, b : Mutual(a, b)' = Mutual(a, b)
        /\ \A n : Successors(n)' = Successors(n) /\ Predecessors(n)' = Predecessors(n)
    BY <2>1, GraphStays
  <2>3. /\ Finished' = Finished /\ OnTheWay' = OnTheWay /\ AtHand' = AtHand /\ Assigned' = Assigned
        /\ \A r, m : LeftLater(r, m)' = LeftLater(r, m)
    BY <2>1 DEF Finished, OnTheWay, AtHand, Assigned, LeftLater
  <2>4. CycleTypes' = CycleTypes
    BY <2>1, <2>2 DEF CycleTypes
  <2>5. WayUp' = WayUp
    BY <2>1, <2>2, <2>3 DEF WayUp
  <2>6. LeftBehind' = LeftBehind /\ LastIsOutermost' = LastIsOutermost
    BY <2>1, <2>2, <2>3 DEF LeftBehind, LastIsOutermost
  <2>7. Gathering' = Gathering
    BY <2>1, <2>2, <2>3 DEF Gathering, FilesOf
  <2>8. CyclesIn(pairs)' = CyclesIn(pairs)
    BY <2>1 DEF CyclesIn, FilesOf
  <2> QED
    BY <2>1, <2>2, <2>4, <2>5, <2>6, <2>7, <2>8 DEF CyclesInv
<1> QED
  BY <1>1, <1>2, <1>3, <1>4, <1>5, <1>6 DEF CyclesNext

(* A component of files is its own set of files.                            *)
LEMMA FoundIsExact == CyclesInv => CyclesAreExact
<1> SUFFICES ASSUME CyclesInv, pass = "done"
             PROVE  cycles = {c \in Strong(Dependencies) \cup CallChains : Several(c)}
  BY DEF CyclesAreExact
<1>1. cycles = CyclesIn(Dependencies) \cup CyclesIn(Calls) /\ program \in Programs
  BY DEF CyclesInv, CycleTypes, Known
<1>2. Ends(Dependencies) \subseteq Files
  BY <1>1, PairsAreOwned DEF Ends
<1>3. \A c \in Strong(Dependencies) : FilesOf(c) = c
  <2> SUFFICES ASSUME NEW c, c \subseteq Files
               PROVE  FilesOf(c) = c
    BY <1>2 DEF Strong
  <2> QED
    BY CyclesAssumption DEF FilesOf
<1>4. {FilesOf(c) : c \in Strong(Dependencies)} = Strong(Dependencies)
  BY <1>3
<1>5. ReliableCalls = Calls
  BY DEF ReliableCalls, Calls
<1>6. CallChains = {FilesOf(c) : c \in Strong(Calls)}
  BY <1>5 DEF CallChains
<1> QED
  BY <1>1, <1>4, <1>6 DEF CyclesIn

(* The two passes find the files of every cycle of dependencies and of      *)
(* every cycle of calls that leaves its file, each whole and each once, and *)
(* nothing else, in every graph: a node of a component that others need is  *)
(* left after them all, so the second pass, from the node left last, never  *)
(* gets out of a component against the edges.                               *)
THEOREM CyclesAreFound == CyclesSpec => []CyclesAreExact
<1>1. CyclesInit => CyclesInv
  BY CyclesStart
<1>2. CyclesInv /\ [CyclesNext]_cycleVars => CyclesInv'
  BY CyclesKept
<1>3. CyclesInv => CyclesAreExact
  BY FoundIsExact
<1> QED
  BY <1>1, <1>2, <1>3, PTL DEF CyclesSpec
=============================================================================
