---------------------------- MODULE ChangeProofs ----------------------------
(* What a change is said to have changed and to reach, which suites it asks *)
(* for, and what a history of changes comes to, for every repository, graph *)
(* and request.                                                             *)
EXTENDS ChangeSymbols, ChangeRadius, TestSelection, RevisionHistory, DataInduction, FiniteSetTheorems

-----------------------------------------------------------------------------
(* change_impact names what changed: the pairs, and the records made of     *)
(* them.                                                                    *)

ChangeTypes ==
  /\ available \in BOOLEAN /\ before \in Revision /\ after \in Revision
  /\ progress \in {"pairing", "done"}
  /\ todo \subseteq Declared(before)
  /\ DOMAIN paired \subseteq Declared(before) \ todo
  /\ paired \in [DOMAIN paired -> Declared(after)]

PairsAreApart == \A s, t \in DOMAIN paired : paired[s] = paired[t] => s = t

Alike(s, t) ==
  \/ Text(before[s]) = Text(after[t])
  \/ FileAt[s] = FileAt[t] /\ before[s].label = after[t].label

PairsAreAlike == \A s \in DOMAIN paired : Alike(s, paired[s])

RemovedOnes ==
  {Record(s, "removed", "base") : s \in (Declared(before) \ todo) \ DOMAIN paired}

ChangedOnes ==
  UNION {{Record(paired[s], c, "candidate") : c \in Classify(s, paired[s])} : s \in DOMAIN paired}

AddedOnes == {Record(t, "added", "candidate") : t \in Free}

(* The answer is made of the pairs, and of nothing else. *)
ChangesAreTold ==
  /\ progress = "pairing" => changes = RemovedOnes \cup ChangedOnes
  /\ progress = "done" /\ available =>
       /\ todo = {}
       /\ \E files : changes = RemovedOnes \cup ChangedOnes \cup AddedOnes
                               \cup {Whole(f) : f \in files}

(* Both revisions declare the same under names that are unique.             *)
Unmoved == SameBehaviour /\ NamesAreUnique(before) /\ NamesAreUnique(after)

(* Then every declaration has been paired with the one that does the same.  *)
MatesAreFound ==
  Unmoved => \A s \in Declared(before) \ todo :
               s \in DOMAIN paired /\ Behaviour(before, s) = Behaviour(after, paired[s])

ChangeInv == ChangeTypes /\ PairsAreApart /\ PairsAreAlike /\ ChangesAreTold /\ MatesAreFound

-----------------------------------------------------------------------------
(* The declarations of a revision are records at numbered places.           *)
LEMMA DeclaredTypes ==
  ASSUME NEW revision \in Revision
  PROVE  /\ Declared(revision) \subseteq Slots /\ Declared(revision) \subseteq Nat
         /\ IsFiniteSet(Declared(revision))
         /\ \A s \in Declared(revision) : revision[s] \in Declarations
<1>1. Declared(revision) \subseteq Slots
  BY DEF Declared
<1>2. IsFiniteSet(Declared(revision))
  BY <1>1, FS_Subset, SymbolsAssumption
<1>3. \A s \in Declared(revision) : revision[s] \in Declarations
  BY DEF Declared, Revision
<1> QED
  BY <1>1, <1>2, <1>3, SymbolsAssumption

(* A pair is of one of five classes; those that are not walked leave the    *)
(* behaviour as it is, and only those do.                                   *)
LEMMA ClassesTellBehaviour ==
  ASSUME NEW s, NEW t, Alike(s, t)
  PROVE  /\ Classify(s, t) \subseteq {"export", "relocated", "line_shift", "doc_only", "body"}
         /\ Classify(s, t) \subseteq {"line_shift", "doc_only"}
              <=> Behaviour(before, s) = Behaviour(after, t)
<1>1. CASE before[s].exported # after[t].exported
  <2>1. Classify(s, t) = {"export"}
    BY <1>1 DEF Classify
  <2>2. Behaviour(before, s) # Behaviour(after, t)
    BY <1>1 DEF Behaviour
  <2> QED
    BY <2>1, <2>2
<1>2. CASE /\ before[s].exported = after[t].exported
           /\ Text(before[s]) = Text(after[t]) /\ FileAt[s] # FileAt[t]
  <2>1. Classify(s, t) = {"relocated"}
    BY <1>2 DEF Classify
  <2>2. Behaviour(before, s) # Behaviour(after, t)
    BY <1>2 DEF Behaviour
  <2> QED
    BY <2>1, <2>2
<1>3. CASE /\ before[s].exported = after[t].exported
           /\ Text(before[s]) = Text(after[t]) /\ FileAt[s] = FileAt[t]
  <2>1. Classify(s, t) = IF s # t THEN {"line_shift"} ELSE {}
    BY <1>3 DEF Classify
  <2>2. Behaviour(before, s) = Behaviour(after, t)
    BY <1>3 DEF Behaviour, Text
  <2> QED
    BY <2>1, <2>2
<1>4. CASE /\ before[s].exported = after[t].exported
           /\ Text(before[s]) # Text(after[t])
  <2>1. Classify(s, t) = IF before[s].code = after[t].code THEN {"doc_only"} ELSE {"body"}
    BY <1>4 DEF Classify
  <2>2. FileAt[s] = FileAt[t] /\ before[s].label = after[t].label
    BY <1>4 DEF Alike
  <2>3. Behaviour(before, s) = Behaviour(after, t) <=> before[s].code = after[t].code
    BY <1>4, <2>2 DEF Behaviour
  <2> QED
    BY <2>1, <2>3
<1> QED
  BY <1>1, <1>2, <1>3, <1>4

(* What a declaration of the base is matched with. *)
LEMMA MatchesAreFree ==
  ASSUME NEW s, NEW t \in Match(s)
  PROVE  t \in Free /\ Alike(s, t)
<1>1. t \in SameId(s) \/ t \in SameName(s) \/ t \in SameText(s)
  BY DEF Match, Only
<1>2. CASE t \in SameId(s)
  BY <1>2 DEF SameId, Alike
<1>3. CASE t \in SameName(s)
  BY <1>3 DEF SameName, Alike
<1>4. CASE t \in SameText(s)
  BY <1>4 DEF SameText, Alike
<1> QED
  BY <1>1, <1>2, <1>3, <1>4

(* A declaration of the base has its like in the candidate.                 *)
LEMMA MateExists ==
  ASSUME ChangeTypes, SameBehaviour, NEW s \in Declared(before)
  PROVE  \E t \in Declared(after) : Behaviour(after, t) = Behaviour(before, s)
<1> DEFINE b == Behaviour(before, s)
           S == {u \in Declared(before) : Behaviour(before, u) = b}
           T == {u \in Declared(after) : Behaviour(after, u) = b}
<1>1. Cardinality(S) = Cardinality(T)
  BY DEF SameBehaviour, Times
<1>2. IsFiniteSet(S) /\ IsFiniteSet(T)
  BY DeclaredTypes, FS_Subset DEF ChangeTypes
<1>3. s \in S
  OBVIOUS
<1>4. Cardinality(S) # 0
  <2> HIDE DEF S
  <2> QED
    BY <1>2, <1>3, FS_EmptySet
<1>5. T # {}
  <2> HIDE DEF S, T
  <2> QED
    BY <1>1, <1>4, FS_EmptySet
<1> QED
  BY <1>5

LEMMA MateBack ==
  ASSUME ChangeTypes, SameBehaviour, NEW t \in Declared(after)
  PROVE  \E s \in Declared(before) : Behaviour(before, s) = Behaviour(after, t)
<1> DEFINE b == Behaviour(after, t)
           S == {u \in Declared(before) : Behaviour(before, u) = b}
           T == {u \in Declared(after) : Behaviour(after, u) = b}
<1>1. Cardinality(S) = Cardinality(T)
  BY DEF SameBehaviour, Times
<1>2. IsFiniteSet(S) /\ IsFiniteSet(T)
  BY DeclaredTypes, FS_Subset DEF ChangeTypes
<1>3. t \in T
  OBVIOUS
<1>4. Cardinality(T) # 0
  <2> HIDE DEF T
  <2> QED
    BY <1>2, <1>3, FS_EmptySet
<1>5. S # {}
  <2> HIDE DEF S, T
  <2> QED
    BY <1>1, <1>4, FS_EmptySet
<1> QED
  BY <1>5

(* Nothing but its like is matched with it, and that is free.               *)
LEMMA MateIsMatched ==
  ASSUME ChangeInv, Unmoved, NEW s \in todo
  PROVE  \E t : Match(s) = {t} /\ Behaviour(before, s) = Behaviour(after, t)
<1>1. s \in Declared(before)
  BY DEF ChangeInv, ChangeTypes
<1>2. PICK t \in Declared(after) : Behaviour(after, t) = Behaviour(before, s)
  BY <1>1, MateExists DEF ChangeInv, Unmoved
<1>3. FileAt[t] = FileAt[s] /\ after[t].label = before[s].label
  BY <1>2 DEF Behaviour
<1>4. t \in Free
  <2> SUFFICES ASSUME NEW u \in DOMAIN paired, paired[u] = t
               PROVE  FALSE
    BY <1>2 DEF Free, Range
  <2>1. u \in Declared(before) /\ u \notin todo
    BY DEF ChangeInv, ChangeTypes
  <2>2. Behaviour(before, u) = Behaviour(after, t)
    BY <2>1 DEF ChangeInv, MatesAreFound
  <2>3. FileAt[u] = FileAt[s] /\ before[u].label = before[s].label
    BY <1>3, <2>2 DEF Behaviour
  <2> QED
    BY <1>1, <2>1, <2>3 DEF Unmoved, NamesAreUnique
<1>5. \A u \in Free : FileAt[u] = FileAt[s] /\ after[u].label = before[s].label => u = t
  BY <1>2, <1>3 DEF Free, Unmoved, NamesAreUnique
<1>6. SameName(s) = {t}
  BY <1>3, <1>4, <1>5 DEF SameName
<1>7. SameId(s) \subseteq {t}
  BY <1>5 DEF SameId
<1>8. Only(SameName(s)) = {t}
  BY <1>6, FS_Singleton DEF Only
<1>9. Match(s) = {t}
  BY <1>7, <1>8 DEF Match
<1> QED
  BY <1>2, <1>9

-----------------------------------------------------------------------------
LEMMA ChangeStarts == ChangeInit => ChangeInv
<1> SUFFICES ASSUME ChangeInit
             PROVE  ChangeInv
  OBVIOUS
<1>1. DOMAIN paired = {} /\ todo = Declared(before) /\ changes = {} /\ progress = "pairing"
  BY DEF ChangeInit
<1>2. ChangeTypes
  BY <1>1 DEF ChangeInit, ChangeTypes
<1>3. PairsAreApart /\ PairsAreAlike /\ MatesAreFound
  BY <1>1 DEF PairsAreApart, PairsAreAlike, MatesAreFound
<1>4. RemovedOnes = {} /\ ChangedOnes = {}
  BY <1>1 DEF RemovedOnes, ChangedOnes
<1>5. ChangesAreTold
  BY <1>1, <1>4 DEF ChangesAreTold
<1> QED
  BY <1>2, <1>3, <1>5 DEF ChangeInv

LEMMA UnmovedKeeps ==
  ASSUME UNCHANGED <<before, after>>
  PROVE  Unmoved' <=> Unmoved
BY DEF Unmoved, SameBehaviour, NamesAreUnique, Times, Behaviour, Declared

(* A declaration of the base that finds its pair. *)
LEMMA PairedKeeps ==
  ASSUME ChangeInv, NEW s \in todo, NEW t \in Match(s),
         progress = "pairing", todo' = todo \ {s},
         paired' = [u \in DOMAIN paired \cup {s} |-> IF u = s THEN t ELSE paired[u]],
         changes' = changes \cup {Record(t, c, "candidate") : c \in Classify(s, t)},
         UNCHANGED <<available, before, after, progress>>
  PROVE  ChangeInv'
<1>0. ChangeTypes
  BY DEF ChangeInv
<1>1. t \in Declared(after) /\ t \notin Range(paired) /\ Alike(s, t)
  BY MatchesAreFree DEF Free
<1>2. s \in Declared(before) /\ s \notin DOMAIN paired
  BY <1>0 DEF ChangeTypes
<1>3. /\ DOMAIN paired' = DOMAIN paired \cup {s} /\ paired'[s] = t
      /\ \A u \in DOMAIN paired : paired'[u] = paired[u]
  BY <1>2
<1>4. \A u \in DOMAIN paired : paired[u] \in Declared(after)
  BY <1>0 DEF ChangeTypes
<1>5. ChangeTypes'
  <2>1. Declared(before)' = Declared(before) /\ Declared(after)' = Declared(after)
    BY DEF Declared
  <2>2. paired' \in [DOMAIN paired' -> Declared(after)]
    BY <1>1, <1>3, <1>4
  <2> QED
    BY <1>0, <1>2, <1>3, <2>1, <2>2 DEF ChangeTypes
<1>6. PairsAreApart'
  <2>1. \A u \in DOMAIN paired : paired[u] # t
    BY <1>1 DEF Range
  <2> QED
    BY <1>3, <2>1 DEF ChangeInv, PairsAreApart
<1>7. PairsAreAlike'
  BY <1>1, <1>3 DEF ChangeInv, PairsAreAlike, Alike
<1>8. RemovedOnes' = RemovedOnes
  <2>1. ((Declared(before) \ todo) \ DOMAIN paired)' = (Declared(before) \ todo) \ DOMAIN paired
    BY <1>2, <1>3 DEF Declared
  <2> QED
    BY <2>1 DEF RemovedOnes, Record
<1>9. ChangedOnes' = ChangedOnes \cup {Record(t, c, "candidate") : c \in Classify(s, t)}
  <2> DEFINE Told(u, v) == {Record(v, c, "candidate") : c \in Classify(u, v)}
  <2>1. ChangedOnes = UNION {Told(u, paired[u]) : u \in DOMAIN paired}
    BY DEF ChangedOnes
  <2>2. \A u, v : Classify(u, v)' = Classify(u, v)
    BY DEF Classify, Text
  <2>3. ChangedOnes' = UNION {Told(u, paired'[u]) : u \in DOMAIN paired'}
    BY <2>2 DEF ChangedOnes
  <2> HIDE DEF Told
  <2>4. {Told(u, paired'[u]) : u \in DOMAIN paired'}
           = {Told(u, paired[u]) : u \in DOMAIN paired} \cup {Told(s, t)}
    BY <1>3
  <2>5. ChangedOnes' = ChangedOnes \cup Told(s, t)
    BY <2>1, <2>3, <2>4
  <2> QED
    BY <2>5 DEF Told
<1>10. ChangesAreTold'
  BY <1>8, <1>9 DEF ChangeInv, ChangesAreTold
<1>11. MatesAreFound'
  <2> SUFFICES ASSUME Unmoved'
               PROVE  (\A u \in Declared(before) \ todo :
                         u \in DOMAIN paired /\ Behaviour(before, u) = Behaviour(after, paired[u]))'
    BY DEF MatesAreFound
  <2>1. Unmoved
    BY UnmovedKeeps
  <2>2. Behaviour(before, s) = Behaviour(after, t)
    BY <2>1, MateIsMatched
  <2>3. \A u \in Declared(before) \ todo :
           u \in DOMAIN paired /\ Behaviour(before, u) = Behaviour(after, paired[u])
    BY <2>1 DEF ChangeInv, MatesAreFound
  <2>4. ASSUME NEW u \in Declared(before), u \notin todo \/ u = s
        PROVE  u \in DOMAIN paired' /\ Behaviour(before, u) = Behaviour(after, paired'[u])
    <3>1. CASE u = s
      BY <1>3, <2>2, <3>1
    <3>2. CASE u \notin todo
      <4>1. u \in DOMAIN paired /\ Behaviour(before, u) = Behaviour(after, paired[u])
        BY <2>3, <3>2
      <4>2. u \in DOMAIN paired' /\ paired'[u] = paired[u]
        BY <1>3, <4>1
      <4> QED
        BY <4>1, <4>2
    <3> QED
      BY <2>4, <3>1, <3>2
  <2>5. (Declared(before) \ todo)' = {u \in Declared(before) : u \notin todo \/ u = s}
    BY DEF Declared
  <2> QED
    BY <2>4, <2>5 DEF Behaviour
<1> QED
  BY <1>5, <1>6, <1>7, <1>10, <1>11 DEF ChangeInv

(* A declaration of the base that finds none.                               *)
LEMMA RemovedKeeps ==
  ASSUME ChangeInv, NEW s \in todo, Match(s) = {},
         progress = "pairing", todo' = todo \ {s},
         changes' = changes \cup {Record(s, "removed", "base")},
         UNCHANGED <<available, before, after, progress, paired>>
  PROVE  ChangeInv'
<1>0. ChangeTypes
  BY DEF ChangeInv
<1>1. Declared(before)' = Declared(before) /\ Declared(after)' = Declared(after)
  BY DEF Declared
<1>2. s \in Declared(before) /\ s \notin DOMAIN paired
  BY <1>0 DEF ChangeTypes
<1>3. ChangeTypes'
  BY <1>0, <1>1 DEF ChangeTypes
<1>4. PairsAreApart' /\ PairsAreAlike'
  BY DEF ChangeInv, PairsAreApart, PairsAreAlike, Alike, Text
<1>5. RemovedOnes' = RemovedOnes \cup {Record(s, "removed", "base")}
  <2>1. ((Declared(before) \ todo) \ DOMAIN paired)'
           = ((Declared(before) \ todo) \ DOMAIN paired) \cup {s}
    BY <1>1, <1>2
  <2> QED
    BY <2>1 DEF RemovedOnes, Record
<1>6. ChangedOnes' = ChangedOnes
  BY DEF ChangedOnes, Classify, Text, Record
<1>7. ChangesAreTold'
  BY <1>5, <1>6 DEF ChangeInv, ChangesAreTold
<1>8. ~Unmoved
  BY MateIsMatched
<1>9. ~Unmoved'
  BY <1>8, UnmovedKeeps
<1>10. MatesAreFound'
  BY <1>9 DEF MatesAreFound
<1> QED
  BY <1>3, <1>4, <1>7, <1>10 DEF ChangeInv

LEMMA ChangeGoesOn == ChangeInv /\ [ChangeNext]_changeVars => ChangeInv'
<1> SUFFICES ASSUME ChangeInv, [ChangeNext]_changeVars
             PROVE  ChangeInv'
  OBVIOUS
<1>0. ChangeTypes
  BY DEF ChangeInv
<1>1. CASE Pair
  <2> DEFINE s == CHOOSE u \in todo : \A v \in todo : u <= v
  <2>1. todo \subseteq Nat /\ todo # {}
    BY <1>0, <1>1, DeclaredTypes DEF Pair, ChangeTypes
  <2>2. s \in todo
    BY <2>1, SmallestOfNumbers
  <2>3. /\ progress = "pairing" /\ todo' = todo \ {s}
        /\ UNCHANGED <<available, before, after, progress>>
        /\ \/ \E t \in Match(s) :
                /\ paired' = [u \in DOMAIN paired \cup {s} |-> IF u = s THEN t ELSE paired[u]]
                /\ changes' = changes \cup {Record(t, c, "candidate") : c \in Classify(s, t)}
           \/ /\ Match(s) = {}
              /\ changes' = changes \cup {Record(s, "removed", "base")} /\ UNCHANGED paired
    BY <1>1 DEF Pair
  <2> HIDE DEF s
  <2>4. CASE \E t \in Match(s) :
               /\ paired' = [u \in DOMAIN paired \cup {s} |-> IF u = s THEN t ELSE paired[u]]
               /\ changes' = changes \cup {Record(t, c, "candidate") : c \in Classify(s, t)}
    <3>1. PICK t \in Match(s) :
            /\ paired' = [u \in DOMAIN paired \cup {s} |-> IF u = s THEN t ELSE paired[u]]
            /\ changes' = changes \cup {Record(t, c, "candidate") : c \in Classify(s, t)}
      BY <2>4
    <3> QED
      BY <2>2, <2>3, <3>1, PairedKeeps
  <2>5. CASE /\ Match(s) = {}
             /\ changes' = changes \cup {Record(s, "removed", "base")} /\ UNCHANGED paired
    BY <2>2, <2>3, <2>5, RemovedKeeps
  <2> QED
    BY <2>3, <2>4, <2>5
<1>2. CASE AddRest \/ FileSeeds
  <2>1. /\ progress' = "done" /\ progress = "pairing"
        /\ UNCHANGED <<available, before, after, todo, paired>>
    BY <1>2 DEF AddRest, FileSeeds
  <2>2. ChangeTypes' /\ PairsAreApart' /\ PairsAreAlike'
    BY <2>1, <1>0 DEF ChangeInv, ChangeTypes, Declared, PairsAreApart, PairsAreAlike, Alike, Text
  <2>3. MatesAreFound'
    <3>1. Unmoved' <=> Unmoved
      BY <2>1, UnmovedKeeps
    <3>2. MatesAreFound' <=> MatesAreFound
      BY <2>1, <3>1 DEF MatesAreFound, Declared, Behaviour
    <3> QED
      BY <3>2 DEF ChangeInv
  <2>4. ChangesAreTold'
    <3>1. RemovedOnes' = RemovedOnes /\ ChangedOnes' = ChangedOnes /\ AddedOnes' = AddedOnes
      BY <2>1 DEF RemovedOnes, ChangedOnes, AddedOnes, Classify, Text, Record, Declared, Free
    <3>2. CASE AddRest
      <4>1. \E files : changes' = (changes \cup AddedOnes) \cup {Whole(f) : f \in files}
        BY <3>2 DEF AddRest, AddedOnes
      <4>2. changes = RemovedOnes \cup ChangedOnes /\ todo = {}
        BY <2>1, <3>2 DEF ChangeInv, ChangesAreTold, AddRest
      <4>3. PICK files : changes' = (changes \cup AddedOnes) \cup {Whole(f) : f \in files}
        BY <4>1
      <4>4. changes' = RemovedOnes \cup ChangedOnes \cup AddedOnes \cup {Whole(f) : f \in files}
        BY <4>2, <4>3
      <4>5. \E fs : changes' = RemovedOnes' \cup ChangedOnes' \cup AddedOnes' \cup {Whole(f) : f \in fs}
        BY <4>4, <3>1
      <4>6. (\E fs : changes = RemovedOnes \cup ChangedOnes \cup AddedOnes \cup {Whole(f) : f \in fs})'
        BY <4>5 DEF Whole
      <4> QED
        BY <2>1, <4>2, <4>6 DEF ChangesAreTold
    <3>3. CASE FileSeeds
      BY <2>1, <3>3 DEF ChangesAreTold, FileSeeds
    <3> QED
      BY <1>2, <3>2, <3>3
  <2> QED
    BY <2>2, <2>3, <2>4 DEF ChangeInv
<1>3. CASE UNCHANGED changeVars
  <2>1. UNCHANGED <<available, before, after, todo, paired, changes, progress>>
    BY <1>3 DEF changeVars
  <2>2. ChangeTypes' /\ PairsAreApart' /\ PairsAreAlike'
    BY <2>1, <1>0 DEF ChangeInv, ChangeTypes, Declared, PairsAreApart, PairsAreAlike, Alike, Text
  <2>3. MatesAreFound'
    <3>1. Unmoved' <=> Unmoved
      BY <2>1, UnmovedKeeps
    <3>2. MatesAreFound' <=> MatesAreFound
      BY <2>1, <3>1 DEF MatesAreFound, Declared, Behaviour
    <3> QED
      BY <3>2 DEF ChangeInv
  <2>4. ChangesAreTold'
    <3>1. RemovedOnes' = RemovedOnes /\ ChangedOnes' = ChangedOnes /\ AddedOnes' = AddedOnes
      BY <2>1 DEF RemovedOnes, ChangedOnes, AddedOnes, Classify, Text, Record, Declared, Free
    <3> QED
      BY <2>1, <3>1 DEF ChangeInv, ChangesAreTold, Whole
  <2> QED
    BY <2>2, <2>3, <2>4 DEF ChangeInv
<1> QED
  BY <1>1, <1>2, <1>3 DEF ChangeNext

-----------------------------------------------------------------------------
(* What the records of the answer are. *)
LEMMA RecordsTell ==
  ASSUME ChangeInv, Done, available
  PROVE  /\ \A c \in changes : c.change = "added" => \E t \in Free : c.slot = t
         /\ \A c \in changes : c.change = "removed" =>
              \E s \in Declared(before) \ DOMAIN paired : c.slot = s
         /\ \A c \in changes :
              \/ c.change \in {"added", "removed", "file_level"}
              \/ \E s \in DOMAIN paired : c.change \in Classify(s, paired[s])
         /\ \A t \in Free : Record(t, "added", "candidate") \in changes
         /\ \A s \in Declared(before) \ DOMAIN paired : Record(s, "removed", "base") \in changes
         /\ \A s \in DOMAIN paired : \A change \in Classify(s, paired[s]) :
              Record(paired[s], change, "candidate") \in changes
<1>1. todo = {}
  BY DEF ChangeInv, ChangesAreTold, Done
<1>2. PICK files : changes = RemovedOnes \cup ChangedOnes \cup AddedOnes
                               \cup {Whole(f) : f \in files}
  BY DEF ChangeInv, ChangesAreTold, Done
<1>3. \A c \in RemovedOnes : /\ c.change = "removed"
                             /\ \E s \in Declared(before) \ DOMAIN paired : c.slot = s
  BY <1>1 DEF RemovedOnes, Record
<1>4. \A c \in AddedOnes : c.change = "added" /\ \E t \in Free : c.slot = t
  BY DEF AddedOnes, Record
<1>5. \A c \in ChangedOnes : \E s \in DOMAIN paired : c.change \in Classify(s, paired[s])
  BY DEF ChangedOnes, Record
<1>6. \A f : Whole(f).change = "file_level"
  BY DEF Whole
<1>7. \A s \in DOMAIN paired :
        Classify(s, paired[s]) \subseteq {"export", "relocated", "line_shift", "doc_only", "body"}
  BY ClassesTellBehaviour DEF ChangeInv, PairsAreAlike
<1>8. \A c \in ChangedOnes : c.change # "added" /\ c.change # "removed"
  BY <1>5, <1>7
<1>9. \A c \in changes : c \in RemovedOnes \/ c \in ChangedOnes \/ c \in AddedOnes
                           \/ c.change = "file_level"
  BY <1>2, <1>6
<1>10. \A c \in changes : c.change = "added" => \E t \in Free : c.slot = t
  BY <1>3, <1>4, <1>8, <1>9
<1>11. \A c \in changes : c.change = "removed" =>
         \E s \in Declared(before) \ DOMAIN paired : c.slot = s
  BY <1>3, <1>4, <1>8, <1>9
<1>12. \A c \in changes : \/ c.change \in {"added", "removed", "file_level"}
                          \/ \E s \in DOMAIN paired : c.change \in Classify(s, paired[s])
  BY <1>3, <1>4, <1>5, <1>9
<1>13. \A t \in Free : Record(t, "added", "candidate") \in AddedOnes
  BY DEF AddedOnes
<1>14. \A s \in Declared(before) \ DOMAIN paired : Record(s, "removed", "base") \in RemovedOnes
  BY <1>1 DEF RemovedOnes
<1>15. \A s \in DOMAIN paired : \A change \in Classify(s, paired[s]) :
         Record(paired[s], change, "candidate") \in ChangedOnes
  BY DEF ChangedOnes
<1> QED
  BY <1>2, <1>10, <1>11, <1>12, <1>13, <1>14, <1>15

LEMMA DeclarationsCountOnce == ChangeInv => EachDeclarationOnce
<1> SUFFICES ASSUME ChangeInv, Done, available
             PROVE  EachDeclarationOnce
  BY DEF EachDeclarationOnce
<1>1. ASSUME NEW t \in Declared(after)
      PROVE  (t \in Range(paired)) # (Record(t, "added", "candidate") \in changes)
  <2>1. t \in Free <=> t \notin Range(paired)
    BY DEF Free
  <2>2. Record(t, "added", "candidate").change = "added" /\ Record(t, "added", "candidate").slot = t
    BY DEF Record
  <2>3. Record(t, "added", "candidate") \in changes => t \in Free
    BY <2>2, RecordsTell
  <2>4. t \in Free => Record(t, "added", "candidate") \in changes
    BY RecordsTell
  <2> QED
    BY <2>1, <2>3, <2>4
<1>2. ASSUME NEW s \in Declared(before)
      PROVE  (s \in DOMAIN paired) # (Record(s, "removed", "base") \in changes)
  <2>1. Record(s, "removed", "base").change = "removed" /\ Record(s, "removed", "base").slot = s
    BY DEF Record
  <2>2. Record(s, "removed", "base") \in changes => s \notin DOMAIN paired
    BY <2>1, RecordsTell
  <2>3. s \notin DOMAIN paired => Record(s, "removed", "base") \in changes
    BY RecordsTell
  <2> QED
    BY <2>2, <2>3
<1>3. \A s, t \in DOMAIN paired : paired[s] = paired[t] => s = t
  BY DEF ChangeInv, PairsAreApart
<1> QED
  BY <1>1, <1>2, <1>3 DEF EachDeclarationOnce

LEMMA EditsHaveSeeds == ChangeInv => EditsAreWalked
<1> SUFFICES ASSUME ChangeInv, Done, available, Seeds = {}
             PROVE  SameBehaviour
  BY DEF EditsAreWalked
<1>0. ChangeTypes
  BY DEF ChangeInv
<1>1. \A c \in changes : c.change \notin Walked
  BY DEF Seeds
<1>2. Free = {}
  <2>1. \A t : Record(t, "added", "candidate").change = "added"
    BY DEF Record
  <2> QED
    BY <1>1, <2>1, RecordsTell DEF Walked
<1>3. DOMAIN paired = Declared(before)
  <2>1. \A s : Record(s, "removed", "base").change = "removed"
    BY DEF Record
  <2>2. Declared(before) \ DOMAIN paired = {}
    BY <1>1, <2>1, RecordsTell DEF Walked
  <2> QED
    BY <1>0, <2>2 DEF ChangeTypes
<1>4. ASSUME NEW s \in DOMAIN paired
      PROVE  Behaviour(before, s) = Behaviour(after, paired[s])
  <2>1. Alike(s, paired[s])
    BY DEF ChangeInv, PairsAreAlike
  <2>2. \A change : Record(paired[s], change, "candidate").change = change
    BY DEF Record
  <2>3. \A change \in Classify(s, paired[s]) : change \notin Walked
    BY <1>1, <2>2, RecordsTell
  <2>4. Classify(s, paired[s]) \subseteq {"line_shift", "doc_only"}
    BY <2>1, <2>3, ClassesTellBehaviour DEF Walked
  <2> QED
    BY <2>1, <2>4, ClassesTellBehaviour
<1>5. /\ paired \in [Declared(before) -> Declared(after)]
      /\ \A t \in Declared(after) : \E s \in Declared(before) : paired[s] = t
      /\ \A s, t \in Declared(before) : paired[s] = paired[t] => s = t
  BY <1>0, <1>2, <1>3 DEF ChangeTypes, Free, Range, ChangeInv, PairsAreApart
<1>6. ASSUME NEW b
      PROVE  Times(before, b) = Times(after, b)
  <2> DEFINE S == {s \in Declared(before) : Behaviour(before, s) = b}
             T == {t \in Declared(after) : Behaviour(after, t) = b}
             f == [s \in S |-> paired[s]]
  <2>1. \A s \in S : paired[s] \in T
    BY <1>3, <1>4, <1>5
  <2>2. \A t \in T : \E s \in S : paired[s] = t
    BY <1>3, <1>4, <1>5
  <2>3. \A s, t \in S : paired[s] = paired[t] => s = t
    BY <1>5
  <2>4. IsFiniteSet(S) /\ IsFiniteSet(T)
    BY <1>0, DeclaredTypes, FS_Subset DEF ChangeTypes
  <2>5. Times(before, b) = Cardinality(S) /\ Times(after, b) = Cardinality(T)
    BY DEF Times
  <2> HIDE DEF S, T
  <2>6. f \in Bijection(S, T)
    BY <2>1, <2>2, <2>3 DEF Bijection, Injection, Surjection, IsInjective
  <2>7. Cardinality(S) = Cardinality(T)
    BY <2>4, <2>6, FS_Bijection DEF ExistsBijection
  <2> QED
    BY <2>5, <2>7
<1> QED
  BY <1>6 DEF SameBehaviour

LEMMA CommentsHaveNone == ChangeInv => CommentsAreNotWalked
<1> SUFFICES ASSUME ChangeInv, Done, available, Unmoved, NEW c \in Seeds
             PROVE  c.change = "file_level"
  BY DEF CommentsAreNotWalked, Unmoved
<1>0. ChangeTypes /\ todo = {}
  BY DEF ChangeInv, ChangesAreTold, Done
<1>1. \A s \in Declared(before) :
        s \in DOMAIN paired /\ Behaviour(before, s) = Behaviour(after, paired[s])
  BY <1>0 DEF ChangeInv, MatesAreFound
<1>2. c.change # "removed"
  BY <1>1, RecordsTell DEF Seeds
<1>3. Free = {}
  <2> SUFFICES ASSUME NEW t \in Declared(after)
               PROVE  t \in Range(paired)
    BY DEF Free
  <2>1. PICK s \in Declared(before) : Behaviour(before, s) = Behaviour(after, t)
    BY <1>0, MateBack DEF Unmoved
  <2>2. Behaviour(after, paired[s]) = Behaviour(after, t)
    BY <1>1, <2>1
  <2>3. paired[s] \in Declared(after)
    BY <1>0, <1>1 DEF ChangeTypes
  <2>4. paired[s] = t
    BY <2>2, <2>3 DEF Unmoved, NamesAreUnique, Behaviour
  <2> QED
    BY <1>1, <2>4 DEF Range
<1>4. c.change # "added"
  BY <1>3, RecordsTell DEF Seeds
<1>5. ASSUME NEW s \in DOMAIN paired
      PROVE  c.change \notin Classify(s, paired[s])
  <2>1. s \in Declared(before) /\ Alike(s, paired[s])
    BY <1>0 DEF ChangeTypes, ChangeInv, PairsAreAlike
  <2>2. Classify(s, paired[s]) \subseteq {"line_shift", "doc_only"}
    BY <1>1, <2>1, ClassesTellBehaviour
  <2> QED
    BY <2>2 DEF Seeds, Walked
<1> QED
  BY <1>2, <1>4, <1>5, RecordsTell DEF Seeds

(* What changed between two revisions is told exactly, however many         *)
(* declarations they have and whatever these hold: every declaration        *)
(* answers once, every edit of behaviour is walked, and an edit of comments *)
(* or a moved line is not.                                                  *)
THEOREM ChangesAreReported == ChangeSpec => []ChangesAreExact
<1>1. ChangeInit => ChangeInv
  BY ChangeStarts
<1>2. ChangeInv /\ [ChangeNext]_changeVars => ChangeInv'
  BY ChangeGoesOn
<1>3. ChangeInv => ChangesAreExact
  BY DeclarationsCountOnce, EditsHaveSeeds, CommentsHaveNone DEF ChangesAreExact
<1> QED
  BY <1>1, <1>2, <1>3, PTL DEF ChangeSpec

-----------------------------------------------------------------------------
(* The impact of a change. What depends on a node is counted in layers.     *)

Edges == SUBSET [from : Ids, to : Ids, couples : BOOLEAN]

(* What depends on one of these nodes at once. *)
OneStep(edges, nodes) ==
  {e.from : e \in {d \in edges : d.couples /\ d.to \in nodes /\ d.from \notin Grouping}}

LEMMA DependentsGrow ==
  ASSUME NEW edges \in Edges, NEW node \in Ids
  PROVE  \E F \in [SUBSET Ids -> SUBSET Ids] :
           /\ \A s \in SUBSET Ids : F[s] = s \cup OneStep(edges, s)
           /\ \A h \in Nat : \E w : /\ IsIteration(w, h, SUBSET Ids, {node}, F)
                                    /\ Dependents(edges, node, h) = w[h]
<1> DEFINE S == SUBSET Ids
           F == [s \in S |-> s \cup OneStep(edges, s)]
           Near(s) == {e.from : e \in {d \in edges : d.couples /\ d.to \in s
                                                    /\ d.from \notin Grouping}}
<1>0. \A s : OneStep(edges, s) = Near(s)
  BY DEF OneStep
<1>1. F \in [S -> S] /\ {node} \in S
  BY DEF OneStep, Edges
<1>2. \A s \in S : F[s] = s \cup OneStep(edges, s)
  OBVIOUS
<1>3. ASSUME NEW h \in Nat
      PROVE  \E w : IsIteration(w, h, S, {node}, F) /\ Dependents(edges, node, h) = w[h]
  <2> DEFINE Layers(w) == [k \in 0..h |-> IF k = 0 THEN {node}
                                          ELSE w[k - 1] \cup Near(w[k - 1])]
             W == CHOOSE w : w = Layers(w)
  <2>1. Dependents(edges, node, h) = W[h]
    BY DEF Dependents
  <2>2. PICK c : IsIteration(c, h, S, {node}, F)
    <3> HIDE DEF F, S
    <3> QED
      BY <1>1, IterationExists
  <2>3. c \in [0..h -> S] /\ c[0] = {node} /\ \A k \in 1..h : c[k] = F[c[k - 1]]
    BY <2>2 DEF IsIteration
  <2>4. \A k \in 1..h : c[k] = c[k - 1] \cup Near(c[k - 1])
    <3> HIDE DEF F, Near
    <3> QED
      BY <1>0, <1>2, <2>3
  <2> HIDE DEF Near, F
  <2>5. c = Layers(c)
    BY <2>3, <2>4
  <2>6. W = Layers(W)
    <3> HIDE DEF Layers
    <3> QED
      BY <2>5
  <2>7. W = c
    <3> HIDE DEF W
    <3> DEFINE T == {k \in 0..h : W[k] = c[k]}
    <3>1. 0 \in T
      BY <2>3, <2>6
    <3>2. ASSUME NEW k \in 0..h, k < h, k \in T
          PROVE  k + 1 \in T
      <4>1. k + 1 \in 1..h /\ k + 1 - 1 = k /\ k + 1 \in 0..h /\ k + 1 # 0
        BY <3>2
      <4>2. W[k + 1] = W[k] \cup Near(W[k])
        <5>1. W[k + 1] = Layers(W)[k + 1]
          <6> HIDE DEF Layers
          <6> QED
            BY <2>6
        <5> QED
          BY <4>1, <5>1
      <4>3. c[k + 1] = c[k] \cup Near(c[k])
        BY <2>4, <4>1
      <4> QED
        BY <3>2, <4>1, <4>2, <4>3
    <3>3. \A k \in 0..h : k \in T
      <4> HIDE DEF T
      <4> QED
        BY <3>1, <3>2, BoundedInduction
    <3>4. W \in [0..h -> {W[k] : k \in 0..h}]
      BY <2>6
    <3> QED
      BY <2>3, <3>3, <3>4
  <2> HIDE DEF W, Layers
  <2> QED
    BY <2>1, <2>2, <2>7
<1> HIDE DEF F
<1> QED
  BY <1>1, <1>2, <1>3

(* One layer more. *)
LEMMA DependentsNext ==
  ASSUME NEW edges \in Edges, NEW node \in Ids, NEW d \in Nat
  PROVE  /\ Dependents(edges, node, 0) = {node}
         /\ Dependents(edges, node, d) \subseteq Ids
         /\ Dependents(edges, node, d + 1)
              = Dependents(edges, node, d) \cup OneStep(edges, Dependents(edges, node, d))
<1>1. PICK F \in [SUBSET Ids -> SUBSET Ids] :
        /\ \A s \in SUBSET Ids : F[s] = s \cup OneStep(edges, s)
        /\ \A h \in Nat : \E w : /\ IsIteration(w, h, SUBSET Ids, {node}, F)
                                 /\ Dependents(edges, node, h) = w[h]
  BY DependentsGrow
<1> DEFINE It(w, h) == /\ IsIteration(w, h, SUBSET Ids, {node}, F)
                       /\ Dependents(edges, node, h) = w[h]
<1>0. \A h \in Nat : \E w : It(w, h)
  BY <1>1
<1> HIDE DEF It
<1>2. PICK w : It(w, d + 1)
  BY <1>0
<1>3. ASSUME NEW k \in 0..(d + 1)
      PROVE  Dependents(edges, node, k) = w[k]
  <2>1. PICK b : It(b, k)
    BY <1>0
  <2>2. \A j \in 0..k : b[j] = w[j]
    BY <1>2, <2>1, IterationsAgree DEF It
  <2> QED
    BY <2>1, <2>2 DEF It
<1>4. w[0] = {node} /\ w[d] \in SUBSET Ids /\ w[d + 1] = F[w[d]]
  <2>1. d + 1 \in 1..(d + 1) /\ d + 1 - 1 = d /\ d \in 0..(d + 1)
    OBVIOUS
  <2> QED
    BY <1>2, <2>1 DEF It, IsIteration
<1>5. w[d + 1] = w[d] \cup OneStep(edges, w[d])
  BY <1>1, <1>4
<1>6. 0 \in 0..(d + 1) /\ d \in 0..(d + 1) /\ d + 1 \in 0..(d + 1)
  OBVIOUS
<1> QED
  BY <1>3, <1>4, <1>5, <1>6

LEMMA DependentsAreMore ==
  ASSUME NEW edges \in Edges, NEW node \in Ids, NEW h \in Nat, NEW d \in 0..h
  PROVE  Dependents(edges, node, d) \subseteq Dependents(edges, node, h)
<1> DEFINE D(k) == Dependents(edges, node, k)
           T == {k \in Nat : D(d) \subseteq D(d + k)}
<1>1. 0 \in T
  OBVIOUS
<1>2. ASSUME NEW k \in Nat, k \in T
      PROVE  k + 1 \in T
  <2>1. d + k \in Nat /\ d + (k + 1) = d + k + 1
    OBVIOUS
  <2>2. D(d + k) \subseteq D(d + k + 1)
    BY <2>1, DependentsNext
  <2> HIDE DEF D
  <2> QED
    BY <1>2, <2>1, <2>2
<1>3. \A k \in Nat : k \in T
  <2> HIDE DEF T
  <2> QED
    BY <1>1, <1>2, SetInduction
<1>4. h - d \in Nat /\ d + (h - d) = h
  OBVIOUS
<1> HIDE DEF D
<1>5. D(d) \subseteq D(h)
  BY <1>3, <1>4
<1> QED
  BY <1>5 DEF D

(* A set that holds the node and what depends on its members holds all      *)
(* that depends on the node; a dependent is not a grouping.                 *)
LEMMA DependentsAreIn ==
  ASSUME NEW edges \in Edges, NEW node \in Ids, NEW B, node \in B,
         OneStep(edges, B) \subseteq B, NEW h \in Nat
  PROVE  Dependents(edges, node, h) \subseteq B
<1> DEFINE D(k) == Dependents(edges, node, k)
           T == {k \in Nat : D(k) \subseteq B}
<1>1. 0 \in T
  BY DependentsNext
<1>2. ASSUME NEW k \in Nat, k \in T
      PROVE  k + 1 \in T
  <2>1. D(k + 1) = D(k) \cup OneStep(edges, D(k))
    BY DependentsNext
  <2>2. OneStep(edges, D(k)) \subseteq OneStep(edges, B)
    BY <1>2 DEF OneStep
  <2> HIDE DEF D
  <2> QED
    BY <1>2, <2>1, <2>2
<1>3. \A k \in Nat : k \in T
  <2> HIDE DEF T
  <2> QED
    BY <1>1, <1>2, SetInduction
<1> HIDE DEF D
<1>4. D(h) \subseteq B
  BY <1>3
<1> QED
  BY <1>4 DEF D

LEMMA DependentsAreWalked ==
  ASSUME NEW edges \in Edges, NEW node \in Ids, NEW h \in Nat
  PROVE  node \in Dependents(edges, node, h) /\ Dependents(edges, node, h) \cap Grouping \subseteq {node}
<1>1. Dependents(edges, node, h) \subseteq {node} \cup {n \in Ids : n \notin Grouping}
  <2> DEFINE B == {node} \cup {n \in Ids : n \notin Grouping}
  <2>1. OneStep(edges, B) \subseteq B
    BY DEF OneStep, Edges
  <2> HIDE DEF B
  <2>2. node \in B => Dependents(edges, node, h) \subseteq B
    BY <2>1, DependentsAreIn
  <2> QED
    BY <2>2 DEF B
<1>2. node \in Dependents(edges, node, h)
  BY DependentsNext, DependentsAreMore
<1> QED
  BY <1>1, <1>2

-----------------------------------------------------------------------------
(* The walk of one seed. *)

Item == [node : Ids, distance : Nat]

Active == phase \in {"walking", "expanding"}

RadiusTypes ==
  /\ net \in Graphs /\ limit \in Limits /\ seeds \in SeedLists
  /\ turn \in 0..Len(seeds) /\ phase \in {"seeds", "walking", "expanding", "answered"}
  /\ Active => turn \in 1..Len(seeds) /\ visited \subseteq Ids /\ queue \in Seq(Item)
  /\ Active => \A k \in DOMAIN queue : queue[k].distance <= limit.depth
  /\ phase = "expanding" =>
       /\ at \in Item /\ at.distance < limit.depth
       /\ left \subseteq {e \in Searched : e.to = at.node}
  /\ Active => hits \in Seq([seed : [node : Ids, revision : Revisions], node : Ids, distance : Nat])
  /\ impacts \in Seq(Ids) /\ partial \in BOOLEAN
  /\ phase = "answered" => turn = Len(seeds)

(* What depends on the seed within so many steps. *)
Within(d) == Dependents(Searched, seed.node, d)

Farther(n, d) == d \in 1..limit.depth /\ n \in Within(d) /\ n \notin Within(d - 1)

(* What the walk has met depends on the seed, at the distance it is told    *)
(* with, and is told.                                                       *)
WalkIsSound ==
  /\ seed.node \in visited
  /\ \A h \in Range(hits) :
       h.seed = seed /\ \E n : Farther(n, h.distance) /\ h.node \in WithFiles({n})
  /\ \A n \in visited \ ({seed.node} \cup Grouping) :
       \A m \in WithFiles({n}) : \E h \in Range(hits) : h.node = m
  /\ \A k \in DOMAIN queue : queue[k].node \in Within(queue[k].distance)
  /\ phase = "expanding" => at.node \in Within(at.distance)

InLine(n) == \E k \in DOMAIN queue : queue[k].node = n

(* All within a distance was met; what is left in the queue is as far away  *)
(* or one step farther; what is not has no dependents that were not met.    *)
Layer(c) ==
  /\ Within(c) \subseteq visited
  /\ \A j, k \in DOMAIN queue : j < k => queue[j].distance <= queue[k].distance
  /\ \A k \in DOMAIN queue : /\ c <= queue[k].distance /\ queue[k].distance <= c + 1
                             /\ queue[k].distance # 0 =>
                                  queue[k].node \notin Within(queue[k].distance - 1)
  /\ \A n \in visited : \/ n \in Grouping /\ n # seed.node
                        \/ InLine(n)
                        \/ phase = "expanding" /\ n = at.node
                        \/ OneStep(Searched, {n}) \subseteq visited

Layered ==
  /\ phase = "walking" => queue # <<>> /\ Layer(Head(queue).distance)
  /\ phase = "expanding" =>
       /\ Layer(at.distance)
       /\ \A e \in Searched \ left :
            e.to = at.node /\ e.couples /\ e.from \notin Grouping => e.from \in visited

AllIsMet == Within(limit.depth) \subseteq visited

WalkInv == Active => WalkIsSound /\ (AllIsMet \/ Layered)

-----------------------------------------------------------------------------
(* The seeds, the graph they are walked in and its edges. *)
LEMMA SeedIsKnown ==
  ASSUME RadiusTypes, NEW k \in 1..Len(seeds)
  PROVE  /\ seeds \in Seq([node : Ids, revision : Revisions])
         /\ seeds[k] \in [node : Ids, revision : Revisions]
         /\ net[seeds[k].revision] \in Edges
         /\ limit.depth \in Nat /\ limit.hits \in Nat
<1>1. seeds \in Seq([node : Ids, revision : Revisions])
  BY RadiusAssumption DEF RadiusTypes
<1>2. seeds[k] \in [node : Ids, revision : Revisions]
  <2>1. ASSUME NEW S, NEW q \in Seq(S), NEW j \in 1..Len(q)
        PROVE  q[j] \in S
    OBVIOUS
  <2> QED
    BY <1>1, <2>1
<1>3. net[seeds[k].revision] \in Edges
  BY <1>2, RadiusAssumption DEF RadiusTypes, Edges
<1>4. limit \in [depth : Nat, hits : Nat]
  BY RadiusAssumption DEF RadiusTypes
<1> QED
  BY <1>1, <1>2, <1>3, <1>4

LEMMA WithinNext ==
  ASSUME RadiusTypes, Active
  PROVE  /\ seed \in [node : Ids, revision : Revisions] /\ Searched \in Edges
         /\ limit.depth \in Nat /\ limit.hits \in Nat
         /\ Within(0) = {seed.node}
         /\ \A d \in Nat : /\ Within(d) \subseteq Ids /\ seed.node \in Within(d)
                           /\ Within(d) \cap Grouping \subseteq {seed.node}
                           /\ Within(d + 1) = Within(d) \cup OneStep(Searched, Within(d))
         /\ \A d, h \in Nat : d <= h => Within(d) \subseteq Within(h)
<1>1. turn \in 1..Len(seeds)
  BY DEF RadiusTypes
<1>2. /\ seed \in [node : Ids, revision : Revisions] /\ Searched \in Edges
      /\ limit.depth \in Nat /\ limit.hits \in Nat /\ seed.node \in Ids
  BY <1>1, SeedIsKnown DEF seed, Searched
<1>3. ASSUME NEW d \in Nat
      PROVE  /\ Within(0) = {seed.node}
             /\ Within(d) \subseteq Ids
             /\ Within(d + 1) = Within(d) \cup OneStep(Searched, Within(d))
  BY <1>2, DependentsNext DEF Within
<1>4. ASSUME NEW d \in Nat
      PROVE  seed.node \in Within(d) /\ Within(d) \cap Grouping \subseteq {seed.node}
  BY <1>2, DependentsAreWalked DEF Within
<1>5. ASSUME NEW d \in Nat, NEW h \in Nat, d <= h
      PROVE  Within(d) \subseteq Within(h)
  <2>1. d \in 0..h
    BY <1>5
  <2> QED
    BY <1>2, <2>1, DependentsAreMore DEF Within
<1>6. Within(0) = {seed.node}
  BY <1>3
<1> QED
  BY <1>2, <1>3, <1>4, <1>5, <1>6

LEMMA WithinStays ==
  ASSUME UNCHANGED <<ask, turn>>
  PROVE  /\ \A d : Within(d)' = Within(d)
         /\ \A n, d : Farther(n, d)' <=> Farther(n, d)
         /\ seed' = seed /\ Searched' = Searched
         /\ AllIsMet' <=> Within(limit.depth) \subseteq visited'
<1>1. seed' = seed /\ Searched' = Searched /\ limit' = limit
  BY DEF ask, seed, Searched
<1>2. \A d : Within(d)' = Within(d)
  BY <1>1 DEF Within, Dependents
<1> QED
  BY <1>1, <1>2 DEF Farther, AllIsMet

-----------------------------------------------------------------------------
(* The types are kept. *)
LEMMA RadiusTypesStart == RadiusInit => RadiusTypes
<1> SUFFICES ASSUME RadiusInit
             PROVE  RadiusTypes
  OBVIOUS
<1>1. seeds \in Seq([node : Ids, revision : Revisions])
  BY RadiusAssumption DEF RadiusInit
<1>2. Len(seeds) \in Nat
  BY <1>1
<1>3. ~Active /\ phase # "expanding" /\ phase # "answered"
  BY DEF RadiusInit, Active
<1>4. /\ net \in Graphs /\ limit \in Limits /\ seeds \in SeedLists
      /\ turn \in 0..Len(seeds) /\ phase \in {"seeds", "walking", "expanding", "answered"}
  BY <1>2 DEF RadiusInit
<1>5. impacts \in Seq(Ids)
  BY DEF RadiusInit
<1>6. partial \in BOOLEAN
  BY DEF RadiusInit
<1> QED
  BY <1>3, <1>4, <1>5, <1>6 DEF RadiusTypes

LEMMA AbsorbedTypes ==
  ASSUME RadiusTypes, Active, Absorbed
  PROVE  /\ impacts' \in Seq(Ids)
         /\ witnesses' = witnesses \cup Range(hits)
         /\ Range(impacts') = Range(impacts) \cup {h.node : h \in Range(hits)}
         /\ (\A j, k \in DOMAIN impacts : impacts[j] = impacts[k] => j = k)
              => \A j, k \in DOMAIN impacts' : impacts'[j] = impacts'[k] => j = k
<1> DEFINE S == Seq(Ids)
           n == Len(hits)
           add(k, q) == IF hits[k].node \in Range(q) THEN q ELSE Append(q, hits[k].node)
           F == [k \in 1..n |-> [q \in S |-> add(k, q)]]
           Body(f) == [k \in 0..n |->
             IF k = 0 THEN impacts
             ELSE IF hits[k].node \in Range(f[k - 1]) THEN f[k - 1]
             ELSE Append(f[k - 1], hits[k].node)]
           A == CHOOSE f : f = Body(f)
<1>1. impacts' = A[n] /\ witnesses' = witnesses \cup Range(hits)
  BY DEF Absorbed
<1>2. n \in Nat /\ DOMAIN hits = 1..n /\ \A k \in 1..n : hits[k].node \in Ids
  <2>1. ASSUME NEW T, NEW q \in Seq(T)
        PROVE  Len(q) \in Nat /\ DOMAIN q = 1..Len(q) /\ \A k \in 1..Len(q) : q[k] \in T
    OBVIOUS
  <2> DEFINE T == [seed : [node : Ids, revision : Revisions], node : Ids, distance : Nat]
  <2>2. hits \in Seq(T)
    BY DEF RadiusTypes
  <2>3. \A t \in T : t.node \in Ids
    OBVIOUS
  <2> HIDE DEF T
  <2> QED
    BY <2>1, <2>2, <2>3
<1>3. ASSUME NEW q \in S, NEW m \in Ids
      PROVE  Append(q, m) \in S /\ Range(Append(q, m)) = Range(q) \cup {m}
  <2>1. /\ Append(q, m) \in S /\ DOMAIN q \subseteq DOMAIN Append(q, m)
        /\ Len(q) + 1 \in DOMAIN Append(q, m) /\ Append(q, m)[Len(q) + 1] = m
        /\ \A k \in DOMAIN q : Append(q, m)[k] = q[k]
        /\ \A k \in DOMAIN Append(q, m) : k \in DOMAIN q \/ k = Len(q) + 1
    OBVIOUS
  <2> HIDE DEF S
  <2> QED
    BY <2>1 DEF Range
<1>4. impacts \in S
  BY DEF RadiusTypes
<1> HIDE DEF S, n
<1>5. F \in [1..n -> [S -> S]] /\ \A k \in 1..n : \A q \in S : F[k][q] = add(k, q)
  BY <1>2, <1>3
<1>6. PICK c : IsIndexedIteration(c, n, S, impacts, F)
  <2> HIDE DEF F
  <2> QED
    BY <1>2, <1>4, <1>5, IndexedIterationExists
<1>7. c \in [0..n -> S] /\ c[0] = impacts /\ \A k \in 1..n : c[k] = add(k, c[k - 1])
  <2> HIDE DEF F, add
  <2>1. ASSUME NEW k \in 1..n
        PROVE  c[k - 1] \in S /\ c[k] = F[k][c[k - 1]]
    <3>1. k - 1 \in 0..n
      BY <1>2
    <3> QED
      BY <1>6, <3>1 DEF IsIndexedIteration
  <2> QED
    BY <1>5, <1>6, <2>1 DEF IsIndexedIteration
<1>8. c = Body(c)
  <2>1. \A k \in 0..n : k = 0 \/ k \in 1..n
    BY <1>2
  <2>2. \A k \in 0..n : c[k] = IF k = 0 THEN impacts ELSE add(k, c[k - 1])
    <3> HIDE DEF add
    <3> QED
      BY <1>2, <1>7, <2>1
  <2> QED
    BY <1>7, <2>2
<1>9. A = Body(A)
  <2> HIDE DEF Body
  <2> QED
    BY <1>8
<1> HIDE DEF A, F
<1>10. A[0] = impacts /\ \A k \in 1..n : A[k] = add(k, A[k - 1])
  <2>1. \A k \in 0..n : A[k] = Body(A)[k]
    <3> HIDE DEF Body
    <3> QED
      BY <1>9
  <2>2. 0 \in 0..n /\ \A k \in 1..n : k \in 0..n /\ k # 0
    BY <1>2
  <2> QED
    BY <2>1, <2>2
<1> DEFINE Once(q) == \A j, k \in DOMAIN q : q[j] = q[k] => j = k
           Told(k) == {hits[j].node : j \in 1..k}
           T == {k \in 0..n : /\ A[k] \in S /\ Range(A[k]) = Range(impacts) \cup Told(k)
                              /\ Once(impacts) => Once(A[k])}
<1> HIDE DEF Body
<1>11. ASSUME NEW q \in S, NEW m \in Ids, m \notin Range(q), Once(q)
       PROVE  Once(Append(q, m))
  <2>1. /\ Len(q) + 1 \in DOMAIN Append(q, m) /\ Append(q, m)[Len(q) + 1] = m
        /\ \A k \in DOMAIN q : Append(q, m)[k] = q[k] /\ q[k] # m
        /\ \A k \in DOMAIN Append(q, m) : k \in DOMAIN q \/ k = Len(q) + 1
    BY <1>11 DEF Range, S
  <2> QED
    BY <1>11, <2>1
<1>12. 0 \in T
  BY <1>2, <1>4, <1>10
<1>13. ASSUME NEW k \in 0..n, k < n, k \in T
       PROVE  k + 1 \in T
  <2>1. k + 1 \in 1..n /\ k + 1 - 1 = k /\ k + 1 \in 0..n
    BY <1>2, <1>13
  <2>2. A[k + 1] = add(k + 1, A[k]) /\ hits[k + 1].node \in Ids
    BY <1>2, <1>10, <2>1
  <2>3. Told(k + 1) = Told(k) \cup {hits[k + 1].node}
    <3>1. 1..(k + 1) = (1..k) \cup {k + 1}
      BY <2>1
    <3> QED
      BY <3>1
  <2>4. A[k] \in S /\ Range(A[k]) = Range(impacts) \cup Told(k) /\ (Once(impacts) => Once(A[k]))
    BY <1>13
  <2> HIDE DEF Told, Once
  <2>5. CASE hits[k + 1].node \in Range(A[k])
    <3>1. A[k + 1] = A[k]
      BY <2>2, <2>5
    <3>2. Range(A[k + 1]) = Range(impacts) \cup Told(k + 1)
      BY <2>3, <2>4, <2>5, <3>1
    <3> QED
      BY <2>1, <2>4, <3>1, <3>2
  <2>6. CASE hits[k + 1].node \notin Range(A[k])
    <3>1. A[k + 1] = Append(A[k], hits[k + 1].node)
      BY <2>2, <2>6
    <3>2. A[k + 1] \in S /\ Range(A[k + 1]) = Range(impacts) \cup Told(k + 1)
      BY <1>3, <2>2, <2>3, <2>4, <3>1
    <3>3. Once(impacts) => Once(A[k + 1])
      BY <1>11, <2>2, <2>4, <2>6, <3>1
    <3> QED
      BY <2>1, <3>2, <3>3
  <2> QED
    BY <2>5, <2>6
<1>14. n \in T
  <2>1. \A k \in 0..n : k \in T
    <3> HIDE DEF T
    <3> QED
      BY <1>2, <1>12, <1>13, BoundedInduction
  <2> QED
    BY <1>2, <2>1
<1>15. Told(n) = {h.node : h \in Range(hits)}
  BY <1>2 DEF Range
<1> QED
  BY <1>1, <1>14, <1>15 DEF S

(* A hit is told of a node, and of the file it is declared in.              *)
LEMMA HitsTell ==
  ASSUME RadiusTypes, Active, NEW n \in Ids, NEW d \in Nat
  PROVE  /\ Hits(n, d) \in Seq([seed : [node : Ids, revision : Revisions], node : Ids, distance : Nat])
         /\ \A h \in Range(Hits(n, d)) : h.seed = seed /\ h.distance = d /\ h.node \in WithFiles({n})
         /\ \A m \in WithFiles({n}) : \E h \in Range(Hits(n, d)) : h.node = m
<1> DEFINE T == [seed : [node : Ids, revision : Revisions], node : Ids, distance : Nat]
<1>1. seed \in [node : Ids, revision : Revisions]
  BY WithinNext
<1>2. \A m \in Ids : Hit(m, d) \in T /\ Hit(m, d).seed = seed /\ Hit(m, d).node = m /\ Hit(m, d).distance = d
  BY <1>1 DEF Hit
<1>3. CASE n \in DOMAIN FileOf
  <2>1. FileOf[n] \in Ids
    BY <1>3, RadiusAssumption DEF Range
  <2>2. Hits(n, d) = <<Hit(n, d), Hit(FileOf[n], d)>>
    BY <1>3 DEF Hits
  <2>3. Range(Hits(n, d)) = {Hit(n, d), Hit(FileOf[n], d)}
    BY <2>2 DEF Range
  <2>4. WithFiles({n}) = {n, FileOf[n]}
    BY <1>3 DEF WithFiles
  <2>5. Hits(n, d) \in Seq(T)
    <3> HIDE DEF T
    <3> QED
      BY <1>2, <2>1, <2>2
  <2> QED
    BY <1>2, <2>1, <2>3, <2>4, <2>5
<1>4. CASE n \notin DOMAIN FileOf
  <2>1. Hits(n, d) = <<Hit(n, d)>>
    BY <1>4 DEF Hits
  <2>2. Range(Hits(n, d)) = {Hit(n, d)}
    BY <2>1 DEF Range
  <2>3. WithFiles({n}) = {n}
    BY <1>4 DEF WithFiles
  <2>4. Hits(n, d) \in Seq(T)
    <3> HIDE DEF T
    <3> QED
      BY <1>2, <2>1
  <2> QED
    BY <1>2, <2>2, <2>3, <2>4
<1> QED
  BY <1>3, <1>4

LEMMA JoinedRange ==
  ASSUME NEW S, NEW p \in Seq(S), NEW q \in Seq(S)
  PROVE  p \o q \in Seq(S) /\ Range(p \o q) = Range(p) \cup Range(q)
<1>1. p \o q \in Seq(S)
  OBVIOUS
<1>2. ASSUME NEW k \in DOMAIN (p \o q)
      PROVE  (p \o q)[k] \in Range(p) \cup Range(q)
  <2>1. CASE k <= Len(p)
    <3>1. k \in DOMAIN p /\ (p \o q)[k] = p[k]
      BY <2>1
    <3> QED
      BY <3>1 DEF Range
  <2>2. CASE ~(k <= Len(p))
    <3>1. k - Len(p) \in DOMAIN q /\ (p \o q)[k] = q[k - Len(p)]
      BY <2>2
    <3> QED
      BY <3>1 DEF Range
  <2> QED
    BY <2>1, <2>2
<1>3. ASSUME NEW k \in DOMAIN p
      PROVE  p[k] \in Range(p \o q)
  <2>1. k \in DOMAIN (p \o q) /\ (p \o q)[k] = p[k]
    OBVIOUS
  <2> QED
    BY <2>1 DEF Range
<1>4. ASSUME NEW k \in DOMAIN q
      PROVE  q[k] \in Range(p \o q)
  <2>1. Len(p) + k \in DOMAIN (p \o q) /\ (p \o q)[Len(p) + k] = q[k]
    OBVIOUS
  <2> QED
    BY <2>1 DEF Range
<1> QED
  BY <1>1, <1>2, <1>3, <1>4 DEF Range

LEMMA RadiusTypesStep == RadiusTypes /\ [RadiusNext]_radiusVars => RadiusTypes'
<1> SUFFICES ASSUME RadiusTypes, [RadiusNext]_radiusVars
             PROVE  RadiusTypes'
  OBVIOUS
<1> USE DEF RadiusTypes
<1>0. UNCHANGED ask /\ UNCHANGED <<net, limit, seeds>> /\ Len(seeds) \in Nat
  <2>1. UNCHANGED ask
    BY DEF RadiusNext, radiusVars, StartSeed, Take, Look, Expanded, CutOff, Walk, Answer
  <2>2. ASSUME NEW T, NEW q \in Seq(T)
        PROVE  Len(q) \in Nat
    OBVIOUS
  <2>3. seeds \in Seq([node : Ids, revision : Revisions])
    BY RadiusAssumption
  <2>4. Len(seeds) \in Nat
    BY <2>2, <2>3
  <2> QED
    BY <2>1, <2>4 DEF ask
<1>1. CASE StartSeed
  <2>1. /\ turn < Len(seeds) /\ turn' = turn + 1 /\ phase' = "walking"
        /\ visited' = {seeds[turn + 1].node}
        /\ queue' = <<[node |-> seeds[turn + 1].node, distance |-> 0]>>
        /\ hits' = <<>> /\ impacts' = impacts /\ partial' = partial
    BY <1>1 DEF StartSeed
  <2>2. turn' \in 1..Len(seeds)
    BY <1>0, <2>1
  <2>3. seeds[turn + 1].node \in Ids /\ limit.depth \in Nat
    BY <2>1, <2>2, SeedIsKnown
  <2>4. [node |-> seeds[turn + 1].node, distance |-> 0] \in Item
    BY <2>3 DEF Item
  <2>5. /\ queue' \in Seq(Item)
        /\ DOMAIN queue' = {1} /\ queue'[1] = [node |-> seeds[turn + 1].node, distance |-> 0]
    <3> HIDE DEF Item
    <3> QED
      BY <2>1, <2>4
  <2>6. \A k \in DOMAIN queue' : queue'[k].distance <= limit.depth
    BY <2>3, <2>5
  <2>7. hits' \in Seq([seed : [node : Ids, revision : Revisions], node : Ids, distance : Nat])
    BY <2>1
  <2> QED
    BY <1>0, <2>1, <2>2, <2>3, <2>5, <2>6, <2>7 DEF Active
<1>2. CASE Take
  <2>1. /\ phase = "walking" /\ queue # <<>> /\ queue' = Tail(queue) /\ turn' = turn
        /\ visited' = visited /\ hits' = hits /\ impacts' = impacts /\ partial' = partial
    BY <1>2 DEF Take
  <2>2. /\ queue' \in Seq(Item) /\ Head(queue) \in Item /\ 1 \in DOMAIN queue /\ Head(queue) = queue[1]
        /\ \A k \in DOMAIN queue' : k + 1 \in DOMAIN queue /\ queue'[k] = queue[k + 1]
    BY <2>1, TailPlaces DEF Active
  <2>3. \A k \in DOMAIN queue' : queue'[k].distance <= limit.depth
    BY <2>1, <2>2 DEF Active
  <2>4. CASE Head(queue).distance >= limit.depth
    BY <1>0, <1>2, <2>1, <2>2, <2>3, <2>4 DEF Take, Active
  <2>5. CASE ~(Head(queue).distance >= limit.depth)
    <3>1. /\ at' = Head(queue) /\ phase' = "expanding"
          /\ left' = {e \in Searched : e.to = Head(queue).node}
      BY <1>2, <2>5 DEF Take
    <3>2. limit.depth \in Nat
      BY <2>1, WithinNext DEF Active
    <3>3. at' \in Item /\ at'.distance < limit.depth
      BY <2>2, <2>5, <3>1, <3>2 DEF Item
    <3>4. Searched' = Searched
      <4>1. UNCHANGED <<ask, turn>>
        BY <1>0, <2>1
      <4> QED
        BY <4>1, WithinStays
    <3> QED
      BY <1>0, <2>1, <2>2, <2>3, <3>1, <3>3, <3>4 DEF Active
  <2> QED
    BY <2>4, <2>5
<1>3. CASE Look
  <2>1. /\ phase = "expanding" /\ phase' = phase /\ turn' = turn /\ at' = at
        /\ impacts' = impacts /\ partial' = partial
    BY <1>3 DEF Look
  <2> DEFINE n(e) == e.from
             hit(e) == e.couples /\ e.from \notin visited /\ e.from \notin Grouping
             item(e) == [node |-> e.from, distance |-> at.distance + 1]
  <2>2. PICK e \in left :
          /\ left' = left \ {e} /\ visited' \subseteq visited \cup {e.from}
          /\ hits' = IF hit(e) THEN hits \o Hits(e.from, at.distance + 1) ELSE hits
          /\ queue' = IF hit(e) THEN Append(queue, item(e)) ELSE queue
    BY <1>3 DEF Look
  <2>3. e \in Searched /\ e.from \in Ids /\ at \in Item /\ at.distance < limit.depth /\ limit.depth \in Nat
    BY <2>1, <2>2, WithinNext DEF Edges, Active
  <2>4. at.distance + 1 \in Nat /\ at.distance + 1 <= limit.depth /\ item(e) \in Item
    BY <2>3 DEF Item
  <2>5. Searched' = Searched
    <3>1. UNCHANGED <<ask, turn>>
      BY <1>0, <2>1
    <3> QED
      BY <3>1, WithinStays
  <2>6. /\ queue' \in Seq(Item)
        /\ \A k \in DOMAIN queue' : queue'[k].distance <= limit.depth
    <3>1. queue \in Seq(Item) /\ \A k \in DOMAIN queue : queue[k].distance <= limit.depth
      BY <2>1 DEF Active
    <3>2. /\ Append(queue, item(e)) \in Seq(Item)
          /\ \A k \in DOMAIN Append(queue, item(e)) :
               \/ k \in DOMAIN queue /\ Append(queue, item(e))[k] = queue[k]
               \/ Append(queue, item(e))[k] = item(e)
      <4> HIDE DEF item
      <4> QED
        BY <2>4, <3>1, AppendPlaces
    <3>3. item(e).distance <= limit.depth
      BY <2>4
    <3> HIDE DEF item, hit
    <3> QED
      BY <2>2, <3>1, <3>2, <3>3
  <2>7. hits' \in Seq([seed : [node : Ids, revision : Revisions], node : Ids, distance : Nat])
    <3> DEFINE T == [seed : [node : Ids, revision : Revisions], node : Ids, distance : Nat]
    <3>1. Hits(e.from, at.distance + 1) \in Seq(T) /\ hits \in Seq(T)
      BY <2>1, <2>3, <2>4, HitsTell DEF Active
    <3> HIDE DEF T, hit
    <3>2. hits \o Hits(e.from, at.distance + 1) \in Seq(T)
      BY <3>1, JoinedRange
    <3>3. hits' \in Seq(T)
      BY <2>2, <3>1, <3>2
    <3> QED
      BY <3>3 DEF T
  <2>8. visited' \subseteq Ids /\ left' \subseteq {d \in Searched' : d.to = at.node}
    BY <2>1, <2>2, <2>3, <2>5 DEF Active
  <2> HIDE DEF hit, item
  <2> QED
    BY <1>0, <2>1, <2>3, <2>6, <2>7, <2>8 DEF Active
<1>4. CASE Expanded
  BY <1>0, <1>4 DEF Expanded, Active
<1>5. CASE CutOff \/ Walk
  <2>1. Active /\ Absorbed /\ turn' = turn /\ phase' = "seeds"
    BY <1>5 DEF CutOff, Walk, Active
  <2>2. partial' \in BOOLEAN
    BY <1>5 DEF CutOff, Walk
  <2>3. impacts' \in Seq(Ids)
    BY <2>1, AbsorbedTypes
  <2> QED
    BY <1>0, <2>1, <2>2, <2>3 DEF Active
<1>6. CASE Answer
  BY <1>0, <1>6 DEF Answer, Active
<1>7. CASE UNCHANGED radiusVars
  <2>1. UNCHANGED <<ask, turn, visited, queue, at, left, hits, witnesses, impacts, partial, phase>>
    BY <1>7 DEF radiusVars
  <2>2. Searched' = Searched
    <3>1. UNCHANGED <<ask, turn>>
      BY <2>1
    <3> QED
      BY <3>1, WithinStays
  <2>3. Active' = Active
    BY <2>1 DEF Active
  <2> QED
    BY <1>0, <2>1, <2>2, <2>3
<1> QED
  BY <1>1, <1>2, <1>3, <1>4, <1>5, <1>6, <1>7 DEF RadiusNext

-----------------------------------------------------------------------------
(* The walk of a seed, step by step. *)
LEMMA WalkOfStart ==
  ASSUME RadiusTypes, RadiusTypes', StartSeed
  PROVE  WalkInv'
<1>1. /\ phase' = "walking" /\ turn' = turn + 1 /\ hits' = <<>>
      /\ visited' = {seeds[turn + 1].node} /\ seeds' = seeds
      /\ queue' = <<[node |-> seeds[turn + 1].node, distance |-> 0]>>
  BY DEF StartSeed, ask
<1>2. Active'
  BY <1>1 DEF Active
<1>3. seed' = seeds[turn + 1]
  BY <1>1 DEF seed
<1>4. Within(0)' = {seed'.node}
  <2>1. turn + 1 \in 1..Len(seeds)
    BY <1>1, <1>2 DEF RadiusTypes
  <2>2. Searched' = net[seeds[turn + 1].revision]
    BY <1>1, <1>3 DEF Searched, StartSeed, ask
  <2>3. Dependents(Searched', seed'.node, 0) = {seed'.node}
    BY <1>3, <2>1, <2>2, SeedIsKnown, DependentsNext
  <2> QED
    BY <2>3 DEF Within, Dependents
<1>5. /\ DOMAIN queue' = {1} /\ queue'[1].node = seed'.node /\ queue'[1].distance = 0
      /\ queue' # <<>> /\ Head(queue').distance = 0
  BY <1>1, <1>3
<1>6. Range(hits') = {}
  BY <1>1 DEF Range
<1>7. visited' = {seed'.node}
  BY <1>1, <1>3
<1>8. WalkIsSound'
  BY <1>1, <1>4, <1>5, <1>6, <1>7 DEF WalkIsSound
<1>9. Layer(0)'
  BY <1>1, <1>4, <1>5, <1>7 DEF Layer, InLine
<1>10. Layered'
  BY <1>1, <1>5, <1>9 DEF Layered
<1> QED
  BY <1>8, <1>10 DEF WalkInv

(* What the steps of a walk leave alone. *)
LEMMA WalkStays ==
  ASSUME UNCHANGED <<ask, turn>>
  PROVE  /\ \A n, d : Hits(n, d)' = Hits(n, d)
         /\ \A s : WithFiles(s)' = WithFiles(s)
         /\ \A s : OneStep(Searched, s)' = OneStep(Searched, s)
BY WithinStays DEF Hits, Hit, WithFiles, OneStep

LEMMA WalkOfTake ==
  ASSUME RadiusTypes, RadiusTypes', WalkInv, Take
  PROVE  WalkInv'
<1>0. Active /\ WalkIsSound /\ (AllIsMet \/ Layered)
  BY DEF WalkInv, Active, Take
<1>1. /\ phase = "walking" /\ queue # <<>> /\ queue' = Tail(queue)
      /\ UNCHANGED <<ask, turn, visited, hits, seeds, net, limit>>
  BY DEF Take, ask
<1>2. queue \in Seq(Item) /\ queue' \in Seq(Item)
  BY <1>0, <1>1, TailPlaces DEF RadiusTypes
<1>3. /\ 1 \in DOMAIN queue /\ Head(queue) = queue[1] /\ queue[1] \in Item
      /\ \A k \in DOMAIN queue' : k + 1 \in DOMAIN queue /\ queue'[k] = queue[k + 1] /\ queue'[k] \in Item
      /\ \A k \in DOMAIN queue : k # 1 => k - 1 \in DOMAIN queue' /\ queue'[k - 1] = queue[k]
      /\ queue' # <<>> => Head(queue') = queue[2] /\ 2 \in DOMAIN queue
      /\ DOMAIN queue \subseteq Nat /\ DOMAIN queue' \subseteq Nat
  BY <1>1, <1>2, TailPlaces
<1> DEFINE head == queue[1]
<1>4. head \in Item /\ head.distance \in Nat /\ head.node \in Ids /\ limit.depth \in Nat
      /\ head.distance <= limit.depth /\ head.node \in Within(head.distance)
  BY <1>0, <1>3, WithinNext DEF Item, RadiusTypes, WalkIsSound
<1> HIDE DEF head
<1>5. /\ \A d : Within(d)' = Within(d)
      /\ \A n, d : Farther(n, d)' <=> Farther(n, d)
      /\ seed' = seed /\ Searched' = Searched /\ AllIsMet' = AllIsMet
      /\ \A s : WithFiles(s)' = WithFiles(s)
      /\ \A s : OneStep(Searched, s)' = OneStep(Searched, s)
  BY <1>1, WithinStays, WalkStays DEF AllIsMet
<1>6. \A k \in DOMAIN queue' : queue'[k].node \in Within(queue'[k].distance)
  BY <1>0, <1>3 DEF WalkIsSound
<1>7. CASE head.distance >= limit.depth
  <2>1. phase' = phase
    BY <1>3, <1>7 DEF Take, head
  <2>2. WalkIsSound'
    BY <1>0, <1>1, <1>5, <1>6, <2>1 DEF WalkIsSound
  <2>3. AllIsMet
    <3>1. CASE Layered
      <4>1. Layer(head.distance) /\ head.distance = limit.depth
        BY <1>1, <1>3, <1>4, <1>7, <3>1 DEF Layered, head
      <4> QED
        BY <4>1 DEF Layer, AllIsMet
    <3> QED
      BY <1>0, <3>1
  <2> QED
    BY <1>5, <2>2, <2>3 DEF WalkInv
<1>8. CASE ~(head.distance >= limit.depth)
  <2>1. /\ at' = head /\ phase' = "expanding" /\ left' = {e \in Searched : e.to = head.node}
    BY <1>3, <1>8 DEF Take, head
  <2>2. WalkIsSound'
    BY <1>0, <1>1, <1>4, <1>5, <1>6, <2>1 DEF WalkIsSound
  <2>3. ASSUME Layered
        PROVE  Layered'
    <3>0. PICK c \in Nat : c = head.distance
      BY <1>4
    <3>1. Layer(c)
      BY <1>1, <1>3, <2>3, <3>0 DEF Layered, head
    <3>2. \A n : InLine(n) => n = head.node \/ InLine(n)'
      BY <1>3 DEF InLine, head
    <3>3. \A j, k \in DOMAIN queue' : j < k => queue'[j].distance <= queue'[k].distance
      BY <1>3, <3>1 DEF Layer
    <3>4. \A k \in DOMAIN queue' :
            /\ c <= queue'[k].distance /\ queue'[k].distance <= c + 1
            /\ queue'[k].distance # 0 => queue'[k].node \notin Within(queue'[k].distance - 1)
      BY <1>3, <3>1 DEF Layer
    <3>5. \A n \in visited : \/ n \in Grouping /\ n # seed.node
                             \/ InLine(n)'
                             \/ n = head.node
                             \/ OneStep(Searched, {n}) \subseteq visited
      BY <1>1, <3>1, <3>2 DEF Layer
    <3>6. Within(c) \subseteq visited
      BY <3>1 DEF Layer
    <3>7. Layer(c)'
      BY <1>1, <1>5, <2>1, <3>3, <3>4, <3>5, <3>6 DEF Layer
    <3>8. Layer(at.distance)'
      BY <2>1, <3>0, <3>7 DEF Layer
    <3> QED
      BY <1>5, <2>1, <3>8 DEF Layered
  <2> QED
    BY <1>0, <1>5, <2>2, <2>3 DEF WalkInv
<1> QED
  BY <1>7, <1>8

LEMMA WalkOfExpanded ==
  ASSUME RadiusTypes, RadiusTypes', WalkInv, Expanded
  PROVE  WalkInv'
<1>0. Active /\ WalkIsSound /\ (AllIsMet \/ Layered)
  BY DEF WalkInv, Active, Expanded
<1>1. /\ phase = "expanding" /\ left = {} /\ phase' = "walking"
      /\ UNCHANGED <<ask, turn, visited, queue, hits, seeds, net, limit>>
  BY DEF Expanded, ask
<1>2. /\ \A d : Within(d)' = Within(d)
      /\ \A n, d : Farther(n, d)' <=> Farther(n, d)
      /\ seed' = seed /\ Searched' = Searched /\ AllIsMet' = AllIsMet
      /\ \A s : WithFiles(s)' = WithFiles(s)
      /\ \A s : OneStep(Searched, s)' = OneStep(Searched, s)
  BY <1>1, WithinStays, WalkStays DEF AllIsMet
<1>3. WalkIsSound'
  BY <1>0, <1>1, <1>2 DEF WalkIsSound
<1>4. ASSUME Layered
      PROVE  AllIsMet \/ Layered'
  <2> DEFINE c == at.distance
  <2>1. /\ at \in Item /\ c \in Nat /\ queue \in Seq(Item) /\ Layer(c)
    BY <1>0, <1>1, <1>4 DEF RadiusTypes, Layered, Item
  <2>2. OneStep(Searched, {at.node}) \subseteq visited
    BY <1>1, <1>4 DEF Layered, OneStep
  <2>3. \A n \in visited : \/ n \in Grouping /\ n # seed.node
                           \/ InLine(n)
                           \/ OneStep(Searched, {n}) \subseteq visited
    BY <2>1, <2>2 DEF Layer
  <2>4. CASE queue = <<>>
    <3> DEFINE B == visited \ (Grouping \ {seed.node})
    <3>1. OneStep(Searched, B) \subseteq B
      <4> SUFFICES ASSUME NEW e \in Searched, e.couples, e.to \in B, e.from \notin Grouping
                   PROVE  e.from \in B
        BY DEF OneStep
      <4>1. ~InLine(e.to)
        BY <2>4 DEF InLine
      <4>2. OneStep(Searched, {e.to}) \subseteq visited
        BY <2>3, <4>1
      <4> QED
        BY <4>2 DEF OneStep
    <3>2. seed.node \in B
      BY <1>0 DEF WalkIsSound
    <3>3. /\ seed.node \in Ids /\ Searched \in Edges /\ limit.depth \in Nat
      BY <1>0, WithinNext
    <3> HIDE DEF B
    <3>4. Within(limit.depth) \subseteq B
      BY <3>1, <3>2, <3>3, DependentsAreIn DEF Within
    <3> QED
      BY <3>4 DEF B, AllIsMet
  <2>5. CASE queue # <<>>
    <3> DEFINE d == queue[1].distance
    <3>1. 1 \in DOMAIN queue /\ Head(queue) = queue[1] /\ d \in Nat
      <4>1. 1 \in DOMAIN queue /\ Head(queue) = queue[1] /\ queue[1] \in Item
        BY <2>1, <2>5
      <4> QED
        BY <4>1 DEF Item
    <3>2. c <= d /\ d <= c + 1
      BY <2>1, <3>1 DEF Layer
    <3> HIDE DEF c, d
    <3>3. \A k \in DOMAIN queue : queue[k] \in Item
      BY <2>1
    <3>4. DOMAIN queue \subseteq Nat /\ \A k \in DOMAIN queue : k = 1 \/ 1 < k
      BY <2>1
    <3>5. \A k \in DOMAIN queue : queue[k].distance \in Nat /\ d <= queue[k].distance
                                    /\ queue[k].distance <= c + 1
      BY <2>1, <3>1, <3>3, <3>4 DEF Layer, Item, d
    <3>6. \A k \in DOMAIN queue : queue[k].distance <= d + 1
      BY <2>1, <3>1, <3>2, <3>5
    <3>7. Within(d) \subseteq visited
      <4>1. CASE d = c
        BY <2>1, <4>1 DEF Layer
      <4>2. CASE d = c + 1
        <5>1. /\ Within(c + 1) = Within(c) \cup OneStep(Searched, Within(c))
              /\ Within(c) \cap Grouping \subseteq {seed.node}
          BY <1>0, <2>1, WithinNext
        <5>2. Within(c) \subseteq visited
          BY <2>1 DEF Layer
        <5>3. ASSUME NEW n \in Within(c)
              PROVE  ~InLine(n)
          <6> SUFFICES ASSUME NEW k \in DOMAIN queue, queue[k].node = n
                       PROVE  FALSE
            BY DEF InLine
          <6>1. queue[k].distance = c + 1
            BY <2>1, <3>5, <4>2
          <6>2. c + 1 # 0 /\ c + 1 - 1 = c
            BY <2>1
          <6>3. n \notin Within(c)
            BY <2>1, <6>1, <6>2 DEF Layer
          <6> QED
            BY <5>3, <6>3
        <5>4. \A n \in Within(c) : OneStep(Searched, {n}) \subseteq visited
          BY <2>3, <5>1, <5>2, <5>3
        <5>5. OneStep(Searched, Within(c)) \subseteq visited
          BY <5>4 DEF OneStep
        <5> QED
          BY <4>2, <5>1, <5>2, <5>5
      <4> QED
        BY <2>1, <3>1, <3>2, <4>1, <4>2 DEF c
    <3>8. Layer(d)'
      <4>1. \A n : InLine(n)' <=> InLine(n)
        BY <1>1 DEF InLine
      <4>2. /\ \A j, k \in DOMAIN queue : j < k => queue[j].distance <= queue[k].distance
            /\ \A k \in DOMAIN queue :
                 queue[k].distance # 0 => queue[k].node \notin Within(queue[k].distance - 1)
        BY <2>1 DEF Layer
      <4>3. d' = d
        BY <1>1 DEF d
      <4> QED
        BY <1>1, <1>2, <2>3, <3>5, <3>6, <3>7, <4>1, <4>2, <4>3 DEF Layer
    <3>9. Layer(Head(queue).distance)'
      <4>1. Head(queue') = queue'[1]
        BY <1>1, <3>1
      <4> QED
        BY <3>8, <4>1 DEF Layer, d
    <3> QED
      BY <1>1, <2>5, <3>9 DEF Layered
  <2> QED
    BY <2>4, <2>5
<1> QED
  BY <1>0, <1>2, <1>3, <1>4 DEF WalkInv

LEMMA WalkOfLook ==
  ASSUME RadiusTypes, RadiusTypes', WalkInv, Look
  PROVE  WalkInv'
<1>0. Active /\ WalkIsSound /\ (AllIsMet \/ Layered)
  BY DEF WalkInv, Active, Look
<1>1. /\ phase = "expanding" /\ phase' = "expanding"
      /\ UNCHANGED <<ask, turn, at, seeds, net, limit>>
  BY DEF Look, ask
<1>2. /\ \A d : Within(d)' = Within(d)
      /\ \A n, d : Farther(n, d)' <=> Farther(n, d)
      /\ seed' = seed /\ Searched' = Searched
      /\ AllIsMet' <=> Within(limit.depth) \subseteq visited'
      /\ \A s : WithFiles(s)' = WithFiles(s)
      /\ \A s : OneStep(Searched, s)' = OneStep(Searched, s)
  BY <1>1, WithinStays, WalkStays
<1>3. PICK e \in left :
        LET node == e.from
            new == e.couples /\ node \notin visited
            hit == new /\ node \notin Grouping
        IN  /\ hit => Room
            /\ left' = left \ {e}
            /\ visited' = IF new THEN visited \cup {node} ELSE visited
            /\ hits' = IF hit THEN hits \o Hits(node, at.distance + 1) ELSE hits
            /\ queue' = IF hit THEN Append(queue, [node |-> node, distance |-> at.distance + 1])
                        ELSE queue
  BY DEF Look
<1>4. PICK c \in Nat : c = at.distance
  BY <1>0, <1>1 DEF RadiusTypes, Item
<1>5. PICK item : item = [node |-> e.from, distance |-> c + 1]
  OBVIOUS
<1>6. /\ e \in Searched /\ e.to = at.node /\ at.node \in Within(c) /\ c + 1 <= limit.depth
      /\ limit.depth \in Nat /\ Searched \in Edges /\ e.from \in Ids
      /\ queue \in Seq(Item) /\ queue' \in Seq(Item) /\ left' = left \ {e}
  <2>1. Active' /\ left' = left \ {e}
    BY <1>1, <1>3 DEF Active
  <2>2. queue \in Seq(Item) /\ queue' \in Seq(Item)
    BY <1>0, <2>1 DEF RadiusTypes
  <2>3. limit.depth \in Nat /\ Searched \in Edges
    BY <1>0, WithinNext
  <2>4. e \in Searched /\ e.to = at.node /\ at.distance < limit.depth
    BY <1>1 DEF RadiusTypes
  <2>5. e.from \in Ids
    BY <2>3, <2>4 DEF Edges
  <2>6. at.node \in Within(c)
    BY <1>0, <1>1, <1>4 DEF WalkIsSound
  <2> QED
    BY <1>4, <2>1, <2>2, <2>3, <2>4, <2>5, <2>6
<1>7. Within(c + 1) = Within(c) \cup OneStep(Searched, Within(c)) /\ Within(c + 1) \subseteq Within(limit.depth)
  <2>1. \A d \in Nat : Within(d + 1) = Within(d) \cup OneStep(Searched, Within(d))
    BY <1>0, WithinNext
  <2>2. \A d, h \in Nat : d <= h => Within(d) \subseteq Within(h)
    BY <1>0, WithinNext
  <2>3. c \in Nat /\ c + 1 \in Nat
    BY <1>4
  <2>4. Within(c + 1) = Within(c) \cup OneStep(Searched, Within(c))
    BY <2>1, <2>3
  <2>5. Within(c + 1) \subseteq Within(limit.depth)
    BY <1>6, <2>2, <2>3
  <2> QED
    BY <2>4, <2>5
<1>8. CASE ~(e.couples /\ e.from \notin visited)
  <2>1. visited' = visited /\ hits' = hits /\ queue' = queue
    BY <1>3, <1>8
  <2>2. WalkIsSound'
    BY <1>0, <1>1, <1>2, <2>1 DEF WalkIsSound
  <2>3. ASSUME Layered
        PROVE  Layered'
    <3>1. Layer(c)'
      BY <1>1, <1>2, <1>4, <2>1, <2>3 DEF Layered, Layer, InLine
    <3>2. Layer(at.distance)'
      BY <1>1, <1>4, <3>1 DEF Layer
    <3>3. \A d \in Searched \ left' :
            d.to = at.node /\ d.couples /\ d.from \notin Grouping => d.from \in visited
      BY <1>1, <1>6, <1>8, <2>3 DEF Layered
    <3> QED
      BY <1>1, <1>2, <2>1, <3>2, <3>3 DEF Layered
  <2> QED
    BY <1>0, <1>2, <2>1, <2>2, <2>3 DEF WalkInv, AllIsMet
<1>9. CASE e.couples /\ e.from \notin visited /\ e.from \in Grouping
  <2>1. visited' = visited \cup {e.from} /\ hits' = hits /\ queue' = queue
    BY <1>3, <1>9
  <2>2. e.from # seed.node
    BY <1>0, <1>9 DEF WalkIsSound
  <2>3. WalkIsSound'
    BY <1>0, <1>1, <1>2, <1>9, <2>1 DEF WalkIsSound
  <2>4. ASSUME Layered
        PROVE  Layered'
    <3>1. Layer(c)
      BY <1>1, <1>4, <2>4 DEF Layered
    <3>2. \A n \in visited' : \/ n \in Grouping /\ n # seed.node
                              \/ InLine(n)
                              \/ n = at.node
                              \/ OneStep(Searched, {n}) \subseteq visited'
      BY <1>9, <2>1, <2>2, <3>1 DEF Layer
    <3>3. Within(c) \subseteq visited'
      BY <2>1, <3>1 DEF Layer
    <3>4. Layer(c)'
      BY <1>1, <1>2, <2>1, <3>1, <3>2, <3>3 DEF Layer, InLine
    <3>5. Layer(at.distance)'
      BY <1>1, <1>4, <3>4 DEF Layer
    <3>6. \A d \in Searched \ left' :
            d.to = at.node /\ d.couples /\ d.from \notin Grouping => d.from \in visited'
      BY <1>1, <1>6, <1>9, <2>1, <2>4 DEF Layered
    <3> QED
      BY <1>1, <1>2, <3>5, <3>6 DEF Layered
  <2> QED
    BY <1>0, <1>2, <2>1, <2>3, <2>4 DEF WalkInv, AllIsMet
<1>10. CASE e.couples /\ e.from \notin visited /\ e.from \notin Grouping
  <2>1. /\ visited' = visited \cup {e.from} /\ hits' = hits \o Hits(e.from, c + 1)
        /\ queue' = Append(queue, item)
    BY <1>3, <1>4, <1>5, <1>10
  <2>2. e.from \in Within(c + 1)
    BY <1>6, <1>7, <1>10 DEF OneStep
  <2>3. ~AllIsMet
    BY <1>7, <1>10, <2>2 DEF AllIsMet
  <2>4. Layered /\ Layer(c)
    BY <1>0, <1>1, <1>4, <2>3 DEF Layered
  <2>5. e.from \notin Within(c)
    BY <1>10, <2>4 DEF Layer
  <2>6. Farther(e.from, c + 1)
    BY <1>4, <1>6, <2>2, <2>5 DEF Farther
  <2>7. /\ item \in Item /\ item.node = e.from /\ item.distance = c + 1
    BY <1>4, <1>5, <1>6 DEF Item
  <2>8. /\ DOMAIN queue \subseteq DOMAIN queue'
        /\ Len(queue) + 1 \in DOMAIN queue' /\ queue'[Len(queue) + 1] = item
        /\ \A k \in DOMAIN queue' : \/ k \in DOMAIN queue /\ k < Len(queue) + 1 /\ queue'[k] = queue[k]
                                    \/ k = Len(queue) + 1
        /\ \A k \in DOMAIN queue : queue'[k] = queue[k]
    <3>1. \A k \in DOMAIN queue : k # Len(queue) + 1
      BY <1>6
    <3> QED
      BY <1>6, <2>1, <2>7, <3>1, AppendPlaces
  <2>9. /\ Range(hits') = Range(hits) \cup Range(Hits(e.from, c + 1))
        /\ \A h \in Range(Hits(e.from, c + 1)) :
             h.seed = seed /\ h.distance = c + 1 /\ h.node \in WithFiles({e.from})
        /\ \A m \in WithFiles({e.from}) : \E h \in Range(Hits(e.from, c + 1)) : h.node = m
    <3> DEFINE T == [seed : [node : Ids, revision : Revisions], node : Ids, distance : Nat]
    <3>1. hits \in Seq(T)
      BY <1>0 DEF RadiusTypes
    <3>0. c + 1 \in Nat
      BY <1>4
    <3>2. Hits(e.from, c + 1) \in Seq(T)
      BY <1>0, <1>6, <3>0, HitsTell
    <3> HIDE DEF T
    <3>3. Range(hits') = Range(hits) \cup Range(Hits(e.from, c + 1))
      BY <2>1, <3>1, <3>2, JoinedRange
    <3> QED
      BY <1>0, <1>6, <3>0, <3>3, HitsTell
  <2>10. WalkIsSound'
    <3>1. ASSUME NEW h \in Range(hits')
          PROVE  h.seed = seed /\ \E n : Farther(n, h.distance) /\ h.node \in WithFiles({n})
      BY <1>0, <2>6, <2>9 DEF WalkIsSound
    <3>2. ASSUME NEW n \in visited' \ ({seed.node} \cup Grouping), NEW m \in WithFiles({n})
          PROVE  \E h \in Range(hits') : h.node = m
      BY <1>0, <2>1, <2>9, <3>2 DEF WalkIsSound
    <3>3. ASSUME NEW k \in DOMAIN queue'
          PROVE  queue'[k].node \in Within(queue'[k].distance)
      BY <1>0, <2>2, <2>7, <2>8 DEF WalkIsSound
    <3>4. at.node \in Within(at.distance) /\ seed.node \in visited'
      BY <1>0, <1>1, <2>1 DEF WalkIsSound
    <3> QED
      BY <1>1, <1>2, <3>1, <3>2, <3>3, <3>4 DEF WalkIsSound
  <2>11. Layer(c)'
    <3>1. \A j, k \in DOMAIN queue' : j < k => queue'[j].distance <= queue'[k].distance
      <4> SUFFICES ASSUME NEW j \in DOMAIN queue', NEW k \in DOMAIN queue', j < k
                   PROVE  queue'[j].distance <= queue'[k].distance
        OBVIOUS
      <4>1. CASE k = Len(queue) + 1
        <5>1. j \in DOMAIN queue /\ queue'[j] = queue[j] /\ queue'[k].distance = c + 1
          BY <2>7, <2>8, <4>1
        <5> QED
          BY <2>4, <5>1 DEF Layer
      <4>2. CASE k # Len(queue) + 1
        <5>1. k \in DOMAIN queue /\ queue'[k] = queue[k] /\ k < Len(queue) + 1
          BY <2>8, <4>2
        <5>2. j # Len(queue) + 1
          BY <1>6, <5>1
        <5>3. j \in DOMAIN queue /\ queue'[j] = queue[j]
          BY <2>8, <5>2
        <5> QED
          BY <2>4, <5>1, <5>3 DEF Layer
      <4> QED
        BY <4>1, <4>2
    <3>2. \A k \in DOMAIN queue' :
            /\ c <= queue'[k].distance /\ queue'[k].distance <= c + 1
            /\ queue'[k].distance # 0 => queue'[k].node \notin Within(queue'[k].distance - 1)
      <4> SUFFICES ASSUME NEW k \in DOMAIN queue'
                   PROVE  /\ c <= queue'[k].distance /\ queue'[k].distance <= c + 1
                          /\ queue'[k].distance # 0 =>
                               queue'[k].node \notin Within(queue'[k].distance - 1)
        OBVIOUS
      <4>1. CASE k = Len(queue) + 1
        <5>1. queue'[k].distance = c + 1 /\ queue'[k].node = e.from /\ c + 1 - 1 = c
          BY <2>7, <2>8, <4>1
        <5> QED
          BY <2>5, <5>1
      <4>2. CASE k # Len(queue) + 1
        <5>1. k \in DOMAIN queue /\ queue'[k] = queue[k]
          BY <2>8, <4>2
        <5> QED
          BY <2>4, <5>1 DEF Layer
      <4> QED
        BY <4>1, <4>2
    <3>3. \A n \in visited' : \/ n \in Grouping /\ n # seed.node
                              \/ InLine(n)'
                              \/ n = at.node
                              \/ OneStep(Searched, {n}) \subseteq visited'
      <4>1. InLine(e.from)'
        BY <2>7, <2>8 DEF InLine
      <4>2. \A n : InLine(n) => InLine(n)'
        BY <2>8 DEF InLine
      <4>3. \A n \in visited : \/ n \in Grouping /\ n # seed.node
                               \/ InLine(n)
                               \/ n = at.node
                               \/ OneStep(Searched, {n}) \subseteq visited
        BY <2>4 DEF Layer
      <4>4. e.from' = e.from
        OBVIOUS
      <4>5. \A n : n = e.from => InLine(n)'
        BY <2>7, <2>8 DEF InLine
      <4> QED
        BY <2>1, <4>2, <4>3, <4>5
    <3>4. Within(c) \subseteq visited'
      BY <2>1, <2>4 DEF Layer
    <3> QED
      BY <1>1, <1>2, <3>1, <3>2, <3>3, <3>4 DEF Layer
  <2>12. Layered'
    <3>1. Layer(at.distance)'
      BY <1>1, <1>4, <2>11 DEF Layer
    <3>2. \A d \in Searched \ left' :
            d.to = at.node /\ d.couples /\ d.from \notin Grouping => d.from \in visited'
      BY <1>1, <1>6, <2>1, <2>4 DEF Layered
    <3> QED
      BY <1>1, <1>2, <3>1, <3>2 DEF Layered
  <2> QED
    BY <2>10, <2>12 DEF WalkInv
<1> QED
  BY <1>8, <1>9, <1>10

-----------------------------------------------------------------------------
(* The answer to all seeds. *)
Finished == IF Active THEN turn - 1 ELSE turn

(* All that depends on a seed. *)
DependOn(k) ==
  Dependents(net[seeds[k].revision], seeds[k].node, limit.depth) \ {seeds[k].node}

WholeSoFar ==
  ~partial =>
    \A k \in 1..Finished : \A n \in WithFiles(DependOn(k)) :
      \E h \in witnesses : h.seed = seeds[k] /\ h.node = n

RadiusInv == RadiusTypes /\ WalkInv /\ HitsAreDependents /\ WholeSoFar /\ ImpactsAreWitnessed

LEMMA RadiusStarts == RadiusInit => RadiusInv
<1> SUFFICES ASSUME RadiusInit
             PROVE  RadiusInv
  OBVIOUS
<1>1. /\ turn = 0 /\ ~Active /\ witnesses = {} /\ impacts = <<>>
  BY DEF RadiusInit, Active
<1>2. HitsAreDependents
  BY <1>1 DEF HitsAreDependents
<1>3. WholeSoFar
  BY <1>1 DEF WholeSoFar, Finished
<1>4. ImpactsAreWitnessed
  BY <1>1 DEF ImpactsAreWitnessed, Range
<1>5. WalkInv
  BY <1>1 DEF WalkInv
<1> QED
  BY <1>2, <1>3, <1>4, <1>5, RadiusTypesStart DEF RadiusInv

(* The hits of a walk are dependents of its seed. *)
LEMMA HitsOfSeed ==
  ASSUME RadiusTypes, Active, WalkIsSound, NEW h \in Range(hits)
  PROVE  LET Near(distance) == Dependents(net[h.seed.revision], h.seed.node, distance)
                                 \ {h.seed.node}
             Exact == Near(h.distance) \ Near(h.distance - 1)
         IN  h.distance \in 1..limit.depth /\ h.node \in WithFiles(Exact)
<1>1. h.seed = seed
  BY DEF WalkIsSound
<1>2. PICK n : Farther(n, h.distance) /\ h.node \in WithFiles({n})
  BY DEF WalkIsSound
<1>3. /\ h.distance \in 1..limit.depth /\ n \in Within(h.distance) /\ n \notin Within(h.distance - 1)
  BY <1>2 DEF Farther
<1>4. h.distance - 1 \in Nat
  BY <1>3, WithinNext
<1>5. seed.node \in Within(h.distance - 1)
  BY <1>4, WithinNext
<1> DEFINE Near(d) == Dependents(net[h.seed.revision], h.seed.node, d) \ {h.seed.node}
<1>6. \A d : Near(d) = Within(d) \ {seed.node}
  BY <1>1 DEF Within, Searched
<1> HIDE DEF Near
<1>7. n \in Near(h.distance) \ Near(h.distance - 1)
  BY <1>3, <1>5, <1>6
<1>8. \A S : n \in S => WithFiles({n}) \subseteq WithFiles(S)
  BY DEF WithFiles
<1>9. h.node \in WithFiles(Near(h.distance) \ Near(h.distance - 1))
  BY <1>2, <1>7, <1>8
<1> QED
  BY <1>3, <1>9 DEF Near

(* Putting the hits of a walk with those of the others. *)
LEMMA AbsorbingKeeps ==
  ASSUME RadiusInv, Active, Absorbed, UNCHANGED <<net, limit, seeds>>
  PROVE  HitsAreDependents' /\ ImpactsAreWitnessed'
<1>0. RadiusTypes /\ WalkIsSound
  BY DEF RadiusInv, WalkInv
<1>1. /\ witnesses' = witnesses \cup Range(hits)
      /\ Range(impacts') = Range(impacts) \cup {h.node : h \in Range(hits)}
      /\ (\A j, k \in DOMAIN impacts : impacts[j] = impacts[k] => j = k)
              => \A j, k \in DOMAIN impacts' : impacts'[j] = impacts'[k] => j = k
  BY <1>0, AbsorbedTypes
<1>2. ImpactsAreWitnessed'
  <2>1. Range(impacts') = {h.node : h \in witnesses'}
    BY <1>1 DEF RadiusInv, ImpactsAreWitnessed
  <2>2. \A j, k \in DOMAIN impacts' : impacts'[j] = impacts'[k] => j = k
    BY <1>1 DEF RadiusInv, ImpactsAreWitnessed
  <2>3. Range(impacts)' = Range(impacts')
    BY DEF Range
  <2> QED
    BY <2>1, <2>2, <2>3 DEF ImpactsAreWitnessed
<1>3. HitsAreDependents'
  <2> DEFINE P(h) == LET Near(distance) == Dependents(net[h.seed.revision], h.seed.node, distance)
                                              \ {h.seed.node}
                         Exact == Near(h.distance) \ Near(h.distance - 1)
                     IN  h.distance \in 1..limit.depth /\ h.node \in WithFiles(Exact)
  <2>1. HitsAreDependents <=> \A h \in witnesses : P(h)
    BY DEF HitsAreDependents
  <2>2. \A h \in Range(hits) : P(h)
    BY <1>0, HitsOfSeed
  <2>3. \A h : P(h)' <=> P(h)
    BY DEF WithFiles, Dependents
  <2>4. HitsAreDependents' <=> \A h \in witnesses' : P(h)'
    BY DEF HitsAreDependents
  <2> HIDE DEF P
  <2> QED
    BY <1>1, <2>1, <2>2, <2>3, <2>4 DEF RadiusInv
<1> QED
  BY <1>2, <1>3

LEMMA ClaimsStay ==
  ASSUME RadiusInv, UNCHANGED <<net, limit, seeds, witnesses, impacts, partial>>, Finished' = Finished
  PROVE  HitsAreDependents' /\ WholeSoFar' /\ ImpactsAreWitnessed'
<1>1. HitsAreDependents'
  <2> DEFINE P(h) == LET Near(distance) == Dependents(net[h.seed.revision], h.seed.node, distance)
                                              \ {h.seed.node}
                         Exact == Near(h.distance) \ Near(h.distance - 1)
                     IN  h.distance \in 1..limit.depth /\ h.node \in WithFiles(Exact)
  <2>1. HitsAreDependents <=> \A h \in witnesses : P(h)
    BY DEF HitsAreDependents
  <2>2. \A h : P(h)' <=> P(h)
    BY DEF WithFiles, Dependents
  <2>3. HitsAreDependents' <=> \A h \in witnesses' : P(h)'
    BY DEF HitsAreDependents
  <2> HIDE DEF P
  <2> QED
    BY <2>1, <2>2, <2>3 DEF RadiusInv
<1>2. WholeSoFar'
  <2>1. \A k : DependOn(k)' = DependOn(k)
    BY DEF DependOn, Dependents
  <2>2. \A S : WithFiles(S)' = WithFiles(S)
    BY DEF WithFiles
  <2> QED
    BY <2>1, <2>2 DEF RadiusInv, WholeSoFar
<1>3. ImpactsAreWitnessed'
  BY DEF RadiusInv, ImpactsAreWitnessed, Range
<1> QED
  BY <1>1, <1>2, <1>3

LEMMA WalkIsWhole ==
  ASSUME RadiusInv, Walk
  PROVE  WholeSoFar'
<1>1. /\ Active /\ phase = "walking" /\ queue = <<>> /\ Absorbed /\ phase' = "seeds"
      /\ UNCHANGED <<net, limit, seeds, turn, partial>>
  BY DEF Walk, Active, ask
<1>2. RadiusTypes /\ WalkIsSound /\ AllIsMet
  BY <1>1 DEF RadiusInv, WalkInv, Layered
<1>3. witnesses' = witnesses \cup Range(hits) /\ turn \in 1..Len(seeds)
  BY <1>1, <1>2, AbsorbedTypes DEF RadiusTypes
<1>4. Finished' = turn /\ Finished = turn - 1 /\ turn \in Nat
  <2>1. turn \in Nat
    <3>1. ASSUME NEW T, NEW q \in Seq(T), NEW k \in 1..Len(q)
          PROVE  k \in Nat
      OBVIOUS
    <3> QED
      BY <1>2, <1>3, <3>1, SeedIsKnown
  <2> QED
    BY <1>1, <2>1 DEF Finished, Active
<1>5. \A k : DependOn(k)' = DependOn(k)
  BY <1>1 DEF DependOn, Dependents
<1>6. \A S : WithFiles(S)' = WithFiles(S)
  BY DEF WithFiles
<1>7. ASSUME NEW m \in WithFiles(DependOn(turn))
      PROVE  \E h \in Range(hits) : h.seed = seeds[turn] /\ h.node = m
  <2>1. DependOn(turn) = Within(limit.depth) \ {seed.node}
    BY DEF DependOn, Within, Searched, seed
  <2>2. PICK n \in DependOn(turn) : m \in WithFiles({n})
    BY DEF WithFiles
  <2>3. n \in visited /\ n # seed.node /\ n \notin Grouping
    BY <1>1, <1>2, <2>1, <2>2, WithinNext DEF AllIsMet
  <2>4. PICK h \in Range(hits) : h.node = m
    BY <1>2, <2>2, <2>3 DEF WalkIsSound
  <2>5. h.seed = seeds[turn]
    BY <1>2 DEF WalkIsSound, seed
  <2> QED
    BY <2>4, <2>5
<1>8. ASSUME ~partial, NEW k \in 1..turn, NEW m \in WithFiles(DependOn(k))
      PROVE  \E h \in witnesses' : h.seed = seeds[k] /\ h.node = m
  <2>1. CASE k = turn
    BY <1>3, <1>7, <1>8, <2>1
  <2>2. CASE k # turn
    <3>1. k \in 1..Finished
      BY <1>4, <2>2
    <3>2. \E h \in witnesses : h.seed = seeds[k] /\ h.node = m
      BY <1>8, <3>1 DEF RadiusInv, WholeSoFar
    <3> QED
      BY <1>3, <3>2
  <2> QED
    BY <2>1, <2>2
<1> QED
  BY <1>1, <1>4, <1>5, <1>6, <1>8 DEF WholeSoFar

LEMMA RadiusGoesOn == RadiusInv /\ [RadiusNext]_radiusVars => RadiusInv'
<1> SUFFICES ASSUME RadiusInv, [RadiusNext]_radiusVars
             PROVE  RadiusInv'
  OBVIOUS
<1>0. RadiusTypes /\ RadiusTypes' /\ WalkInv
  BY RadiusTypesStep DEF RadiusInv
<1>1. UNCHANGED <<net, limit, seeds>>
  <2>1. UNCHANGED ask
    BY DEF RadiusNext, radiusVars, StartSeed, Take, Look, Expanded, CutOff, Walk, Answer
  <2> QED
    BY <2>1 DEF ask
<1>2. turn \in Int
  <2>1. ASSUME NEW T, NEW q \in Seq(T)
        PROVE  Len(q) \in Nat
    OBVIOUS
  <2>2. seeds \in Seq([node : Ids, revision : Revisions])
    BY <1>0, RadiusAssumption DEF RadiusTypes
  <2>3. Len(seeds) \in Nat
    BY <2>1, <2>2
  <2> QED
    BY <1>0, <2>3 DEF RadiusTypes
<1>3. CASE StartSeed
  <2>1. Finished' = Finished /\ UNCHANGED <<witnesses, impacts, partial>>
    BY <1>2, <1>3 DEF StartSeed, Finished, Active
  <2> QED
    BY <1>0, <1>1, <1>3, <2>1, ClaimsStay, WalkOfStart DEF RadiusInv
<1>4. CASE Take
  <2>1. Finished' = Finished /\ UNCHANGED <<witnesses, impacts, partial>>
    BY <1>4 DEF Take, Finished, Active
  <2> QED
    BY <1>0, <1>1, <1>4, <2>1, ClaimsStay, WalkOfTake DEF RadiusInv
<1>5. CASE Look
  <2>1. Finished' = Finished /\ UNCHANGED <<witnesses, impacts, partial>>
    BY <1>5 DEF Look, Finished, Active
  <2> QED
    BY <1>0, <1>1, <1>5, <2>1, ClaimsStay, WalkOfLook DEF RadiusInv
<1>6. CASE Expanded
  <2>1. Finished' = Finished /\ UNCHANGED <<witnesses, impacts, partial>>
    BY <1>6 DEF Expanded, Finished, Active
  <2> QED
    BY <1>0, <1>1, <1>6, <2>1, ClaimsStay, WalkOfExpanded DEF RadiusInv
<1>7. CASE CutOff
  <2>1. Active /\ Absorbed /\ partial' = TRUE /\ phase' = "seeds"
    BY <1>7 DEF CutOff, Active
  <2>2. WholeSoFar' /\ WalkInv'
    BY <2>1 DEF WholeSoFar, WalkInv, Active
  <2> QED
    BY <1>0, <1>1, <2>1, <2>2, AbsorbingKeeps DEF RadiusInv
<1>8. CASE Walk
  <2>1. Active /\ Absorbed /\ phase' = "seeds"
    BY <1>8 DEF Walk, Active
  <2>2. WalkInv'
    BY <2>1 DEF WalkInv, Active
  <2> QED
    BY <1>0, <1>1, <1>8, <2>1, <2>2, AbsorbingKeeps, WalkIsWhole DEF RadiusInv
<1>9. CASE Answer
  <2>1. Finished' = Finished /\ UNCHANGED <<witnesses, impacts, partial>>
    BY <1>9 DEF Answer, Finished, Active
  <2>2. WalkInv'
    BY <1>9 DEF Answer, WalkInv, Active
  <2> QED
    BY <1>0, <1>1, <2>1, <2>2, ClaimsStay DEF RadiusInv
<1>10. CASE UNCHANGED radiusVars
  <2>1. UNCHANGED <<ask, turn, visited, queue, at, left, hits, witnesses, impacts, partial, phase>>
    BY <1>10 DEF radiusVars
  <2>2. Finished' = Finished /\ Active' = Active
    BY <2>1 DEF Finished, Active
  <2>3. WalkInv'
    <3>0. UNCHANGED <<ask, turn>>
      BY <2>1
    <3>1. WalkIsSound' <=> WalkIsSound
      BY <1>1, <2>1, <3>0, WithinStays, WalkStays DEF WalkIsSound
    <3>2. AllIsMet' <=> AllIsMet
      BY <1>1, <2>1, <3>0, WithinStays DEF AllIsMet
    <3>3. Layered' <=> Layered
      BY <1>1, <2>1, <3>0, WithinStays, WalkStays DEF Layered, Layer, InLine
    <3> QED
      BY <1>0, <2>2, <3>1, <3>2, <3>3 DEF WalkInv
  <2> QED
    BY <1>0, <1>1, <2>1, <2>2, <2>3, ClaimsStay DEF RadiusInv
<1> QED
  BY <1>3, <1>4, <1>5, <1>6, <1>7, <1>8, <1>9, <1>10 DEF RadiusNext

LEMMA AnswerIsWhole == RadiusInv => UncutIsWhole
<1> SUFFICES ASSUME RadiusInv, phase = "answered", ~partial, NEW k \in DOMAIN seeds
             PROVE  {h.node : h \in {w \in witnesses : w.seed = seeds[k]}} = WithFiles(DependOn(k))
  BY DEF UncutIsWhole, DependOn
<1>0. RadiusTypes /\ ~Active /\ turn = Len(seeds)
  BY DEF RadiusInv, RadiusTypes, Active
<1>1. k \in 1..Len(seeds)
  <2>1. ASSUME NEW T, NEW q \in Seq(T)
        PROVE  DOMAIN q = 1..Len(q)
    OBVIOUS
  <2> QED
    BY <1>0, <2>1, RadiusAssumption DEF RadiusTypes
<1>2. k \in 1..Finished
  BY <1>0, <1>1 DEF Finished
<1>3. \A n \in WithFiles(DependOn(k)) : \E h \in witnesses : h.seed = seeds[k] /\ h.node = n
  BY <1>2 DEF RadiusInv, WholeSoFar
<1>4. ASSUME NEW h \in witnesses, h.seed = seeds[k]
      PROVE  h.node \in WithFiles(DependOn(k))
  <2> DEFINE D(d) == Dependents(net[seeds[k].revision], seeds[k].node, d)
             Exact == (D(h.distance) \ {seeds[k].node}) \ (D(h.distance - 1) \ {seeds[k].node})
  <2>1. h.distance \in 1..limit.depth /\ h.node \in WithFiles(Exact)
    BY <1>4 DEF RadiusInv, HitsAreDependents
  <2>2. limit.depth \in Nat /\ net[seeds[k].revision] \in Edges /\ seeds[k].node \in Ids
    BY <1>0, <1>1, SeedIsKnown
  <2>3. h.distance \in 0..limit.depth
    BY <2>1, <2>2
  <2>4. D(h.distance) \subseteq D(limit.depth)
    BY <2>2, <2>3, DependentsAreMore
  <2> HIDE DEF D
  <2>5. Exact \subseteq D(limit.depth) \ {seeds[k].node}
    BY <2>4
  <2>6. D(limit.depth) \ {seeds[k].node} = DependOn(k)
    BY DEF D, DependOn
  <2>7. \A S, T : S \subseteq T => WithFiles(S) \subseteq WithFiles(T)
    BY DEF WithFiles
  <2> HIDE DEF Exact
  <2> QED
    BY <2>1, <2>5, <2>6, <2>7
<1> QED
  BY <1>3, <1>4

(* The impact of a change is exact for every pair of graphs, every list of  *)
(* seeds and every bound: what is told depends on its seed in the revision  *)
(* of the seed and at no smaller distance, and an answer that is not called *)
(* partial has all of it.                                                   *)
THEOREM RadiusIsReported == RadiusSpec => []RadiusIsExact
<1>1. RadiusInit => RadiusInv
  BY RadiusStarts
<1>2. RadiusInv /\ [RadiusNext]_radiusVars => RadiusInv'
  BY RadiusGoesOn
<1>3. RadiusInv => RadiusIsExact
  BY AnswerIsWhole DEF RadiusInv, RadiusIsExact
<1> QED
  BY <1>1, <1>2, <1>3, PTL DEF RadiusSpec

-----------------------------------------------------------------------------
(* What a request is.                                                       *)

LEMMA SetsAreListed ==
  ASSUME NEW S, IsFiniteSet(S)
  PROVE  /\ SetToSeq(S) \in Seq(S) /\ Range(SetToSeq(S)) = S
         /\ DOMAIN SetToSeq(S) = 1..Cardinality(S) /\ Cardinality(S) \in Nat
         /\ \A x \in S : \E k \in 1..Cardinality(S) : SetToSeq(S)[k] = x
<1> DEFINE n == Cardinality(S)
           f == SetToSeq(S)
<1>1. n \in Nat /\ ExistsBijection(1..n, S)
  BY FS_CardinalityType
<1>2. PICK g : g \in Bijection(1..n, S)
  BY <1>1 DEF ExistsBijection
<1>3. g \in [1..n -> S] /\ IsInjective(g)
  BY <1>2 DEF Bijection, Injection
<1>4. f \in [1..n -> S] /\ IsInjective(f)
  BY <1>3 DEF SetToSeq
<1>5. f \in Injection(1..n, S)
  BY <1>4 DEF Injection
<1>6. IsFiniteSet(1..n) /\ Cardinality(1..n) = n
  BY <1>1, FS_Interval
<1>7. f \in Surjection(1..n, S)
  <2> HIDE DEF f
  <2> QED
    BY <1>5, <1>6, FS_Injection
<1>8. \A x \in S : \E k \in 1..n : f[k] = x
  BY <1>7 DEF Surjection
<1> HIDE DEF f, n
<1>9. f \in Seq(S) /\ DOMAIN f = 1..n
  BY <1>1, <1>4
<1>10. Range(f) = S
  BY <1>4, <1>8 DEF Range
<1> QED
  BY <1>1, <1>8, <1>9, <1>10 DEF f, n

LEMMA RequestTypes ==
  ASSUME request \in Selections
  PROVE  /\ request.suites \subseteq Paths /\ request.nodes \subseteq Paths
         /\ request.edges \subseteq [from : Paths, to : Paths]
         /\ request.depth \in Nat /\ request.max \in Nat /\ request.shown \in Nat
         /\ \A nodes : NeededBy(nodes) \subseteq Paths
  BY SelectionsAssumption DEF SelectionsAssumption, NeededBy

(* What is looked at are paths; without a list of the caller's and a second *)
(* revision they are those that differ from the base.                       *)
LEMMA AskedTells ==
  ASSUME request \in Selections, ~Refused
  PROVE  /\ Asked \in Seq(Paths)
         /\ Explicit = NoFile /\ request.head = NoFile /\ request.scanned \subseteq DOMAIN request.disk =>
              DOMAIN request.base \cap Differing(request.base, request.disk) \subseteq Range(Asked)
<1> DEFINE r == request
<1>1. /\ IsFiniteSet(Paths) /\ NoFile \notin Paths
      /\ r.files = NoFile \/ r.files \in Seq(Paths)
      /\ r.target \in Paths \cup {NoFile}
      /\ r.diff = NoFile \/ \A k \in DOMAIN r.diff : r.diff[k].path \in Paths \cup {NoFile}
      /\ DOMAIN r.base \subseteq Paths /\ DOMAIN r.disk \subseteq Paths /\ r.scanned \subseteq Paths
      /\ r.head = NoFile \/ DOMAIN r.head \subseteq Paths
  BY SelectionsAssumption DEF SelectionsAssumption
<1>2. \A S \in SUBSET Paths : SetToSeq(S) \in Seq(Paths) /\ Range(SetToSeq(S)) = S
  <2> TAKE S \in SUBSET Paths
  <2>1. IsFiniteSet(S)
    BY <1>1, FS_Subset
  <2>2. SetToSeq(S) \in Seq(S) /\ Range(SetToSeq(S)) = S
    BY <2>1, SetsAreListed
  <2>3. \A q \in Seq(S) : q \in Seq(Paths)
    OBVIOUS
  <2> QED
    BY <2>2, <2>3
<1>3. CASE Explicit # NoFile
  <2>1. Asked = Explicit
    BY <1>3 DEF Asked
  <2>2. r.files # NoFile => Explicit \in Seq(Paths)
    BY <1>1 DEF Explicit
  <2>3. r.files = NoFile /\ r.target # NoFile => Explicit \in Seq(Paths)
    <3> SUFFICES ASSUME r.files = NoFile, r.target # NoFile
                 PROVE  Explicit \in Seq(Paths)
      OBVIOUS
    <3>1. Explicit = <<r.target>>
      BY DEF Explicit
    <3> QED
      BY <1>1, <3>1
  <2>4. r.files = NoFile /\ r.target = NoFile => Explicit \in Seq(Paths)
    <3> SUFFICES ASSUME r.files = NoFile, r.target = NoFile
                 PROVE  Explicit \in Seq(Paths)
      OBVIOUS
    <3>1. Explicit = SetToSeq(DiffFiles) /\ r.diff # NoFile
      BY <1>3 DEF Explicit
    <3>2. DiffFiles \subseteq Paths
      BY <1>1, <3>1 DEF DiffFiles, Range
    <3> QED
      BY <1>2, <3>1, <3>2
  <2> QED
    BY <1>3, <2>1, <2>2, <2>3, <2>4
<1>4. CASE Explicit = NoFile /\ ~OnWorktree
  <2>1. r.head # NoFile
    BY <1>4 DEF OnWorktree, Refused
  <2>2. Asked = SetToSeq(Differing(r.base, r.head))
    BY <1>4 DEF Asked
  <2>3. Differing(r.base, r.head) \subseteq Paths
    BY <1>1, <2>1 DEF Differing
  <2> QED
    BY <1>2, <2>1, <2>2, <2>3
<1>5. CASE OnWorktree
  <2> DEFINE found == IF r.baseIsHead THEN AgainstHead ELSE AgainstBase
  <2>1. Explicit = NoFile /\ r.head = NoFile /\ Asked = SetToSeq(found)
    BY <1>5 DEF OnWorktree, Asked
  <2>2. found \subseteq Paths
    BY <1>1 DEF AgainstHead, AgainstBase, Status, Differing, Unscanned, Untracked
  <2>3. ASSUME r.scanned \subseteq DOMAIN r.disk
        PROVE  DOMAIN r.base \cap Differing(r.base, r.disk) \subseteq found
    BY <2>3 DEF AgainstHead, AgainstBase, Status, Differing, Unscanned, Untracked
  <2> HIDE DEF found
  <2> QED
    BY <1>2, <2>1, <2>2, <2>3
<1> QED
  BY <1>3, <1>4, <1>5 DEF OnWorktree, Refused

(* The layers of what depends on a file.                                    *)
LEMMA LayersGrow ==
  ASSUME request \in Selections, NEW f \in Paths
  PROVE  /\ DependentsOf(f)[0] = {f}
         /\ \A k \in 1..request.depth :
              DependentsOf(f)[k] = DependentsOf(f)[k - 1] \cup NeededBy(DependentsOf(f)[k - 1])
<1> DEFINE S == SUBSET Paths
           h == request.depth
           F == [s \in S |-> s \cup NeededBy(s)]
           Layers(w) == [k \in 0..h |-> IF k = 0 THEN {f} ELSE w[k - 1] \cup NeededBy(w[k - 1])]
           W == CHOOSE w : w = Layers(w)
<1>1. h \in Nat /\ F \in [S -> S] /\ {f} \in S
  BY RequestTypes
<1>2. DependentsOf(f) = W
  BY DEF DependentsOf
<1>3. PICK c : IsIteration(c, h, S, {f}, F)
  <2> HIDE DEF F, S, h
  <2> QED
    BY <1>1, IterationExists
<1>4. c \in [0..h -> S] /\ c[0] = {f} /\ \A k \in 1..h : c[k] = F[c[k - 1]]
  BY <1>3 DEF IsIteration
<1>5. \A k \in 1..h : k - 1 \in 0..h /\ k \in 0..h /\ k # 0
  BY <1>1
<1>6. \A k \in 1..h : c[k] = c[k - 1] \cup NeededBy(c[k - 1])
  <2> HIDE DEF h
  <2> QED
    BY <1>4, <1>5
<1>7. \A k \in 0..h : k = 0 \/ k \in 1..h
  BY <1>1
<1> HIDE DEF F, h
<1>8. c = Layers(c)
  BY <1>4, <1>6, <1>7
<1>9. W = Layers(W)
  <2> HIDE DEF Layers
  <2> QED
    BY <1>8
<1>10. 0 \in 0..h
  BY <1>1
<1> HIDE DEF W
<1>11. W[0] = {f} /\ \A k \in 1..h : W[k] = W[k - 1] \cup NeededBy(W[k - 1])
  BY <1>5, <1>9, <1>10
<1> QED
  BY <1>2, <1>11 DEF h

-----------------------------------------------------------------------------
(* The invariant: what the walk at hand has met stands within one step of   *)
(* the node that is expanded next, and nothing an expanded node leads back  *)
(* to was left out.                                                         *)

SelectionTypes ==
  /\ request \in Selections /\ stage \in {"files", "walk", "done", "error"}
  /\ listed \in Seq(Paths) /\ considered \in 0..Len(listed)
  /\ waiting \in Seq(Paths) /\ reached \subseteq [node : Paths, distance : Nat]
  /\ cutShort \subseteq Paths
  /\ \A r \in reasons : r.suite \in Paths /\ r.distance \in Nat
  /\ stage # "error" => ~Refused /\ listed = Asked
  /\ stage = "done" => considered = Len(listed)

Met(n, d) == \E s \in reached : s.node = n /\ s.distance <= d
MetAt(n, d) == \E s \in reached : s.node = n /\ s.distance = d
Told(suite, d) == \E r \in reasons : r.suite = suite /\ r.distance <= d

SuitesStand ==
  \A k \in 1..considered : listed[k] \in request.suites => \E r \in reasons : r.suite = listed[k] /\ r.distance = 0

WalkedFiles == IF stage = "walk" THEN considered - 1 ELSE considered

WalksAreWhole ==
  \A k \in 1..WalkedFiles : listed[k] \in (request.nodes \ request.suites) \ cutShort =>
    \A d \in 1..request.depth : \A s \in DependentsOf(listed[k])[d] \cap request.suites : Told(s, d)

LineIsSorted ==
  /\ \A k \in DOMAIN waiting : \E s \in reached : s.node = waiting[k]
  /\ \A j, k \in DOMAIN waiting : \A s, t \in reached :
       j < k /\ s.node = waiting[j] /\ t.node = waiting[k] => s.distance <= t.distance
  /\ \A s, t \in reached : waiting # <<>> /\ t.node = waiting[1] => s.distance <= t.distance + 1

NodesAreOnce == \A s, t \in reached : s.node = t.node => s = t

OutOfLine(s) == \A k \in DOMAIN waiting : waiting[k] # s.node

NoneIsLeft ==
  File \notin cutShort =>
    \A s \in reached : OutOfLine(s) /\ s.distance < request.depth => \A m \in NeededBy({s.node}) : Met(m, s.distance + 1)

WalkAtHand ==
  stage = "walk" =>
    /\ considered > 0 /\ File \in request.nodes \ request.suites
    /\ MetAt(File, 0) /\ NodesAreOnce /\ LineIsSorted /\ NoneIsLeft

SelectionInv == SelectionTypes /\ SuitesStand /\ WalksAreWhole /\ WalkAtHand

LEMMA SelectionStarts == SelectionInit => SelectionInv
<1> SUFFICES ASSUME SelectionInit
             PROVE  SelectionInv
  OBVIOUS
<1>1. /\ request \in Selections /\ stage = (IF Refused THEN "error" ELSE "files") /\ listed = Asked
      /\ considered = 0 /\ waiting = <<>> /\ reached = {} /\ cutShort = {} /\ reasons = {}
  BY DEF SelectionInit
<1>2. listed \in Seq(Paths)
  <2>1. CASE Refused
    <3>1. listed = <<>>
      BY <1>1, <2>1 DEF Asked
    <3> QED
      BY <3>1
  <2>2. CASE ~Refused
    BY <1>1, <2>2, AskedTells
  <2> QED
    BY <2>1, <2>2
<1>3. SelectionTypes
  BY <1>1, <1>2 DEF SelectionTypes
<1> QED
  BY <1>1, <1>3 DEF SelectionInv, SuitesStand, WalksAreWhole, WalkedFiles, WalkAtHand

(* A walk that has ended has met whatever depends on its file.              *)
LEMMA EndedWalkIsWhole ==
  ASSUME SelectionInv, stage = "walk", waiting = <<>>, File \notin cutShort
  PROVE  \A d \in 0..request.depth : \A m \in DependentsOf(File)[d] : Met(m, d)
<1> DEFINE L == DependentsOf(File)
           T == {d \in 0..request.depth : \A m \in L[d] : Met(m, d)}
<1>1. /\ request \in Selections /\ reached \subseteq [node : Paths, distance : Nat]
      /\ File \in Paths /\ MetAt(File, 0) /\ NoneIsLeft
  BY RequestTypes DEF SelectionInv, SelectionTypes, WalkAtHand
<1>2. request.depth \in Nat
  BY <1>1, RequestTypes
<1>3. L[0] = {File} /\ \A k \in 1..request.depth : L[k] = L[k - 1] \cup NeededBy(L[k - 1])
  BY <1>1, LayersGrow
<1>4. 0 \in T
  BY <1>1, <1>2, <1>3 DEF Met, MetAt
<1>5. ASSUME NEW d \in 0..request.depth, d < request.depth, d \in T
      PROVE  d + 1 \in T
  <2>1. d + 1 \in 1..request.depth /\ d + 1 \in 0..request.depth /\ (d + 1) - 1 = d
    BY <1>2, <1>5
  <2>2. L[d + 1] = L[d] \cup NeededBy(L[d])
    BY <1>3, <2>1
  <2>3. ASSUME NEW m \in L[d]
        PROVE  Met(m, d + 1)
    <3>1. PICK s \in reached : s.node = m /\ s.distance <= d
      BY <1>5 DEF Met
    <3>2. s.distance \in Nat
      BY <1>1
    <3> QED
      BY <3>1, <3>2 DEF Met
  <2>4. ASSUME NEW m \in NeededBy(L[d])
        PROVE  Met(m, d + 1)
    <3>1. PICK e \in request.edges : e.to \in L[d] /\ e.from = m
      BY DEF NeededBy
    <3>2. PICK s \in reached : s.node = e.to /\ s.distance <= d
      BY <1>5, <3>1 DEF Met
    <3>3. m \in NeededBy({s.node})
      BY <3>1, <3>2 DEF NeededBy
    <3>4. s.distance \in Nat /\ s.distance < request.depth
      BY <1>1, <1>2, <1>5, <3>2
    <3>5. OutOfLine(s)
      BY DEF OutOfLine
    <3>6. Met(m, s.distance + 1)
      BY <1>1, <3>3, <3>4, <3>5 DEF NoneIsLeft
    <3>7. PICK t \in reached : t.node = m /\ t.distance <= s.distance + 1
      BY <3>6 DEF Met
    <3>8. t.distance \in Nat /\ t.distance <= d + 1
      BY <1>1, <3>2, <3>4, <3>7
    <3> QED
      BY <3>7, <3>8 DEF Met
  <2> QED
    BY <2>1, <2>2, <2>3, <2>4
<1> HIDE DEF T
<1>6. \A d \in 0..request.depth : d \in T
  BY <1>2, <1>4, <1>5, BoundedInduction
<1> QED
  BY <1>6 DEF T

(* Nothing but what is looked at, met and told changes.                     *)
LEMMA RestStays ==
  ASSUME request' = request
  PROVE  /\ \A f : DependentsOf(f)' = DependentsOf(f)
         /\ \A nodes : NeededBy(nodes)' = NeededBy(nodes)
         /\ Refused' = Refused /\ Asked' = Asked
  BY DEF DependentsOf, NeededBy, Refused, Asked, Explicit, Disagree, OnWorktree, DiffFiles, AgainstHead,
         AgainstBase, Status, Unscanned, Untracked, Unreadable

LEMMA FileKeeps ==
  ASSUME SelectionInv, NextFile
  PROVE  SelectionInv'
<1> DEFINE f == listed[considered + 1]
<1>1. /\ stage = "files" /\ considered < Len(listed) /\ considered' = considered + 1
      /\ UNCHANGED <<request, listed, cutShort>>
      /\ request \in Selections /\ listed \in Seq(Paths) /\ considered \in 0..Len(listed)
      /\ waiting \in Seq(Paths) /\ reached \subseteq [node : Paths, distance : Nat] /\ cutShort \subseteq Paths
      /\ \A r \in reasons : r.suite \in Paths /\ r.distance \in Nat
      /\ ~Refused /\ listed = Asked
  BY DEF SelectionInv, SelectionTypes, NextFile
<1>2. Len(listed) \in Nat /\ considered \in Nat /\ considered + 1 \in 1..Len(listed) /\ f \in Paths
  BY <1>1
<1>3. request.suites \subseteq Paths
  BY <1>1, RequestTypes
<1>4. /\ \A q : DependentsOf(q)' = DependentsOf(q) /\ \A nodes : NeededBy(nodes)' = NeededBy(nodes)
      /\ Refused' = Refused /\ Asked' = Asked
  BY <1>1, RestStays
<1>5. /\ reasons \subseteq reasons'
      /\ \A r \in reasons' : r.suite \in Paths /\ r.distance \in Nat
      /\ f \in request.suites => \E r \in reasons' : r.suite = f /\ r.distance = 0
      /\ \/ UNCHANGED <<stage, waiting, reached>> /\ f \notin request.nodes \ request.suites
         \/ /\ f \in request.nodes \ request.suites /\ stage' = "walk"
            /\ waiting' = <<f>> /\ reached' = {[node |-> f, distance |-> 0]}
  <2>1. \A r \in ByName(f) : r.suite \in Paths /\ r.distance \in Nat
    BY <1>3 DEF ByName, Reason
  <2>2. CASE f \in request.suites /\ reasons' = reasons \cup {Reason(f, "changed_test", f, 0)} /\ UNCHANGED <<stage, waiting, reached>>
    <3>1. Reason(f, "changed_test", f, 0).suite = f /\ Reason(f, "changed_test", f, 0).distance = 0
      BY DEF Reason
    <3> QED
      BY <1>1, <1>2, <2>2, <3>1
  <2>3. CASE f \notin request.suites /\ reasons' = reasons \cup ByName(f)
    BY <1>1, <2>1, <2>3 DEF NextFile
  <2> QED
    BY <1>1, <2>2, <2>3 DEF NextFile
<1>6. File' = f /\ stage' \in {"files", "walk"}
  BY <1>1, <1>5 DEF File
<1>7. SelectionTypes'
  <2>1. considered' \in 0..Len(listed')
    BY <1>1, <1>2
  <2>2. waiting' \in Seq(Paths) /\ reached' \subseteq [node : Paths, distance : Nat]
    <3>1. <<f>> \in Seq(Paths) /\ [node |-> f, distance |-> 0] \in [node : Paths, distance : Nat]
      BY <1>2
    <3> QED
      BY <1>1, <1>5, <3>1
  <2> QED
    BY <1>1, <1>4, <1>5, <1>6, <2>1, <2>2 DEF SelectionTypes
<1>8. SuitesStand'
  <2> SUFFICES ASSUME NEW k \in 1..(considered + 1), listed[k] \in request.suites
               PROVE  \E r \in reasons' : r.suite = listed[k] /\ r.distance = 0
    BY <1>1 DEF SuitesStand
  <2>1. k = considered + 1 \/ k \in 1..considered
    BY <1>2
  <2> QED
    BY <1>5, <2>1 DEF SelectionInv, SuitesStand
<1>9. WalksAreWhole'
  <2> SUFFICES ASSUME NEW k \in 1..WalkedFiles', listed[k] \in (request.nodes \ request.suites) \ cutShort,
                      NEW d \in 1..request.depth, NEW s \in DependentsOf(listed[k])[d] \cap request.suites
               PROVE  \E r \in reasons' : r.suite = s /\ r.distance <= d
    BY <1>1, <1>4 DEF WalksAreWhole, Told
  <2>1. k \in 1..considered
    <3>1. CASE stage' = "walk"
      <4>1. WalkedFiles' = considered
        BY <1>1, <1>2, <3>1 DEF WalkedFiles
      <4> QED
        BY <4>1
    <3>2. CASE stage' # "walk"
      <4>1. WalkedFiles' = considered + 1 /\ f \notin request.nodes \ request.suites
        BY <1>1, <1>5, <3>2 DEF WalkedFiles
      <4>2. k = considered + 1 \/ k \in 1..considered
        BY <1>2, <4>1
      <4> QED
        BY <4>1, <4>2
    <3> QED
      BY <3>1, <3>2
  <2>2. WalkedFiles = considered
    BY <1>1 DEF WalkedFiles
  <2> QED
    BY <1>5, <2>1, <2>2 DEF SelectionInv, WalksAreWhole, Told
<1>10. WalkAtHand'
  <2> SUFFICES ASSUME stage' = "walk"
               PROVE  WalkAtHand'
    BY DEF WalkAtHand
  <2>1. f \in request.nodes \ request.suites /\ waiting' = <<f>> /\ reached' = {[node |-> f, distance |-> 0]}
    BY <1>1, <1>5
  <2>2. MetAt(File, 0)' /\ NodesAreOnce'
    BY <1>6, <2>1 DEF MetAt, NodesAreOnce
  <2>3. LineIsSorted'
    <3>1. DOMAIN waiting' = {1} /\ waiting'[1] = f
      BY <2>1
    <3> QED
      BY <2>1, <3>1 DEF LineIsSorted
  <2>4. NoneIsLeft'
    <3>1. \A s \in reached' : ~OutOfLine(s)'
      <4>1. 1 \in DOMAIN waiting' /\ waiting'[1] = f
        BY <2>1
      <4> QED
        BY <2>1, <4>1 DEF OutOfLine
    <3> QED
      BY <3>1 DEF NoneIsLeft
  <2> QED
    BY <1>1, <1>2, <1>6, <2>1, <2>2, <2>3, <2>4 DEF WalkAtHand
<1> QED
  BY <1>7, <1>8, <1>9, <1>10 DEF SelectionInv

LEMMA FinishKeeps ==
  ASSUME SelectionInv, Finish
  PROVE  SelectionInv'
<1>1. /\ stage = "files" /\ stage' = "done" /\ considered = Len(listed)
      /\ UNCHANGED <<request, listed, considered, waiting, reached, cutShort, reasons>>
  BY DEF Finish
<1>2. /\ \A q : DependentsOf(q)' = DependentsOf(q)
      /\ Refused' = Refused /\ Asked' = Asked
  BY <1>1, RestStays
<1>3. SelectionTypes'
  BY <1>1, <1>2 DEF SelectionInv, SelectionTypes
<1>4. SuitesStand'
  BY <1>1 DEF SelectionInv, SuitesStand
<1>5. WalksAreWhole'
  <2>1. WalkedFiles' = WalkedFiles
    BY <1>1 DEF WalkedFiles
  <2> QED
    BY <1>1, <1>2, <2>1 DEF SelectionInv, WalksAreWhole, Told
<1>6. WalkAtHand'
  BY <1>1 DEF WalkAtHand
<1> QED
  BY <1>3, <1>4, <1>5, <1>6 DEF SelectionInv

LEMMA EndWalkKeeps ==
  ASSUME SelectionInv, EndWalk
  PROVE  SelectionInv'
<1> DEFINE told == {Reason(s.node, "dependent", File, s.distance) : s \in {t \in reached : t.node \in request.suites}}
<1>1. /\ stage = "walk" /\ waiting = <<>> /\ stage' = "files" /\ reached' = {}
      /\ reasons' = reasons \cup told
      /\ UNCHANGED <<request, listed, considered, waiting, cutShort>>
  BY DEF EndWalk
<1>2. /\ request \in Selections /\ reached \subseteq [node : Paths, distance : Nat]
      /\ considered \in 0..Len(listed) /\ considered > 0 /\ listed \in Seq(Paths)
      /\ \A r \in reasons : r.suite \in Paths /\ r.distance \in Nat
  BY <1>1 DEF SelectionInv, SelectionTypes, WalkAtHand
<1>3. /\ \A q : DependentsOf(q)' = DependentsOf(q)
      /\ Refused' = Refused /\ Asked' = Asked
  BY <1>1, RestStays
<1>4. \A r \in told : r.suite \in Paths /\ r.distance \in Nat
  BY <1>2 DEF Reason
<1>5. \A s \in reached : s.node \in request.suites => \E r \in told : r.suite = s.node /\ r.distance = s.distance
  <2> SUFFICES ASSUME NEW s \in reached, s.node \in request.suites
               PROVE  \E r \in told : r.suite = s.node /\ r.distance = s.distance
    OBVIOUS
  <2> DEFINE r == Reason(s.node, "dependent", File, s.distance)
  <2>1. r \in told
    OBVIOUS
  <2>2. r.suite = s.node /\ r.distance = s.distance
    BY DEF Reason
  <2> QED
    BY <2>1, <2>2
<1> HIDE DEF told
<1>6. SelectionTypes'
  BY <1>1, <1>2, <1>3, <1>4 DEF SelectionInv, SelectionTypes
<1>7. SuitesStand'
  BY <1>1 DEF SelectionInv, SuitesStand
<1>8. WalksAreWhole'
  <2> SUFFICES ASSUME NEW k \in 1..WalkedFiles', listed[k] \in (request.nodes \ request.suites) \ cutShort,
                      NEW d \in 1..request.depth, NEW s \in DependentsOf(listed[k])[d] \cap request.suites
               PROVE  \E r \in reasons' : r.suite = s /\ r.distance <= d
    BY <1>1, <1>3 DEF WalksAreWhole, Told
  <2>1. WalkedFiles' = considered /\ WalkedFiles = considered - 1
    BY <1>1 DEF WalkedFiles
  <2>2. CASE k \in 1..(considered - 1)
    BY <1>1, <2>1, <2>2 DEF SelectionInv, WalksAreWhole, Told
  <2>3. CASE k = considered
    <3>1. File = listed[k] /\ File \notin cutShort
      BY <2>3 DEF File
    <3>2. d \in 0..request.depth
      OBVIOUS
    <3>3. PICK t \in reached : t.node = s /\ t.distance <= d
      BY <1>1, <3>1, <3>2, EndedWalkIsWhole DEF Met
    <3> QED
      BY <1>1, <1>5, <3>3
  <2>4. k = considered \/ k \in 1..(considered - 1)
    BY <1>2, <2>1
  <2> QED
    BY <2>2, <2>3, <2>4
<1>9. WalkAtHand'
  BY <1>1 DEF WalkAtHand
<1> QED
  BY <1>6, <1>7, <1>8, <1>9 DEF SelectionInv

(* What one expansion adds.                                                 *)
Adds(some, d) ==
  /\ some \subseteq Paths \ Reached
  /\ reached' = reached \cup {[node |-> m, distance |-> d + 1] : m \in some}
  /\ waiting' \in Seq(Paths)
  /\ \A k \in DOMAIN waiting : k # 1 => k - 1 \in DOMAIN waiting' /\ waiting'[k - 1] = waiting[k]
  /\ \A m \in some : \E k \in DOMAIN waiting' : waiting'[k] = m
  /\ \A k \in DOMAIN waiting' :
       \/ k < Len(waiting) /\ k + 1 \in DOMAIN waiting /\ waiting'[k] = waiting[k + 1]
       \/ k >= Len(waiting) /\ waiting'[k] \in some
  /\ \/ cutShort' = cutShort /\ (d < request.depth => NeededBy({waiting[1]}) \ Reached \subseteq some)
     \/ cutShort' = cutShort \cup {File}

LEMMA ExpandAdds ==
  ASSUME SelectionInv, Expand
  PROVE  \E some : \E s \in reached : s.node = waiting[1] /\ Adds(some, s.distance)
<1>1. /\ stage = "walk" /\ waiting # <<>> /\ waiting \in Seq(Paths)
      /\ request \in Selections /\ IsFiniteSet(Paths)
      /\ reached \subseteq [node : Paths, distance : Nat]
  BY SelectionsAssumption DEF SelectionsAssumption, Expand, SelectionInv, SelectionTypes
<1>2. Head(waiting) = waiting[1] /\ 1 \in DOMAIN waiting
  BY <1>1
<1>3. PICK s \in reached : s.node = waiting[1]
  BY <1>1, <1>2 DEF SelectionInv, WalkAtHand, LineIsSorted
<1>4. Distance(waiting[1]) = s.distance
  BY <1>1, <1>3 DEF SelectionInv, WalkAtHand, NodesAreOnce, Distance
<1>5. PICK some \in SUBSET Unmet(waiting[1]) :
        /\ waiting' = Tail(waiting) \o SetToSeq(some)
        /\ reached' = reached \cup {[node |-> m, distance |-> s.distance + 1] : m \in some}
        /\ cutShort' = IF some # Unmet(waiting[1]) THEN cutShort \cup {File} ELSE cutShort
  BY <1>2, <1>4 DEF Expand
<1>6. some \subseteq Paths \ Reached
  BY <1>1, RequestTypes DEF Unmet
<1>7. IsFiniteSet(some)
  BY <1>1, <1>6, FS_Subset
<1> DEFINE q == SetToSeq(some)
           p == Tail(waiting)
<1>8. q \in Seq(some) /\ (\A m \in some : \E k \in DOMAIN q : q[k] = m)
  BY <1>7, SetsAreListed
<1> HIDE DEF q
<1>9. q \in Seq(Paths) /\ \A k \in DOMAIN q : q[k] \in some
  BY <1>6, <1>8
<1>10. /\ p \in Seq(Paths) /\ Len(p) = Len(waiting) - 1 /\ Len(waiting) \in Nat
       /\ \A k \in DOMAIN p : k < Len(waiting) /\ k + 1 \in DOMAIN waiting /\ p[k] = waiting[k + 1]
       /\ \A k \in DOMAIN waiting : k # 1 => k - 1 \in DOMAIN p /\ p[k - 1] = waiting[k]
  BY <1>1
<1> HIDE DEF p
<1>11. waiting' = p \o q
  BY <1>5 DEF p, q
<1>12. /\ p \o q \in Seq(Paths)
       /\ \A k \in DOMAIN p : k \in DOMAIN (p \o q) /\ (p \o q)[k] = p[k]
       /\ \A k \in DOMAIN q : Len(p) + k \in DOMAIN (p \o q) /\ (p \o q)[Len(p) + k] = q[k]
       /\ \A k \in DOMAIN (p \o q) :
            \/ k \in DOMAIN p
            \/ k > Len(p) /\ k - Len(p) \in DOMAIN q /\ (p \o q)[k] = q[k - Len(p)]
  BY <1>9, <1>10, JoinedPlaces
<1>13. \A k \in DOMAIN waiting : k # 1 => k - 1 \in DOMAIN waiting' /\ waiting'[k - 1] = waiting[k]
  BY <1>10, <1>11, <1>12
<1>14. ASSUME NEW m \in some
       PROVE  \E k \in DOMAIN waiting' : waiting'[k] = m
  <2>1. PICK k \in DOMAIN q : q[k] = m
    BY <1>8
  <2>2. Len(p) + k \in DOMAIN (p \o q) /\ (p \o q)[Len(p) + k] = m
    BY <1>12, <2>1
  <2> QED
    BY <1>11, <2>2
<1>15. \A k \in DOMAIN (p \o q) : k \in Nat
  BY <1>12
<1>16. \A k \in DOMAIN waiting' :
         \/ k < Len(waiting) /\ k + 1 \in DOMAIN waiting /\ waiting'[k] = waiting[k + 1]
         \/ k >= Len(waiting) /\ waiting'[k] \in some
  BY <1>9, <1>10, <1>11, <1>12, <1>15
<1>17. \/ cutShort' = cutShort /\ (s.distance < request.depth => NeededBy({waiting[1]}) \ Reached \subseteq some)
       \/ cutShort' = cutShort \cup {File}
  <2>1. s.distance \in Nat /\ request.depth \in Nat
    BY <1>1, RequestTypes
  <2>2. s.distance < request.depth => Unmet(waiting[1]) = NeededBy({waiting[1]}) \ Reached
    BY <1>4, <2>1 DEF Unmet
  <2>3. CASE some = Unmet(waiting[1])
    BY <1>5, <2>2, <2>3
  <2>4. CASE some # Unmet(waiting[1])
    BY <1>5, <2>4
  <2> QED
    BY <2>3, <2>4
<1>18. Adds(some, s.distance)
  BY <1>5, <1>6, <1>11, <1>12, <1>13, <1>14, <1>16, <1>17 DEF Adds
<1> QED
  BY <1>3, <1>18

LEMMA ExpandKeeps ==
  ASSUME SelectionInv, Expand
  PROVE  SelectionInv'
<1>1. /\ stage = "walk" /\ waiting # <<>> /\ UNCHANGED <<request, stage, listed, considered, reasons>>
      /\ File' = File
  BY DEF Expand, File
<1>2. /\ waiting \in Seq(Paths) /\ request \in Selections /\ request.depth \in Nat
      /\ reached \subseteq [node : Paths, distance : Nat] /\ cutShort \subseteq Paths
      /\ File \in request.nodes \ request.suites /\ File \in Paths /\ considered > 0
      /\ MetAt(File, 0) /\ NodesAreOnce /\ LineIsSorted /\ NoneIsLeft
  BY <1>1, RequestTypes DEF SelectionInv, SelectionTypes, WalkAtHand
<1>3. PICK some : \E u \in reached : u.node = waiting[1] /\ Adds(some, u.distance)
  BY ExpandAdds
<1>4. PICK s0 \in reached : s0.node = waiting[1] /\ Adds(some, s0.distance)
  BY <1>3
<1> DEFINE d == s0.distance
           Old == reached
           New == {[node |-> m, distance |-> d + 1] : m \in some}
<1>5. /\ some \subseteq Paths \ Reached /\ reached' = Old \cup New /\ waiting' \in Seq(Paths)
      /\ \A k \in DOMAIN waiting : k # 1 => k - 1 \in DOMAIN waiting' /\ waiting'[k - 1] = waiting[k]
      /\ \A m \in some : \E k \in DOMAIN waiting' : waiting'[k] = m
      /\ \A k \in DOMAIN waiting' :
           \/ k < Len(waiting) /\ k + 1 \in DOMAIN waiting /\ waiting'[k] = waiting[k + 1]
           \/ k >= Len(waiting) /\ waiting'[k] \in some
  BY <1>4 DEF Adds
<1>6. \/ cutShort' = cutShort /\ (d < request.depth => NeededBy({waiting[1]}) \ Reached \subseteq some)
      \/ cutShort' = cutShort \cup {File}
  BY <1>4 DEF Adds
<1>7. d \in Nat /\ 1 \in DOMAIN waiting /\ \A s \in Old : s.distance \in Nat
  BY <1>1, <1>2
<1>8. /\ \A t \in New : t.node \in some /\ t.distance = d + 1
      /\ \A m \in some : \E t \in New : t.node = m /\ t.distance = d + 1
  <2>1. \A t \in New : t.node \in some /\ t.distance = d + 1
    OBVIOUS
  <2>2. \A m \in some : [node |-> m, distance |-> d + 1] \in New
    OBVIOUS
  <2>3. \A m : [node |-> m, distance |-> d + 1].node = m /\ [node |-> m, distance |-> d + 1].distance = d + 1
    OBVIOUS
  <2> HIDE DEF New
  <2> QED
    BY <2>1, <2>2, <2>3
<1>9. /\ \A q : DependentsOf(q)' = DependentsOf(q)
      /\ \A nodes : NeededBy(nodes)' = NeededBy(nodes)
      /\ Refused' = Refused /\ Asked' = Asked
  BY <1>1, RestStays
<1>10. \A s \in Old : s.node \in Reached
  BY DEF Reached
<1>11. \A s \in reached' : /\ s.node \in Reached => s \in Old
                           /\ s.node \in some => s \in New
                           /\ s.node \in Reached \/ s.node \in some
  BY <1>5, <1>8, <1>10
<1>12. \A s \in Old : s.distance <= d + 1
  BY <1>1, <1>2, <1>4 DEF LineIsSorted
<1>13. \A k \in DOMAIN waiting : waiting[k] \in Reached
  BY <1>2 DEF LineIsSorted, Reached
<1>14. SelectionTypes'
  <2>1. New \subseteq [node : Paths, distance : Nat]
    BY <1>5, <1>7
  <2>2. reached' \subseteq [node : Paths, distance : Nat]
    BY <1>2, <1>5, <2>1
  <2>3. cutShort' \subseteq Paths
    BY <1>2, <1>6
  <2> HIDE DEF New
  <2> QED
    BY <1>1, <1>5, <1>9, <2>2, <2>3 DEF SelectionInv, SelectionTypes
<1>15. SuitesStand'
  BY <1>1 DEF SelectionInv, SuitesStand
<1>16. WalksAreWhole'
  <2>1. WalkedFiles' = WalkedFiles /\ cutShort \subseteq cutShort'
    BY <1>1, <1>6 DEF WalkedFiles
  <2> QED
    BY <1>1, <1>9, <2>1 DEF SelectionInv, WalksAreWhole, Told
<1> HIDE DEF New
<1>17. MetAt(File, 0)'
  BY <1>1, <1>2, <1>5 DEF MetAt
<1>18. NodesAreOnce'
  <2> SUFFICES ASSUME NEW s \in reached', NEW t \in reached', s.node = t.node
               PROVE  s = t
    BY DEF NodesAreOnce
  <2>1. CASE s.node \in Reached
    BY <1>2, <1>11, <2>1 DEF NodesAreOnce
  <2>2. CASE s.node \in some
    BY <1>11, <2>2 DEF New
  <2> QED
    BY <1>11, <2>1, <2>2
<1>19. LineIsSorted'
  <2>1. ASSUME NEW k \in DOMAIN waiting'
        PROVE  \E s \in reached' : s.node = waiting'[k]
    <3>1. CASE k + 1 \in DOMAIN waiting /\ waiting'[k] = waiting[k + 1]
      BY <1>2, <1>5, <3>1 DEF LineIsSorted
    <3>2. CASE waiting'[k] \in some
      BY <1>5, <1>8, <3>2
    <3> QED
      BY <1>5, <3>1, <3>2
  <2>2. ASSUME NEW j \in DOMAIN waiting', NEW k \in DOMAIN waiting', NEW s \in reached', NEW t \in reached',
               j < k, s.node = waiting'[j], t.node = waiting'[k]
        PROVE  s.distance <= t.distance
    <3>0. j \in Nat /\ k \in Nat /\ Len(waiting) \in Nat
      BY <1>2, <1>5
    <3>1. CASE k < Len(waiting) /\ k + 1 \in DOMAIN waiting /\ waiting'[k] = waiting[k + 1]
      <4>1. j + 1 \in DOMAIN waiting /\ waiting'[j] = waiting[j + 1] /\ j + 1 < k + 1
        BY <1>5, <2>2, <3>0, <3>1
      <4>2. s \in Old /\ t \in Old
        BY <1>11, <1>13, <2>2, <3>1, <4>1
      <4> QED
        BY <1>2, <2>2, <3>1, <4>1, <4>2 DEF LineIsSorted
    <3>2. CASE waiting'[k] \in some
      <4>1. t.distance = d + 1
        BY <1>8, <1>11, <2>2, <3>2
      <4>2. s \in Old \/ s.distance = d + 1
        BY <1>5, <1>8
      <4> QED
        BY <1>7, <1>12, <4>1, <4>2
    <3> QED
      BY <1>5, <3>1, <3>2
  <2>3. ASSUME NEW s \in reached', NEW t \in reached', waiting' # <<>>, t.node = waiting'[1]
        PROVE  s.distance <= t.distance + 1
    <3>1. s.distance \in Nat /\ s.distance <= d + 1
      <4>1. s \in Old \/ s.distance = d + 1
        BY <1>5, <1>8
      <4> QED
        BY <1>7, <1>12, <4>1
    <3>2. 1 \in DOMAIN waiting'
      BY <1>5, <2>3
    <3>3. t.distance \in Nat /\ d <= t.distance
      <4>1. CASE 1 + 1 \in DOMAIN waiting /\ waiting'[1] = waiting[1 + 1]
        <5>1. t \in Old
          BY <1>11, <1>13, <2>3, <4>1
        <5>2. 1 < 1 + 1
          OBVIOUS
        <5> QED
          BY <1>2, <1>4, <1>7, <2>3, <4>1, <5>1, <5>2 DEF LineIsSorted
      <4>2. CASE waiting'[1] \in some
        BY <1>7, <1>8, <1>11, <2>3, <4>2
      <4> QED
        BY <1>5, <3>2, <4>1, <4>2
    <3> QED
      BY <1>7, <3>1, <3>3
  <2> QED
    BY <2>1, <2>2, <2>3 DEF LineIsSorted
<1>20. NoneIsLeft'
  <2> SUFFICES ASSUME File \notin cutShort', NEW s \in reached', OutOfLine(s)', s.distance < request.depth,
                      NEW m \in NeededBy({s.node})
               PROVE  Met(m, s.distance + 1)'
    <3>1. NoneIsLeft' = (File \notin cutShort' => \A s \in reached' : OutOfLine(s)' /\ s.distance < request.depth =>
                           \A m \in NeededBy({s.node}) : Met(m, s.distance + 1)')
      BY <1>1, <1>9 DEF NoneIsLeft, OutOfLine, Met
    <3> QED
      BY <3>1
  <2>1. /\ File \notin cutShort
        /\ d < request.depth => NeededBy({waiting[1]}) \ Reached \subseteq some
    BY <1>6
  <2>2. \A k \in DOMAIN waiting' : waiting'[k] # s.node
    BY DEF OutOfLine
  <2>3. s \in Old
    <3>1. s.node \notin some
      BY <1>5, <2>2
    <3> QED
      BY <1>11, <3>1
  <2>4. CASE OutOfLine(s)
    <3>1. Met(m, s.distance + 1)
      BY <1>2, <2>1, <2>3, <2>4 DEF NoneIsLeft
    <3> QED
      BY <1>5, <3>1 DEF Met
  <2>5. CASE ~OutOfLine(s)
    <3>1. PICK k \in DOMAIN waiting : waiting[k] = s.node
      BY <2>5 DEF OutOfLine
    <3>2. k = 1
      BY <1>5, <2>2, <3>1
    <3>3. s = s0
      BY <1>2, <1>4, <2>3, <3>1, <3>2 DEF NodesAreOnce
    <3>4. CASE m \in Reached
      <4>1. PICK t \in Old : t.node = m
        BY <3>4 DEF Reached
      <4> QED
        BY <1>5, <1>12, <3>3, <4>1 DEF Met
    <3>5. CASE m \in some
      <4>1. PICK t \in New : t.node = m /\ t.distance = d + 1
        BY <1>8, <3>5
      <4> QED
        BY <1>5, <1>7, <3>3, <4>1 DEF Met
    <3> QED
      BY <2>1, <3>1, <3>2, <3>3, <3>4, <3>5
  <2> QED
    BY <2>4, <2>5
<1>21. WalkAtHand'
  BY <1>1, <1>2, <1>17, <1>18, <1>19, <1>20 DEF WalkAtHand
<1> QED
  BY <1>14, <1>15, <1>16, <1>21 DEF SelectionInv

LEMMA SelectionGoesOn == SelectionInv /\ [SelectionNext]_selectionVars => SelectionInv'
<1> SUFFICES ASSUME SelectionInv, [SelectionNext]_selectionVars
             PROVE  SelectionInv'
  OBVIOUS
<1>1. CASE NextFile
  BY <1>1, FileKeeps
<1>2. CASE Expand
  BY <1>2, ExpandKeeps
<1>3. CASE EndWalk
  BY <1>3, EndWalkKeeps
<1>4. CASE Finish
  BY <1>4, FinishKeeps
<1>5. CASE UNCHANGED selectionVars
  <2>1. UNCHANGED <<request, stage, listed, considered, waiting, reached, cutShort, reasons>>
    BY <1>5 DEF selectionVars
  <2>2. /\ \A f : DependentsOf(f)' = DependentsOf(f)
        /\ \A nodes : NeededBy(nodes)' = NeededBy(nodes)
        /\ Refused' = Refused /\ Asked' = Asked
    BY <2>1, RestStays
  <2>3. SelectionTypes' /\ SuitesStand'
    BY <2>1, <2>2 DEF SelectionInv, SelectionTypes, SuitesStand
  <2>4. WalksAreWhole'
    <3>1. WalkedFiles' = WalkedFiles
      BY <2>1 DEF WalkedFiles
    <3> QED
      BY <2>1, <2>2, <3>1 DEF SelectionInv, WalksAreWhole, Told
  <2>5. MetAt(File, 0)' = MetAt(File, 0) /\ NodesAreOnce' = NodesAreOnce /\ LineIsSorted' = LineIsSorted
    BY <2>1 DEF MetAt, File, NodesAreOnce, LineIsSorted
  <2>6. NoneIsLeft' = NoneIsLeft
    BY <2>1, <2>2 DEF NoneIsLeft, OutOfLine, Met, File
  <2>7. WalkAtHand'
    BY <2>1, <2>5, <2>6 DEF SelectionInv, WalkAtHand, File
  <2> QED
    BY <2>3, <2>4, <2>7 DEF SelectionInv
<1> QED
  BY <1>1, <1>2, <1>3, <1>4, <1>5 DEF SelectionNext

(* The distance of a suite is the smallest of its reasons'.                 *)
LEMMA BestTells ==
  ASSUME SelectionInv, NEW r \in reasons
  PROVE  /\ r.suite \in Selected /\ Best(r.suite) \in Nat /\ Best(r.suite) <= r.distance
         /\ \E q \in reasons : q.suite = r.suite /\ Best(r.suite) = q.distance
<1> DEFINE D == {q.distance : q \in {t \in reasons : t.suite = r.suite}}
<1>1. \A q \in reasons : q.distance \in Nat
  BY DEF SelectionInv, SelectionTypes
<1>2. D \subseteq Nat /\ r.distance \in D
  BY <1>1
<1>3. PICK least \in D : \A m \in D : least <= m
  <2> HIDE DEF D
  <2> QED
    BY <1>2, SmallestOfNumbers
<1>4. Best(r.suite) = CHOOSE x \in D : \A y \in D : x =< y
  BY DEF Best, Min
<1>5. Best(r.suite) \in D /\ \A y \in D : Best(r.suite) =< y
  <2> HIDE DEF D
  <2> QED
    BY <1>3, <1>4
<1>6. \A x \in D : \E q \in reasons : q.suite = r.suite /\ x = q.distance
  OBVIOUS
<1> HIDE DEF D
<1>7. r.suite \in Selected
  BY DEF Selected
<1> QED
  BY <1>2, <1>5, <1>6, <1>7

LEMMA SelectionIsWhole == SelectionInv => NoSuiteIsMissed
<1> SUFFICES ASSUME SelectionInv, stage = "done"
             PROVE  NoSuiteIsMissed
  BY DEF NoSuiteIsMissed
<1>1. /\ request \in Selections /\ listed \in Seq(Paths) /\ considered = Len(listed)
      /\ ~Refused /\ listed = Asked /\ WalkedFiles = Len(listed)
      /\ \A r \in reasons : r.suite \in Paths /\ r.distance \in Nat
  BY DEF SelectionInv, SelectionTypes, WalkedFiles
<1>2. request.depth \in Nat /\ request.shown \in Nat
  BY <1>1, RequestTypes
<1>3. \A f \in Range(listed) : \E k \in 1..Len(listed) : f = listed[k]
  BY <1>1 DEF Range
<1>4. Explicit = NoFile /\ request.head = NoFile /\ request.scanned \subseteq DOMAIN request.disk =>
        \A f \in DOMAIN request.base \cap Differing(request.base, request.disk) : f \in Range(listed)
  BY <1>1, AskedTells
<1>5. ASSUME NEW f \in (Range(listed) \ request.suites) \ cutShort, f \in request.nodes,
             NEW k \in 1..request.depth, NEW s \in DependentsOf(f)[k] \cap request.suites
      PROVE  s \in Selected /\ Best(s) <= k
  <2>1. PICK j \in 1..Len(listed) : f = listed[j]
    BY <1>3
  <2>2. Told(s, k)
    BY <1>1, <1>5, <2>1 DEF SelectionInv, WalksAreWhole
  <2>3. PICK r \in reasons : r.suite = s /\ r.distance <= k
    BY <2>2 DEF Told
  <2>4. s \in Selected /\ Best(s) \in Nat /\ Best(s) <= r.distance
    BY <2>3, BestTells
  <2>5. r.distance \in Nat /\ k \in Nat
    BY <1>1
  <2> QED
    BY <2>3, <2>4, <2>5
<1>6. ASSUME NEW f \in Range(listed) \cap request.suites
      PROVE  f \in Shown \/ Cardinality(Shown) >= request.shown
  <2>1. PICK j \in 1..Len(listed) : f = listed[j]
    BY <1>3
  <2>2. PICK r \in reasons : r.suite = f /\ r.distance = 0
    BY <1>1, <2>1 DEF SelectionInv, SuitesStand
  <2>3. f \in Selected /\ Best(f) \in Nat /\ Best(f) <= 0
    BY <2>2, BestTells
  <2>4. ASSUME NEW t \in Selected
        PROVE  Best(t) \in Nat
    <3>1. PICK q \in reasons : q.suite = t
      BY DEF Selected
    <3> QED
      BY <3>1, BestTells
  <2>5. {t \in Selected : Best(t) < Best(f)} = {}
    BY <2>3, <2>4
  <2>6. Cardinality({t \in Selected : Best(t) < Best(f)}) = 0
    BY <2>5, FS_EmptySet
  <2>7. Selected \subseteq Paths
    BY <1>1 DEF Selected
  <2>8. Cardinality(Shown) \in Nat
    <3>1. Shown \subseteq Paths /\ IsFiniteSet(Paths)
      BY <2>7, SelectionsAssumption DEF Shown, SelectionsAssumption
    <3> QED
      BY <3>1, FS_Subset, FS_CardinalityType
  <2>9. CASE request.shown = 0
    BY <2>8, <2>9
  <2>10. CASE request.shown > 0
    BY <2>3, <2>6, <2>10 DEF Shown
  <2> QED
    BY <1>2, <2>9, <2>10
<1> QED
  BY <1>4, <1>5, <1>6 DEF NoSuiteIsMissed

(* For every repository, change and graph: no tracked file that differs is  *)
(* left out, and no suite that depends on a changed file within the depth,  *)
(* unless that walk was cut (select_tests.rs, revision.rs).                 *)
THEOREM SuitesAreSelected == SelectionSpec => []NoSuiteIsMissed
<1>1. SelectionSpec => []SelectionInv
  BY SelectionStarts, SelectionGoesOn, PTL DEF SelectionSpec
<1> QED
  BY <1>1, SelectionIsWhole, PTL

-----------------------------------------------------------------------------
(* git_history and graph_diff: tallies of commits, the roll-up of edges.    *)

(* Of each key, in how many of the first n sets it is.                      *)
IsTally(counts, sets, n) ==
  /\ DOMAIN counts = UNION {sets[k] : k \in 1..n} /\ IsFiniteSet(DOMAIN counts)
  /\ \A x \in DOMAIN counts : counts[x] = Cardinality({k \in 1..n : x \in sets[k]})

LEMMA TallyGrows ==
  ASSUME NEW n \in Nat, NEW sets, NEW counts, IsTally(counts, sets, n), IsFiniteSet(sets[n + 1])
  PROVE  IsTally(Tallied(counts, sets[n + 1]), sets, n + 1)
<1> DEFINE new == Tallied(counts, sets[n + 1])
           In(x, m) == {k \in 1..m : x \in sets[k]}
<1>1. DOMAIN new = DOMAIN counts \cup sets[n + 1]
  BY DEF Tallied
<1>2. 1..(n + 1) = (1..n) \cup {n + 1} /\ n + 1 \notin 1..n
  OBVIOUS
<1>3. DOMAIN new = UNION {sets[k] : k \in 1..(n + 1)}
  BY <1>1, <1>2 DEF IsTally
<1>4. ASSUME NEW x \in DOMAIN new
      PROVE  new[x] = Cardinality(In(x, n + 1))
  <2>1. IsFiniteSet(1..n) /\ In(x, n) \subseteq 1..n
    <3>1. 1 \in Int /\ n \in Int
      OBVIOUS
    <3>2. IsFiniteSet(1..n)
      BY <3>1, FS_Interval
    <3> QED  BY <3>2
  <2>2. IsFiniteSet(In(x, n)) /\ Cardinality(In(x, n)) \in Nat /\ n + 1 \notin In(x, n)
    BY <2>1, <1>2, FS_Subset, FS_CardinalityType
  <2>3. (IF x \in DOMAIN counts THEN counts[x] ELSE 0) = Cardinality(In(x, n))
    <3>1. CASE x \in DOMAIN counts
      BY <3>1 DEF IsTally
    <3>2. CASE x \notin DOMAIN counts
      <4>1. In(x, n) = {}
        BY <3>2 DEF IsTally
      <4>2. Cardinality(In(x, n)) = 0
        BY <4>1, FS_EmptySet
      <4> QED  BY <3>2, <4>2
    <3> QED  BY <3>1, <3>2
  <2>4. new[x] = (IF x \in DOMAIN counts THEN counts[x] ELSE 0) + (IF x \in sets[n + 1] THEN 1 ELSE 0)
    BY <1>1 DEF Tallied
  <2>5. CASE x \in sets[n + 1]
    <3>1. In(x, n + 1) = In(x, n) \cup {n + 1}
      BY <2>5, <1>2
    <3>2. Cardinality(In(x, n + 1)) = Cardinality(In(x, n)) + 1
      BY <3>1, <2>2, FS_AddElement
    <3> QED  BY <3>2, <2>3, <2>4, <2>5
  <2>6. CASE x \notin sets[n + 1]
    <3>1. In(x, n + 1) = In(x, n)
      BY <2>6, <1>2
    <3>2. new[x] = Cardinality(In(x, n)) + 0
      BY <2>3, <2>4, <2>6
    <3> HIDE DEF In, new
    <3> QED  BY <3>1, <3>2, <2>2
  <2> QED  BY <2>5, <2>6
<1>5. IsFiniteSet(DOMAIN new)
  <2>1. IsFiniteSet(DOMAIN counts)
    BY DEF IsTally
  <2>2. IsFiniteSet(DOMAIN counts \cup sets[n + 1])
    BY <2>1, FS_Union
  <2> QED  BY <1>1, <2>2
<1> QED  BY <1>3, <1>4, <1>5 DEF IsTally

(* The tokens of entries that count.                                        *)
TokensOf(F) == UNION {{k} \X (1..F[k]) : k \in DOMAIN F}

LEMMA TokensGrow ==
  ASSUME NEW D, NEW F \in [D -> Nat], NEW key, NEW G \in [D \cup {key} -> Nat], NEW w \in {0, 1},
         IsFiniteSet(TokensOf(F)), \A k \in D \ {key} : G[k] = F[k],
         G[key] = (IF key \in D THEN F[key] ELSE 0) + w
  PROVE  IsFiniteSet(TokensOf(G)) /\ Cardinality(TokensOf(G)) = Cardinality(TokensOf(F)) + w
<1>1. \A k, i : <<k, i>> \in TokensOf(F) <=> k \in D /\ i \in 1..F[k]
  BY DEF TokensOf
<1>2. \A k, i : <<k, i>> \in TokensOf(G) <=> k \in D \cup {key} /\ i \in 1..G[k]
  BY DEF TokensOf
<1>3. /\ \A t \in TokensOf(F) : t = <<t[1], t[2]>>
      /\ \A t \in TokensOf(G) : t = <<t[1], t[2]>>
  BY DEF TokensOf
<1>4. CASE w = 0
  <2>1. \A k, i : <<k, i>> \in TokensOf(F) <=> <<k, i>> \in TokensOf(G)
    <3> SUFFICES ASSUME NEW k, NEW i
                 PROVE  <<k, i>> \in TokensOf(F) <=> <<k, i>> \in TokensOf(G)
      OBVIOUS
    <3>1. CASE k # key
      BY <3>1, <1>1, <1>2
    <3>2. CASE k = key /\ key \in D
      <4>1. G[key] = F[key]
        BY <3>2, <1>4
      <4> QED  BY <4>1, <3>2, <1>1, <1>2
    <3>3. CASE k = key /\ key \notin D
      <4>1. G[key] = 0
        BY <3>3, <1>4
      <4> QED  BY <4>1, <3>3, <1>1, <1>2
    <3> QED  BY <3>1, <3>2, <3>3
  <2>2. ASSUME NEW t
        PROVE  t \in TokensOf(F) <=> t \in TokensOf(G)
    <3>1. t \in TokensOf(F) => t \in TokensOf(G)
      BY <2>1, <1>3
    <3>2. t \in TokensOf(G) => t \in TokensOf(F)
      BY <2>1, <1>3
    <3> QED  BY <3>1, <3>2
  <2>3. TokensOf(G) = TokensOf(F)
    BY <2>2
  <2>4. Cardinality(TokensOf(F)) \in Nat
    BY FS_CardinalityType
  <2> QED  BY <2>3, <2>4, <1>4
<1>5. CASE w = 1
  <2> DEFINE last == <<key, G[key]>>
  <2>1. last \notin TokensOf(F)
    BY <1>1, <1>5
  <2>2. \A k, i : <<k, i>> \in TokensOf(G) <=> <<k, i>> \in TokensOf(F) \/ <<k, i>> = last
    <3> SUFFICES ASSUME NEW k, NEW i
                 PROVE  <<k, i>> \in TokensOf(G) <=> <<k, i>> \in TokensOf(F) \/ <<k, i>> = last
      OBVIOUS
    <3>1. CASE k # key
      BY <3>1, <1>1, <1>2
    <3>2. CASE k = key /\ key \in D
      BY <3>2, <1>1, <1>2, <1>5
    <3>3. CASE k = key /\ key \notin D
      BY <3>3, <1>1, <1>2, <1>5
    <3> QED  BY <3>1, <3>2, <3>3
  <2>3. TokensOf(G) = TokensOf(F) \cup {last}
    BY <2>2, <1>3
  <2> HIDE DEF last
  <2>4. /\ IsFiniteSet(TokensOf(F) \cup {last})
        /\ Cardinality(TokensOf(F) \cup {last}) = Cardinality(TokensOf(F)) + 1
    BY <2>1, FS_AddElement
  <2> QED  BY <2>3, <2>4, <1>5
<1> QED  BY <1>4, <1>5

LEMMA NoTokens ==
  ASSUME NEW F, DOMAIN F = {}
  PROVE  TokensOf(F) = {}
BY DEF TokensOf

-----------------------------------------------------------------------------
PathsRead == [k \in DOMAIN history.commits |-> ChangedPaths(history.commits[k])]
PairsRead == [k \in DOMAIN history.commits |-> PairsOf(history.commits[k])]

AddedCounts == [k \in DOMAIN rolled |-> rolled[k].added]
RemovedCounts == [k \in DOMAIN rolled |-> rolled[k].removed]

(* The entries of one side have as many tokens as edges of it were rolled up. *)
CountsEdges(counts, edges) ==
  /\ IsFiniteSet(TokensOf(counts)) /\ Cardinality(TokensOf(counts)) = Cardinality(compared \cap edges)

CommitsAreTallied ==
  /\ walked \in 0..Len(history.commits)
  /\ IsTally(frequency, PathsRead, walked) /\ IsTally(coupling, PairsRead, walked)
  /\ part \in {"diff", "done"} /\ history.analytics => walked = Len(history.commits)

(* The edges of one side that are rolled up to an entry.                    *)
Under(k, edges) == {e \in edges : FilePair(e) = k}

(* An entry counts those of them that were rolled up.                       *)
EntriesCount ==
  \A k \in DOMAIN rolled :
    /\ rolled[k].added = Cardinality(compared \cap Under(k, AddedEdges))
    /\ rolled[k].removed = Cardinality(compared \cap Under(k, RemovedEdges))

EdgesAreRolled ==
  /\ compared \subseteq AddedEdges \cup RemovedEdges
  /\ \A k \in DOMAIN rolled : rolled[k] \in [added : Nat, removed : Nat]
  /\ \A e \in compared : FilePair(e) \in DOMAIN rolled
  /\ EntriesCount
  /\ CountsEdges(AddedCounts, AddedEdges) /\ CountsEdges(RemovedCounts, RemovedEdges)
  /\ part = "done" => Uncompared = {}

HistoryInv == history \in Histories /\ CommitsAreTallied /\ EdgesAreRolled

LEMMA EdgesAreFinite ==
  ASSUME history \in Histories
  PROVE  /\ IsFiniteSet(AddedEdges) /\ IsFiniteSet(RemovedEdges)
         /\ IsFiniteSet(history.target.edges) /\ IsFiniteSet(history.baseline.edges)
         /\ AddedEdges \cap RemovedEdges = {}
<1>1. IsFiniteSet(history.target.edges) /\ IsFiniteSet(history.baseline.edges)
  BY HistoriesAssumption DEF HistoriesAssumption, IsRevision
<1>2. /\ AddedEdges \subseteq history.target.edges /\ RemovedEdges \subseteq history.baseline.edges
      /\ AddedEdges \cap RemovedEdges = {}
  BY DEF AddedEdges, RemovedEdges
<1> QED  BY <1>1, <1>2, FS_Subset

LEMMA HistoryStarts == HistoryInit => HistoryInv
<1> SUFFICES ASSUME HistoryInit
             PROVE  HistoryInv
  OBVIOUS
<1> USE DEF HistoryInit
<1>1. history.commits \in Seq([root : BOOLEAN, paths : SUBSET Nat]) /\ Len(history.commits) \in Nat
  BY HistoriesAssumption DEF HistoriesAssumption
<1>2. ASSUME NEW sets
      PROVE  IsTally(<<>>, sets, 0)
  BY FS_EmptySet DEF IsTally
<1>3. CommitsAreTallied
  BY <1>1, <1>2 DEF CommitsAreTallied
<1>4. DOMAIN AddedCounts = {} /\ DOMAIN RemovedCounts = {}
  BY DEF AddedCounts, RemovedCounts
<1>5. TokensOf(AddedCounts) = {} /\ TokensOf(RemovedCounts) = {}
  BY <1>4, NoTokens
<1>6. CountsEdges(AddedCounts, AddedEdges) /\ CountsEdges(RemovedCounts, RemovedEdges)
  <2>1. compared \cap AddedEdges = {} /\ compared \cap RemovedEdges = {}
    OBVIOUS
  <2> QED  BY <2>1, <1>5, FS_EmptySet DEF CountsEdges
<1>7. part # "done"
  OBVIOUS
<1>8. EdgesAreRolled
  BY <1>6, <1>7 DEF EdgesAreRolled, EntriesCount
<1> QED  BY <1>3, <1>8 DEF HistoryInv

LEMMA RollStays ==
  ASSUME HistoryInv, UNCHANGED <<history, rolled, compared>>, part' = "done" => part = "done" \/ Uncompared = {}
  PROVE  EdgesAreRolled'
<1>1. UNCHANGED <<AddedEdges, RemovedEdges, Uncompared, AddedCounts, RemovedCounts>>
  BY DEF AddedEdges, RemovedEdges, Uncompared, AddedCounts, RemovedCounts
<1>2. \A e : FilePair(e)' = FilePair(e)
  BY DEF FilePair, OwningFile, NodeIds, NodeOf, RemovedNodes
<1>3. UNCHANGED <<CountsEdges(AddedCounts, AddedEdges), CountsEdges(RemovedCounts, RemovedEdges)>>
  BY <1>1 DEF CountsEdges
<1>4. EntriesCount'
  <2>1. \A k : Under(k, AddedEdges)' = Under(k, AddedEdges) /\ Under(k, RemovedEdges)' = Under(k, RemovedEdges)
    BY <1>1, <1>2 DEF Under
  <2> QED  BY <2>1 DEF HistoryInv, EdgesAreRolled, EntriesCount
<1> QED  BY <1>1, <1>2, <1>3, <1>4 DEF HistoryInv, EdgesAreRolled

LEMMA ReadSetsAreFinite ==
  ASSUME history \in Histories, NEW k \in DOMAIN history.commits
  PROVE  /\ PathsRead[k] \subseteq Nat /\ IsFiniteSet(PathsRead[k]) /\ IsFiniteSet(PairsRead[k])
         /\ \A pair \in PairsRead[k] : pair = <<pair[1], pair[2]>> /\ pair[1] \in Nat /\ pair[2] \in Nat
<1> DEFINE paths == ChangedPaths(history.commits[k])
<1>1. history.commits[k] \in [root : BOOLEAN, paths : SUBSET Nat] /\ IsFiniteSet(history.commits[k].paths)
  <2>1. ASSUME NEW S, NEW q \in Seq(S), NEW j \in DOMAIN q
        PROVE  q[j] \in S
    OBVIOUS
  <2>2. history.commits \in Seq([root : BOOLEAN, paths : SUBSET Nat])
    BY HistoriesAssumption DEF HistoriesAssumption
  <2>3. history.commits[k] \in [root : BOOLEAN, paths : SUBSET Nat]
    BY <2>1, <2>2
  <2> QED  BY <2>3, HistoriesAssumption DEF HistoriesAssumption
<1>2. paths \subseteq Nat /\ IsFiniteSet(paths)
  BY <1>1, FS_EmptySet DEF ChangedPaths
<1>3. Paired(paths) \subseteq paths /\ IsFiniteSet(Paired(paths))
  <2>1. Paired(paths) \subseteq paths
    BY DEF Paired
  <2> QED  BY <1>2, <2>1, FS_Subset
<1>4. IsFiniteSet(Paired(paths) \X Paired(paths))
  BY <1>3, FS_Product
<1>5. PairsRead[k] \subseteq Paired(paths) \X Paired(paths) /\ PathsRead[k] = paths
  BY DEF PairsRead, PairsOf, PathsRead
<1>6. IsFiniteSet(PairsRead[k])
  BY <1>4, <1>5, FS_Subset
<1> QED  BY <1>2, <1>3, <1>5, <1>6

LEMMA ReadingTallies == HistoryInv /\ ReadCommit => HistoryInv'
<1> SUFFICES ASSUME HistoryInv, ReadCommit
             PROVE  HistoryInv'
  OBVIOUS
<1> USE DEF ReadCommit
<1>1. history.commits \in Seq([root : BOOLEAN, paths : SUBSET Nat]) /\ Len(history.commits) \in Nat
  BY HistoriesAssumption DEF HistoriesAssumption, HistoryInv
<1>2. walked \in Nat /\ walked + 1 \in DOMAIN history.commits /\ walked + 1 \in 0..Len(history.commits)
  BY <1>1 DEF HistoryInv, CommitsAreTallied
<1>3. /\ PathsRead[walked + 1] = ChangedPaths(history.commits[walked + 1])
      /\ PairsRead[walked + 1] = PairsOf(history.commits[walked + 1])
  BY <1>2 DEF PathsRead, PairsRead
<1>4. IsTally(Tallied(frequency, PathsRead[walked + 1]), PathsRead, walked + 1)
  BY <1>2, TallyGrows, ReadSetsAreFinite DEF HistoryInv, CommitsAreTallied
<1>5. IsTally(Tallied(coupling, PairsRead[walked + 1]), PairsRead, walked + 1)
  BY <1>2, TallyGrows, ReadSetsAreFinite DEF HistoryInv, CommitsAreTallied
<1>6. PathsRead' = PathsRead /\ PairsRead' = PairsRead
  BY DEF PathsRead, PairsRead, ChangedPaths, PairsOf, Paired
<1>7. CommitsAreTallied'
  <2>1. IsTally(frequency', PathsRead', walked')
    BY <1>3, <1>4, <1>6
  <2>2. IsTally(coupling', PairsRead', walked')
    BY <1>3, <1>5, <1>6
  <2>3. walked' \in 0..Len(history'.commits) /\ part' \notin {"diff", "done"}
    BY <1>2
  <2> QED  BY <2>1, <2>2, <2>3 DEF CommitsAreTallied, IsTally
<1>8. EdgesAreRolled'
  BY RollStays
<1> QED  BY <1>7, <1>8 DEF HistoryInv

LEMMA PartsEnd == HistoryInv /\ (EndCommits \/ EndDiff \/ UNCHANGED historyVars) => HistoryInv'
<1> SUFFICES ASSUME HistoryInv, EndCommits \/ EndDiff \/ UNCHANGED historyVars
             PROVE  HistoryInv'
  OBVIOUS
<1>1. UNCHANGED <<history, walked, frequency, coupling, rolled, compared>>
  BY DEF EndCommits, EndDiff, historyVars
<1>2. /\ part' \in {"diff", "done"} /\ history.analytics =>
           part \in {"diff", "done"} \/ walked = Len(history.commits)
      /\ part' = "done" => part = "done" \/ Uncompared = {}
  BY DEF EndCommits, EndDiff, historyVars
<1>3. PathsRead' = PathsRead /\ PairsRead' = PairsRead
  BY <1>1 DEF PathsRead, PairsRead, ChangedPaths, PairsOf, Paired
<1>4. CommitsAreTallied'
  BY <1>1, <1>2, <1>3 DEF HistoryInv, CommitsAreTallied, IsTally
<1>5. EdgesAreRolled'
  BY <1>1, <1>2, RollStays
<1> QED  BY <1>1, <1>4, <1>5 DEF HistoryInv

LEMMA SideGrows ==
  ASSUME NEW edges, IsFiniteSet(edges), NEW done, NEW edge, edge \notin done
  PROVE  Cardinality((done \cup {edge}) \cap edges) = Cardinality(done \cap edges) + Weight(edge, edges)
<1>1. IsFiniteSet(done \cap edges) /\ Cardinality(done \cap edges) \in Nat
  BY FS_Subset, FS_CardinalityType
<1>2. CASE edge \in edges
  <2>1. (done \cup {edge}) \cap edges = (done \cap edges) \cup {edge} /\ edge \notin done \cap edges
    BY <1>2
  <2>2. Cardinality((done \cap edges) \cup {edge}) = Cardinality(done \cap edges) + 1
    BY <1>1, <2>1, FS_AddElement
  <2>3. Weight(edge, edges) = 1
    BY <1>2 DEF Weight
  <2> QED  BY <2>1, <2>2, <2>3
<1>3. CASE edge \notin edges
  <2>1. (done \cup {edge}) \cap edges = done \cap edges
    BY <1>3
  <2>2. Weight(edge, edges) = 0
    BY <1>3 DEF Weight
  <2>3. Cardinality((done \cup {edge}) \cap edges) = Cardinality(done \cap edges)
    BY <2>1, Zenon
  <2> QED  BY <1>1, <2>2, <2>3
<1> QED  BY <1>2, <1>3

LEMMA RollingCounts == HistoryInv /\ Roll => HistoryInv'
<1> SUFFICES ASSUME HistoryInv, Roll
             PROVE  HistoryInv'
  OBVIOUS
<1> DEFINE edge == NextEdge
           pair == FilePair(edge)
           old == IF pair \in DOMAIN rolled THEN rolled[pair] ELSE [added |-> 0, removed |-> 0]
           more == Weight(edge, AddedEdges)
           less == Weight(edge, RemovedEdges)
           new == [added |-> old.added + more, removed |-> old.removed + less]
<1>1. /\ UNCHANGED <<history, part, walked, frequency, coupling>> /\ compared' = compared \cup {edge}
      /\ rolled' = [k \in DOMAIN rolled \cup {pair} |-> IF k = pair THEN new ELSE rolled[k]]
      /\ part = "diff"
  BY DEF Roll
<1>2. edge \in Uncompared
  <2>1. PICK e \in Uncompared : Uncompared \cap AddedEdges # {} => e \in AddedEdges
    BY DEF Roll
  <2> QED  BY <2>1 DEF NextEdge
<1>3. edge \in AddedEdges \cup RemovedEdges /\ edge \notin compared
  BY <1>2 DEF Uncompared
<1>4. UNCHANGED <<PathsRead, PairsRead, AddedEdges, RemovedEdges>>
  BY <1>1 DEF PathsRead, PairsRead, ChangedPaths, PairsOf, Paired, AddedEdges, RemovedEdges
<1>5. \A e : FilePair(e)' = FilePair(e)
  BY <1>1 DEF FilePair, OwningFile, NodeIds, NodeOf, RemovedNodes
<1>6. CommitsAreTallied'
  BY <1>1, <1>4 DEF HistoryInv, CommitsAreTallied, IsTally
<1>7. old \in [added : Nat, removed : Nat] /\ more \in {0, 1} /\ less \in {0, 1}
  BY DEF HistoryInv, EdgesAreRolled, Weight
<1>8. new \in [added : Nat, removed : Nat] /\ new.added = old.added + more /\ new.removed = old.removed + less
  BY <1>7
<1>9. /\ \A k \in DOMAIN rolled' : rolled'[k] \in [added : Nat, removed : Nat]
      /\ \A e \in compared' : FilePair(e) \in DOMAIN rolled'
  BY <1>1, <1>8 DEF HistoryInv, EdgesAreRolled
<1>12. IsFiniteSet(AddedEdges) /\ IsFiniteSet(RemovedEdges)
  BY EdgesAreFinite DEF HistoryInv
<1>10. CountsEdges(AddedCounts, AddedEdges)'
  <2> DEFINE grown == [k \in DOMAIN rolled \cup {pair} |-> rolled'[k].added]
  <2>1. AddedCounts' = grown
    BY <1>1 DEF AddedCounts
  <2>2. AddedCounts \in [DOMAIN rolled -> Nat] /\ grown \in [DOMAIN rolled \cup {pair} -> Nat]
    BY <1>1, <1>9 DEF HistoryInv, EdgesAreRolled, AddedCounts
  <2>3. \A k \in DOMAIN rolled \ {pair} : grown[k] = AddedCounts[k]
    BY <1>1 DEF AddedCounts
  <2>4. grown[pair] = (IF pair \in DOMAIN rolled THEN AddedCounts[pair] ELSE 0) + more
    <3>1. grown[pair] = old.added + more
      BY <1>1, <1>8
    <3>2. old.added = IF pair \in DOMAIN rolled THEN AddedCounts[pair] ELSE 0
      BY DEF AddedCounts
    <3> QED  BY <3>1, <3>2
  <2>5. IsFiniteSet(TokensOf(AddedCounts)) /\ Cardinality(TokensOf(AddedCounts)) = Cardinality(compared \cap AddedEdges)
    BY DEF HistoryInv, EdgesAreRolled, CountsEdges
  <2>6. IsFiniteSet(TokensOf(grown)) /\ Cardinality(TokensOf(grown)) = Cardinality(TokensOf(AddedCounts)) + more
    <3> HIDE DEF grown, edge, pair, old, new, more
    <3> QED  BY <1>7, <2>2, <2>3, <2>4, <2>5, TokensGrow
  <2>7. Cardinality(compared' \cap AddedEdges) = Cardinality(compared \cap AddedEdges) + more
    BY <1>1, <1>3, <1>12, SideGrows
  <2> QED  BY <1>4, <2>1, <2>5, <2>6, <2>7 DEF CountsEdges
<1>11. CountsEdges(RemovedCounts, RemovedEdges)'
  <2> DEFINE grown == [k \in DOMAIN rolled \cup {pair} |-> rolled'[k].removed]
  <2>1. RemovedCounts' = grown
    BY <1>1 DEF RemovedCounts
  <2>2. RemovedCounts \in [DOMAIN rolled -> Nat] /\ grown \in [DOMAIN rolled \cup {pair} -> Nat]
    BY <1>1, <1>9 DEF HistoryInv, EdgesAreRolled, RemovedCounts
  <2>3. \A k \in DOMAIN rolled \ {pair} : grown[k] = RemovedCounts[k]
    BY <1>1 DEF RemovedCounts
  <2>4. grown[pair] = (IF pair \in DOMAIN rolled THEN RemovedCounts[pair] ELSE 0) + less
    <3>1. grown[pair] = old.removed + less
      BY <1>1, <1>8
    <3>2. old.removed = IF pair \in DOMAIN rolled THEN RemovedCounts[pair] ELSE 0
      BY DEF RemovedCounts
    <3> QED  BY <3>1, <3>2
  <2>5. IsFiniteSet(TokensOf(RemovedCounts)) /\ Cardinality(TokensOf(RemovedCounts)) = Cardinality(compared \cap RemovedEdges)
    BY DEF HistoryInv, EdgesAreRolled, CountsEdges
  <2>6. IsFiniteSet(TokensOf(grown)) /\ Cardinality(TokensOf(grown)) = Cardinality(TokensOf(RemovedCounts)) + less
    <3> HIDE DEF grown, edge, pair, old, new, less
    <3> QED  BY <1>7, <2>2, <2>3, <2>4, <2>5, TokensGrow
  <2>7. Cardinality(compared' \cap RemovedEdges) = Cardinality(compared \cap RemovedEdges) + less
    BY <1>1, <1>3, <1>12, SideGrows
  <2> QED  BY <1>4, <2>1, <2>5, <2>6, <2>7 DEF CountsEdges
<1>14. EntriesCount'
  <2>1. \A k : Under(k, AddedEdges)' = Under(k, AddedEdges) /\ Under(k, RemovedEdges)' = Under(k, RemovedEdges)
    BY <1>4, <1>5 DEF Under
  <2>2. ASSUME NEW k, NEW edges, IsFiniteSet(edges)
        PROVE  /\ Cardinality(compared' \cap Under(k, edges))
                    = Cardinality(compared \cap Under(k, edges)) + Weight(edge, Under(k, edges))
               /\ Weight(edge, Under(k, edges)) = IF k = pair THEN Weight(edge, edges) ELSE 0
               /\ k \notin DOMAIN rolled => Cardinality(compared \cap Under(k, edges)) = 0
               /\ Cardinality(compared \cap Under(k, edges)) \in Nat
    <3>1. IsFiniteSet(Under(k, edges)) /\ IsFiniteSet(compared \cap Under(k, edges))
      <4>1. Under(k, edges) \subseteq edges /\ compared \cap Under(k, edges) \subseteq edges
        BY DEF Under
      <4> QED  BY <2>2, <4>1, FS_Subset
    <3>2. Weight(edge, Under(k, edges)) = IF k = pair THEN Weight(edge, edges) ELSE 0
      BY DEF Weight, Under
    <3>3. k \notin DOMAIN rolled => compared \cap Under(k, edges) = {}
      BY DEF Under, HistoryInv, EdgesAreRolled
    <3> QED  BY <1>1, <1>3, <3>1, <3>2, <3>3, SideGrows, FS_EmptySet, FS_CardinalityType
  <2>3. ASSUME NEW k \in DOMAIN rolled'
        PROVE  /\ rolled'[k].added = Cardinality(compared' \cap Under(k, AddedEdges))
               /\ rolled'[k].removed = Cardinality(compared' \cap Under(k, RemovedEdges))
    <3>1. CASE k # pair
      <4>1. k \in DOMAIN rolled /\ rolled'[k] = rolled[k]
        BY <1>1, <3>1
      <4>2. /\ rolled[k].added = Cardinality(compared \cap Under(k, AddedEdges))
            /\ rolled[k].removed = Cardinality(compared \cap Under(k, RemovedEdges))
        BY <4>1 DEF HistoryInv, EdgesAreRolled, EntriesCount
      <4>3. /\ Cardinality(compared' \cap Under(k, AddedEdges)) = Cardinality(compared \cap Under(k, AddedEdges)) + 0
            /\ Cardinality(compared \cap Under(k, AddedEdges)) \in Nat
        BY <1>12, <2>2, <3>1
      <4>4. /\ Cardinality(compared' \cap Under(k, RemovedEdges)) = Cardinality(compared \cap Under(k, RemovedEdges)) + 0
            /\ Cardinality(compared \cap Under(k, RemovedEdges)) \in Nat
        BY <1>12, <2>2, <3>1
      <4> QED  BY <4>1, <4>2, <4>3, <4>4
    <3>2. CASE k = pair
      <4>1. rolled'[k].added = old.added + more /\ rolled'[k].removed = old.removed + less
        BY <1>1, <1>8, <3>2
      <4>2. /\ old.added = Cardinality(compared \cap Under(k, AddedEdges))
            /\ old.removed = Cardinality(compared \cap Under(k, RemovedEdges))
        <5>1. CASE k \in DOMAIN rolled
          BY <3>2, <5>1 DEF HistoryInv, EdgesAreRolled, EntriesCount
        <5>2. CASE k \notin DOMAIN rolled
          BY <1>12, <2>2, <3>2, <5>2
        <5> QED  BY <5>1, <5>2
      <4>3. more = Weight(edge, Under(k, AddedEdges)) /\ less = Weight(edge, Under(k, RemovedEdges))
        BY <1>12, <2>2, <3>2
      <4> HIDE DEF edge, pair, old, new, more, less
      <4> QED  BY <1>12, <2>2, <4>1, <4>2, <4>3
    <3> QED  BY <3>1, <3>2
  <2> QED  BY <2>1, <2>3 DEF EntriesCount
<1>13. EdgesAreRolled'
  BY <1>1, <1>3, <1>4, <1>5, <1>9, <1>10, <1>11, <1>14 DEF HistoryInv, EdgesAreRolled
<1> QED  BY <1>1, <1>6, <1>13 DEF HistoryInv

LEMMA HistoryGoesOn == HistoryInv /\ [HistoryNext]_historyVars => HistoryInv'
BY ReadingTallies, PartsEnd, RollingCounts DEF HistoryNext

-----------------------------------------------------------------------------
(* What stands before a second item and so before a first one, is less than *)
(* what stands before the first: a place among the first ones is inherited. *)
LEMMA PlacesAreInherited ==
  ASSUME NEW S, IsFiniteSet(S), NEW first, NEW second,
         first \subseteq S, second \subseteq first, NEW top \in Nat, Cardinality(first) < top
  PROVE  Cardinality(second) < top
<1>1. IsFiniteSet(first) /\ Cardinality(first) \in Nat
  BY FS_Subset, FS_CardinalityType
<1>2. Cardinality(second) <= Cardinality(first) /\ Cardinality(second) \in Nat
  BY <1>1, FS_Subset, FS_CardinalityType
<1> QED  BY <1>1, <1>2

LEMMA CommitsTell ==
  ASSUME HistoryInv, part = "done", history.analytics
  PROVE  /\ DOMAIN frequency \subseteq Nat /\ IsFiniteSet(DOMAIN frequency)
         /\ \A p \in DOMAIN frequency :
              /\ frequency[p] = Cardinality({k \in DOMAIN history.commits : p \in PathsRead[k]})
              /\ frequency[p] \in Nat /\ Degree(p) \in Nat
         /\ IsFiniteSet(DOMAIN coupling)
         /\ \A pair \in DOMAIN coupling :
              /\ pair = <<pair[1], pair[2]>> /\ pair[1] \in Nat /\ pair[2] \in Nat
              /\ \E k \in DOMAIN history.commits : pair \in PairsRead[k]
              /\ coupling[pair] = Cardinality({k \in DOMAIN history.commits : pair \in PairsRead[k]})
              /\ coupling[pair] \in Nat
<1>1. DOMAIN history.commits = 1..Len(history.commits) /\ Len(history.commits) \in Nat
  BY HistoriesAssumption DEF HistoriesAssumption, HistoryInv
<1>2. /\ IsTally(frequency, PathsRead, Len(history.commits))
      /\ IsTally(coupling, PairsRead, Len(history.commits))
  BY DEF HistoryInv, CommitsAreTallied
<1>3. IsFiniteSet(DOMAIN history.commits)
  BY <1>1, FS_Interval
<1>4. ASSUME NEW T \in SUBSET DOMAIN history.commits
      PROVE  Cardinality(T) \in Nat
  BY <1>3, FS_Subset, FS_CardinalityType
<1>5. /\ DOMAIN frequency = UNION {PathsRead[k] : k \in DOMAIN history.commits} /\ IsFiniteSet(DOMAIN frequency)
      /\ \A p \in DOMAIN frequency : frequency[p] = Cardinality({k \in DOMAIN history.commits : p \in PathsRead[k]})
  BY <1>1, <1>2 DEF IsTally
<1>6. /\ DOMAIN coupling = UNION {PairsRead[k] : k \in DOMAIN history.commits} /\ IsFiniteSet(DOMAIN coupling)
      /\ \A p \in DOMAIN coupling : coupling[p] = Cardinality({k \in DOMAIN history.commits : p \in PairsRead[k]})
  BY <1>1, <1>2 DEF IsTally
<1>7. \A p : Degree(p) \in Nat
  BY HistoriesAssumption DEF HistoriesAssumption, HistoryInv, Degree
<1>8. DOMAIN frequency \subseteq Nat
  BY <1>5, ReadSetsAreFinite DEF HistoryInv
<1>9. \A p \in DOMAIN frequency : frequency[p] \in Nat
  BY <1>4, <1>5
<1>10. \A pair \in DOMAIN coupling : coupling[pair] \in Nat
  BY <1>4, <1>6
<1>11. \A pair \in DOMAIN coupling : \E k \in DOMAIN history.commits : pair \in PairsRead[k]
  BY <1>6
<1>12. \A pair \in DOMAIN coupling : pair = <<pair[1], pair[2]>> /\ pair[1] \in Nat /\ pair[2] \in Nat
  BY <1>11, ReadSetsAreFinite DEF HistoryInv
<1> QED  BY <1>5, <1>6, <1>7, <1>8, <1>9, <1>10, <1>11, <1>12

LEMMA CommitsAreCounted == HistoryInv => CommitsAddUp
<1> SUFFICES ASSUME HistoryInv, part = "done", history.analytics
             PROVE  CommitsAddUp
  BY DEF CommitsAddUp
<1>1. history.top \in Nat /\ history.pairs \in Nat
  BY HistoriesAssumption DEF HistoriesAssumption, HistoryInv
<1>2. ASSUME NEW pair \in CochangePairs
      PROVE  /\ coupling[pair] <= frequency[pair[1]] /\ coupling[pair] <= frequency[pair[2]]
             /\ coupling[pair] = Cardinality(Holding(pair))
  <2>1. pair \in DOMAIN coupling
    BY DEF CochangePairs, Often
  <2> DEFINE Together == {k \in DOMAIN history.commits : pair \in PairsRead[k]}
             Alone(p) == {k \in DOMAIN history.commits : p \in PathsRead[k]}
  <2>2. PICK one \in DOMAIN history.commits : pair \in PairsRead[one]
    BY <2>1, CommitsTell
  <2>3. ASSUME NEW k \in DOMAIN history.commits
        PROVE  /\ pair \in PairsRead[k] <=> {pair[1], pair[2]} \subseteq Paired(ChangedPaths(history.commits[k]))
               /\ pair \in PairsRead[k] => pair[1] \in PathsRead[k] /\ pair[2] \in PathsRead[k]
    <3>1. pair = <<pair[1], pair[2]>>
      BY <2>1, CommitsTell
    <3>2. pair[1] < pair[2]
      BY <2>2 DEF PairsRead, PairsOf
    <3>3. pair \in PairsRead[k] <=> {pair[1], pair[2]} \subseteq Paired(ChangedPaths(history.commits[k]))
      BY <3>1, <3>2 DEF PairsRead, PairsOf
    <3> QED  BY <3>3 DEF Paired, PathsRead
  <2>4. Together = Holding(pair)
    BY <2>3 DEF Holding
  <2>5. coupling[pair] = Cardinality(Together)
    BY <2>1, CommitsTell
  <2>6. ASSUME NEW p \in {pair[1], pair[2]}
        PROVE  coupling[pair] <= frequency[p]
    <3>1. p \in PathsRead[one] /\ Together \subseteq Alone(p)
      BY <2>2, <2>3
    <3>2. p \in DOMAIN frequency
      <4>1. DOMAIN history.commits = 1..Len(history.commits)
        BY HistoriesAssumption DEF HistoriesAssumption, HistoryInv
      <4> QED  BY <4>1, <3>1 DEF HistoryInv, CommitsAreTallied, IsTally
    <3>3. frequency[p] = Cardinality(Alone(p))
      BY <3>2, CommitsTell
    <3>4. IsFiniteSet(DOMAIN history.commits)
      BY HistoriesAssumption, FS_Interval DEF HistoriesAssumption, HistoryInv
    <3>5. IsFiniteSet(Alone(p))
      BY <3>4, FS_Subset
    <3>6. Cardinality(Together) <= Cardinality(Alone(p))
      BY <3>1, <3>5, FS_Subset
    <3> QED  BY <2>5, <3>3, <3>6
  <2> QED  BY <2>4, <2>5, <2>6
<1>3. ASSUME NEW hot \in Hotspots, NEW p \in DOMAIN frequency \ Hotspots
      PROVE  Score(hot) >= Score(p)
  <2>1. \A q \in DOMAIN frequency : Score(q) \in Nat /\ q \in Nat
    <3>1. \A m, n \in Nat : m * (n + 1) \in Nat
      OBVIOUS
    <3> QED  BY <3>1, CommitsTell DEF Score
  <2> DEFINE Above(x) == {q \in DOMAIN frequency : Hotter(q, x)}
  <2>2. hot \in DOMAIN frequency /\ Cardinality(Above(hot)) < history.top
    BY DEF Hotspots
  <2>3. ~(Cardinality(Above(p)) < history.top)
    BY DEF Hotspots
  <2>4. ASSUME Score(p) > Score(hot)
        PROVE  FALSE
    <3>1. Above(p) \subseteq Above(hot)
      BY <2>1, <2>2, <2>4 DEF Hotter
    <3>2. Cardinality(Above(p)) < history.top
      <4>1. Above(hot) \subseteq DOMAIN frequency /\ IsFiniteSet(DOMAIN frequency)
        BY CommitsTell
      <4> HIDE DEF Above
      <4> QED  BY <1>1, <2>2, <3>1, <4>1, PlacesAreInherited
    <3> QED  BY <2>3, <3>2
  <2> QED  BY <2>1, <2>2, <2>4
<1>4. ASSUME NEW near \in CochangePairs, NEW pair \in Often \ CochangePairs
      PROVE  coupling[near] >= coupling[pair]
  <2>1. \A q \in Often : coupling[q] \in Nat /\ q[1] \in Nat /\ q[2] \in Nat
    BY CommitsTell DEF Often
  <2> DEFINE Above(x) == {q \in Often : Closer(q, x)}
  <2>2. near \in Often /\ Cardinality(Above(near)) < history.pairs
    BY DEF CochangePairs
  <2>3. ~(Cardinality(Above(pair)) < history.pairs)
    BY DEF CochangePairs
  <2>4. ASSUME coupling[pair] > coupling[near]
        PROVE  FALSE
    <3>1. Above(pair) \subseteq Above(near)
      BY <2>1, <2>2, <2>4 DEF Closer
    <3>2. IsFiniteSet(Often)
      BY CommitsTell, FS_Subset DEF Often
    <3>3. Cardinality(Above(pair)) < history.pairs
      <4>1. Above(near) \subseteq Often
        OBVIOUS
      <4> HIDE DEF Above
      <4> QED  BY <1>1, <2>2, <3>1, <3>2, <4>1, PlacesAreInherited
    <3> QED  BY <2>3, <3>3
  <2> QED  BY <2>1, <2>2, <2>4
<1> QED  BY <1>2, <1>3, <1>4 DEF CommitsAddUp

-----------------------------------------------------------------------------
LEMMA SidesDiffer ==
  ASSUME NEW S, NEW T, IsFiniteSet(S), IsFiniteSet(T)
  PROVE  Cardinality(T \ S) - Cardinality(S \ T) = Cardinality(T) - Cardinality(S)
<1>1. Cardinality(T \ S) = Cardinality(T) - Cardinality(T \cap S)
  BY FS_Difference
<1>2. Cardinality(S \ T) = Cardinality(S) - Cardinality(S \cap T)
  BY FS_Difference
<1>3. S \cap T = T \cap S /\ IsFiniteSet(S \cap T)
  BY FS_Intersection
<1>4. Cardinality(S) \in Nat /\ Cardinality(T) \in Nat /\ Cardinality(S \cap T) \in Nat
  BY <1>3, FS_CardinalityType
<1> QED  BY <1>1, <1>2, <1>3, <1>4

LEMMA NamesAreNodes ==
  ASSUME NEW graph, IsRevision(graph)
  PROVE  /\ IsFiniteSet(NodeIds(graph)) /\ Cardinality(NodeIds(graph)) = Cardinality(graph.nodes)
         /\ \A n \in graph.nodes : NodeOf(graph, n.id) = n
         /\ \A id \in NodeIds(graph) : NodeOf(graph, id) \in graph.nodes /\ NodeOf(graph, id).id = id
         /\ \A e \in graph.edges : e.from \in NodeIds(graph) /\ e.to \in NodeIds(graph)
<1> DEFINE name == [n \in graph.nodes |-> n.id]
<1>1. ASSUME NEW id \in NodeIds(graph)
      PROVE  NodeOf(graph, id) \in graph.nodes /\ NodeOf(graph, id).id = id
  <2>1. PICK n \in graph.nodes : n.id = id
    BY DEF NodeIds
  <2> QED  BY <2>1 DEF NodeOf
<1>2. ASSUME NEW n \in graph.nodes
      PROVE  NodeOf(graph, n.id) = n
  <2>1. n.id \in NodeIds(graph)
    BY DEF NodeIds
  <2> QED  BY <1>1, <2>1 DEF IsRevision
<1>3. name \in Bijection(graph.nodes, NodeIds(graph))
  <2>1. name \in [graph.nodes -> NodeIds(graph)]
    BY DEF NodeIds
  <2>2. \A m, n \in graph.nodes : name[m] = name[n] => m = n
    BY DEF IsRevision
  <2>3. \A id \in NodeIds(graph) : \E n \in graph.nodes : name[n] = id
    BY DEF NodeIds
  <2> QED  BY <2>1, <2>2, <2>3 DEF Bijection, Injection, Surjection, IsInjective
<1>4. IsFiniteSet(NodeIds(graph)) /\ Cardinality(NodeIds(graph)) = Cardinality(graph.nodes)
  <2>1. ExistsBijection(graph.nodes, NodeIds(graph))
    BY <1>3 DEF ExistsBijection
  <2> QED  BY <2>1, FS_Bijection DEF IsRevision
<1>5. \A e \in graph.edges : e.from \in NodeIds(graph) /\ e.to \in NodeIds(graph)
  BY DEF IsRevision, NodeIds
<1> QED  BY <1>1, <1>2, <1>4, <1>5

(* An added edge is rolled up to where the target places it, a removed one  *)
(* whose ends did not move to where the baseline does.                      *)
LEMMA EdgesKeepTheirPlace ==
  ASSUME history \in Histories
  PROVE  /\ \A e \in AddedEdges : FilePair(e) = Placed(history.target, e)
         /\ \A e \in RemovedEdges \ Uprooted : FilePair(e) = Placed(history.baseline, e)
<1>1. IsRevision(history.target) /\ IsRevision(history.baseline)
  BY HistoriesAssumption DEF HistoriesAssumption
<1>2. ASSUME NEW id \in NodeIds(history.target)
      PROVE  OwningFile(id) = NodeOf(history.target, id).file
  BY <1>2 DEF OwningFile, RemovedNodes
<1>3. ASSUME NEW id \in NodeIds(history.baseline), ~Moved(id)
      PROVE  OwningFile(id) = NodeOf(history.baseline, id).file
  <2>1. CASE id \in NodeIds(history.target)
    BY <1>2, <1>3, <2>1 DEF Moved
  <2>2. CASE id \notin NodeIds(history.target)
    BY <1>3, <2>2 DEF OwningFile, RemovedNodes
  <2> QED  BY <2>1, <2>2
<1>4. ASSUME NEW e \in AddedEdges
      PROVE  FilePair(e) = Placed(history.target, e)
  <2>1. e.from \in NodeIds(history.target) /\ e.to \in NodeIds(history.target)
    BY <1>1, NamesAreNodes DEF AddedEdges
  <2> QED  BY <1>2, <2>1 DEF FilePair, Placed
<1>5. ASSUME NEW e \in RemovedEdges \ Uprooted
      PROVE  FilePair(e) = Placed(history.baseline, e)
  <2>1. e.from \in NodeIds(history.baseline) /\ e.to \in NodeIds(history.baseline)
    BY <1>1, NamesAreNodes DEF RemovedEdges
  <2>2. ~Moved(e.from) /\ ~Moved(e.to)
    BY DEF Uprooted
  <2> QED  BY <1>3, <2>1, <2>2 DEF FilePair, Placed
<1> QED  BY <1>4, <1>5

(* What an entry counts is what the revisions place there, exactly for the  *)
(* added edges and up to the uprooted ones for the removed.                 *)
LEMMA EntriesArePlaced ==
  ASSUME HistoryInv, compared = AddedEdges \cup RemovedEdges, NEW k \in DOMAIN rolled
  PROVE  LET gone == Cardinality({e \in RemovedEdges \ Uprooted : Placed(history.baseline, e) = k})
         IN  /\ rolled[k].added = Cardinality({e \in AddedEdges : Placed(history.target, e) = k})
             /\ rolled[k].removed \in gone..(gone + Cardinality(Uprooted))
<1> DEFINE rooted == {e \in RemovedEdges \ Uprooted : Placed(history.baseline, e) = k}
<1>1. history \in Histories
  BY DEF HistoryInv
<1>2. /\ rolled[k].added = Cardinality(compared \cap Under(k, AddedEdges))
      /\ rolled[k].removed = Cardinality(compared \cap Under(k, RemovedEdges))
  BY DEF HistoryInv, EdgesAreRolled, EntriesCount
<1>3. compared \cap Under(k, AddedEdges) = {e \in AddedEdges : Placed(history.target, e) = k}
  BY <1>1, EdgesKeepTheirPlace DEF Under
<1>4. compared \cap Under(k, RemovedEdges) = Under(k, RemovedEdges)
  BY DEF Under
<1>5. rooted \subseteq Under(k, RemovedEdges) /\ Under(k, RemovedEdges) \subseteq rooted \cup Uprooted
  BY <1>1, EdgesKeepTheirPlace DEF Under
<1>6. IsFiniteSet(rooted) /\ IsFiniteSet(Uprooted) /\ IsFiniteSet(Under(k, RemovedEdges))
  <2>1. rooted \subseteq RemovedEdges /\ Uprooted \subseteq RemovedEdges /\ Under(k, RemovedEdges) \subseteq RemovedEdges
    BY DEF Uprooted, Under
  <2>2. IsFiniteSet(RemovedEdges)
    BY <1>1, EdgesAreFinite
  <2> QED  BY <2>1, <2>2, FS_Subset
<1> HIDE DEF rooted
<1>7. /\ IsFiniteSet(rooted \cup Uprooted)
      /\ Cardinality(rooted \cup Uprooted) = Cardinality(rooted) + Cardinality(Uprooted) - Cardinality(rooted \cap Uprooted)
  BY <1>6, FS_Union
<1>8. /\ Cardinality(rooted) <= Cardinality(Under(k, RemovedEdges))
      /\ Cardinality(Under(k, RemovedEdges)) <= Cardinality(rooted \cup Uprooted)
  BY <1>5, <1>6, <1>7, FS_Subset
<1>9. /\ Cardinality(rooted) \in Nat /\ Cardinality(Uprooted) \in Nat
      /\ Cardinality(rooted \cap Uprooted) \in Nat /\ Cardinality(Under(k, RemovedEdges)) \in Nat
  BY <1>6, FS_Intersection, FS_CardinalityType
<1>10. rolled[k].removed \in Cardinality(rooted)..(Cardinality(rooted) + Cardinality(Uprooted))
  <2>1. rolled[k].removed = Cardinality(Under(k, RemovedEdges))
    BY <1>2, <1>4
  <2>2. \A a, b, c, d, u \in Nat : a <= c /\ c <= d /\ d = a + b - u => c \in a..(a + b)
    OBVIOUS
  <2>3. Cardinality(rooted \cup Uprooted) \in Nat
    BY <1>7, FS_CardinalityType
  <2> QED  BY <1>7, <1>8, <1>9, <2>1, <2>2, <2>3
<1> QED  BY <1>2, <1>3, <1>10 DEF rooted

LEMMA TotalsCountEdges ==
  ASSUME HistoryInv, part = "done"
  PROVE  /\ compared = AddedEdges \cup RemovedEdges
         /\ Total("added") = Cardinality(AddedEdges) /\ Total("removed") = Cardinality(RemovedEdges)
<1>1. compared = AddedEdges \cup RemovedEdges
  BY DEF HistoryInv, EdgesAreRolled, Uncompared
<1>2. compared \cap AddedEdges = AddedEdges /\ compared \cap RemovedEdges = RemovedEdges
  BY <1>1
<1>3. /\ UNION {{k} \X (1..rolled[k]["added"]) : k \in DOMAIN rolled} = TokensOf(AddedCounts)
      /\ UNION {{k} \X (1..rolled[k]["removed"]) : k \in DOMAIN rolled} = TokensOf(RemovedCounts)
  BY DEF TokensOf, AddedCounts, RemovedCounts
<1> QED  BY <1>1, <1>2, <1>3 DEF Total, HistoryInv, EdgesAreRolled, CountsEdges

LEMMA RevisionsAreCompared == HistoryInv => DiffAddsUp
<1> SUFFICES ASSUME HistoryInv, part = "done"
             PROVE  DiffAddsUp
  BY DEF DiffAddsUp
<1> DEFINE Old == history.baseline
           New == history.target
<1>1. IsRevision(Old) /\ IsRevision(New)
  BY HistoriesAssumption DEF HistoriesAssumption, HistoryInv
<1>2. Total("added") - Total("removed") = Cardinality(New.edges) - Cardinality(Old.edges)
  <2>1. IsFiniteSet(Old.edges) /\ IsFiniteSet(New.edges)
    BY <1>1 DEF IsRevision
  <2> QED  BY <2>1, TotalsCountEdges, SidesDiffer DEF AddedEdges, RemovedEdges
<1>3. Total("added") = 0 /\ Total("removed") = 0 => New.edges = Old.edges
  <2>1. IsFiniteSet(AddedEdges) /\ IsFiniteSet(RemovedEdges)
    BY EdgesAreFinite DEF HistoryInv
  <2>2. Total("added") = 0 /\ Total("removed") = 0 => AddedEdges = {} /\ RemovedEdges = {}
    BY <2>1, TotalsCountEdges, FS_EmptySet
  <2>3. AddedEdges = {} /\ RemovedEdges = {} => New.edges = Old.edges
    BY DEF AddedEdges, RemovedEdges
  <2> QED  BY <2>2, <2>3
<1>4. /\ \A e \in AddedEdges : Placed(New, e) \in DOMAIN rolled
      /\ \A e \in RemovedEdges \ Uprooted : Placed(Old, e) \in DOMAIN rolled
  BY TotalsCountEdges, EdgesKeepTheirPlace DEF HistoryInv, EdgesAreRolled
<1>7. \A k \in DOMAIN rolled :
        LET gone == Cardinality({e \in RemovedEdges \ Uprooted : Placed(Old, e) = k})
        IN  /\ rolled[k].added = Cardinality({e \in AddedEdges : Placed(New, e) = k})
            /\ rolled[k].removed \in gone..(gone + Cardinality(Uprooted))
  BY TotalsCountEdges, EntriesArePlaced
<1>5. ASSUME NEW n \in New.nodes
      PROVE  n.id \in AddedNodes \cup ChangedNodes \/ \E m \in Old.nodes : Content(m) = Content(n)
  <2>1. n.id \in NodeIds(New) /\ NodeOf(New, n.id) = n
    BY <1>1, NamesAreNodes DEF NodeIds
  <2>2. CASE n.id \notin NodeIds(Old)
    BY <2>1, <2>2 DEF AddedNodes
  <2>3. CASE n.id \in NodeIds(Old)
    <3>1. NodeOf(Old, n.id) \in Old.nodes
      BY <1>1, <2>3, NamesAreNodes
    <3>2. n.id \in ChangedNodes \/ Content(n) = Content(NodeOf(Old, n.id))
      BY <2>1, <2>3 DEF ChangedNodes
    <3> QED  BY <3>1, <3>2
  <2> QED  BY <2>2, <2>3
<1>6. Cardinality(AddedNodes) - Cardinality(RemovedNodes) = Cardinality(New.nodes) - Cardinality(Old.nodes)
  BY <1>1, NamesAreNodes, SidesDiffer DEF AddedNodes, RemovedNodes
<1> QED  BY <1>2, <1>3, <1>4, <1>5, <1>6, <1>7 DEF DiffAddsUp

(* For every history and every two graphs the answers of git_history and    *)
(* graph_diff add up: pairs and files are counted in the commits that hold  *)
(* them, what is left out is not hotter or closer, and the roll-up to files *)
(* is the difference of the two graphs, edge for edge: an entry counts the  *)
(* added edges the target has between its files, and the removed ones the   *)
(* baseline had there, save those with an end in another file by now.       *)
THEOREM HistoriesAddUp == HistorySpec => []HistoryAddsUp
<1>1. HistoryInv => HistoryAddsUp
  BY CommitsAreCounted, RevisionsAreCompared DEF HistoryAddsUp
<1> QED  BY <1>1, HistoryStarts, HistoryGoesOn, PTL DEF HistorySpec
=============================================================================
