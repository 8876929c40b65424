------------------------ MODULE AnalyzerParseProofs ------------------------
(* What the analyzer does with the files, for every number of files, of     *)
(* cores and of scanner threads: parse_parallel, and the one-pass build;    *)
(* the prefixes of the routers they mount, for every list of mounts; and    *)
(* what their names resolve to, for every repository.                       *)
EXTENDS OnePassParse, MountPrefixes, NameResolution, DataInduction

Holding(w) == pc[w] \in {"fetch", "push", "dead"}

(* A claimed index is a file below the cursor, and nobody else's. *)
ClaimsAreExclusive ==
  /\ \A w \in Workers : Holding(w) => index[w] < cursor /\ index[w] < Count
  /\ \A w, v \in Workers : Holding(w) /\ Holding(v) /\ index[w] = index[v] => w = v

(* A result is the outcome of a file below the cursor that nobody holds any *)
(* more, and the only one of that file.                                     *)
ResultsAreExclusive ==
  /\ \A k \in DOMAIN results :
       /\ results[k].index < cursor
       /\ results[k].parsed = (outcome[results[k].index] = "parsed")
       /\ \A w \in Workers : Holding(w) => index[w] # results[k].index
  /\ \A j, k \in DOMAIN results : results[j].index = results[k].index => j = k

(* Every file below the cursor is somewhere. *)
NothingIsLost ==
  \A i \in Files : i < cursor =>
    \/ \E w \in Workers : Holding(w) /\ index[w] = i
    \/ \E k \in DOMAIN results : results[k].index = i

(* A worker stops only when the files have run out. *)
StopsAtTheEnd == \A w \in Workers : pc[w] = "done" => cursor >= Count

IInv ==
  /\ TypeOK /\ ClaimsAreExclusive /\ ResultsAreExclusive
  /\ NothingIsLost /\ StopsAtTheEnd

(* A claim takes the cursor's file from nobody. *)
LEMMA ClaimKeeps ==
  ASSUME IInv, NEW w \in Workers, Claim(w)
  PROVE  IInv'
<1> USE ParallelParseAssumption DEF IInv
<1>1. /\ cursor \in Nat /\ Count \in Nat /\ index \in [Workers -> Nat]
      /\ pc \in [Workers -> {"claim", "fetch", "push", "done", "dead"}]
      /\ pc[w] = "claim" /\ ~Holding(w)
  BY DEF TypeOK, Claim, Holding
<1>2. /\ index' = [index EXCEPT ![w] = cursor] /\ cursor' = cursor + 1
      /\ pc' = [pc EXCEPT ![w] = IF cursor >= Count THEN "done" ELSE "fetch"]
      /\ UNCHANGED <<outcome, results, answer>>
  BY DEF Claim
<1>3. TypeOK'
  BY <1>1, <1>2 DEF TypeOK
<1>4. \A v \in Workers : v # w => index'[v] = index[v] /\ pc'[v] = pc[v]
  BY <1>1, <1>2
<1>5. /\ index'[w] = cursor
      /\ cursor >= Count => pc'[w] = "done"
      /\ cursor < Count => pc'[w] = "fetch"
  BY <1>1, <1>2
<1>6. \A v \in Workers : v # w => (Holding(v)' <=> Holding(v))
  BY <1>4 DEF Holding
<1>7. Holding(w)' => index'[w] = cursor /\ cursor < Count
  BY <1>1, <1>5 DEF Holding
<1>8. ClaimsAreExclusive'
  <2>1. \A v \in Workers : Holding(v) => index[v] # cursor
    BY <1>1 DEF ClaimsAreExclusive
  <2> QED
    BY <1>1, <1>2, <1>4, <1>6, <1>7, <2>1 DEF ClaimsAreExclusive
<1>9. ResultsAreExclusive'
  <2>1. \A k \in DOMAIN results : results[k].index \in Nat /\ results[k].index < cursor
    <3> DEFINE Item == [index : Files, parsed : BOOLEAN]
    <3>0. results \in Seq(Item)
      BY DEF TypeOK
    <3> HIDE DEF Item
    <3>1. \A k \in DOMAIN results : results[k] \in Item
      BY <3>0
    <3> USE DEF Item
    <3>2. \A k \in DOMAIN results : results[k].index \in Files
      BY <3>1
    <3> QED
      BY <1>1, <3>2 DEF ResultsAreExclusive, Files
  <2> QED
    BY <1>1, <1>2, <1>4, <1>6, <1>7, <2>1 DEF ResultsAreExclusive
<1>10. NothingIsLost'
  <2> SUFFICES ASSUME NEW i \in Files, i < cursor'
               PROVE  \/ \E v \in Workers : Holding(v)' /\ index'[v] = i
                      \/ \E k \in DOMAIN results : results[k].index = i
    BY <1>2 DEF NothingIsLost
  <2>1. CASE i < cursor
    <3>1. CASE \E v \in Workers : Holding(v) /\ index[v] = i
      BY <1>1, <1>4, <1>6, <3>1
    <3> QED
      BY <2>1, <3>1 DEF NothingIsLost
  <2>2. CASE i = cursor
    BY <1>1, <1>5, <2>2 DEF Holding, Files
  <2> QED
    BY <1>1, <1>2, <2>1, <2>2 DEF Files
<1>11. StopsAtTheEnd'
  BY <1>1, <1>2, <1>4, <1>5 DEF StopsAtTheEnd
<1> QED
  BY <1>3, <1>8, <1>9, <1>10, <1>11

(* Parsing a file keeps hold of it. *)
LEMMA FetchKeeps ==
  ASSUME IInv, NEW w \in Workers, Fetch(w)
  PROVE  IInv'
<1> USE DEF IInv
<1>1. /\ pc \in [Workers -> {"claim", "fetch", "push", "done", "dead"}]
      /\ pc[w] = "fetch" /\ UNCHANGED <<outcome, cursor, index, results, answer>>
      /\ \A v \in Workers : pc'[v] = IF v = w THEN pc'[w] ELSE pc[v]
      /\ pc'[w] \in {"dead", "push"}
      /\ pc' \in [Workers -> {"claim", "fetch", "push", "done", "dead"}]
  BY DEF TypeOK, Fetch
<1>2. \A v \in Workers : Holding(v)' <=> Holding(v)
  BY <1>1 DEF Holding
<1>3. TypeOK'
  BY <1>1 DEF TypeOK
<1> QED
  BY <1>1, <1>2, <1>3
     DEF ClaimsAreExclusive, ResultsAreExclusive, NothingIsLost, StopsAtTheEnd

(* Pushing a result hands the file over from the worker to the vector. *)
LEMMA PushKeeps ==
  ASSUME IInv, NEW w \in Workers, Push(w)
  PROVE  IInv'
<1> USE ParallelParseAssumption DEF IInv
<1> DEFINE item == [index |-> index[w], parsed |-> outcome[index[w]] = "parsed"]
<1>1. /\ pc \in [Workers -> {"claim", "fetch", "push", "done", "dead"}]
      /\ pc[w] = "push" /\ UNCHANGED <<outcome, cursor, index, answer>>
      /\ pc' = [pc EXCEPT ![w] = "claim"]
      /\ results' = Append(results, item)
  BY DEF TypeOK, Push
<1>2. /\ Holding(w) /\ ~Holding(w)'
      /\ \A v \in Workers : v # w => (Holding(v)' <=> Holding(v)) /\ pc'[v] = pc[v]
  BY <1>1 DEF Holding
<1>3. index[w] \in Files /\ index[w] < cursor
  BY <1>2 DEF ClaimsAreExclusive, TypeOK, Files
<1>4. item \in [index : Files, parsed : BOOLEAN]
  BY <1>3
<1>5. results \in Seq([index : Files, parsed : BOOLEAN])
  BY DEF TypeOK
<1>6. item.index = index[w] /\ item.parsed = (outcome[index[w]] = "parsed")
  OBVIOUS
<1> HIDE DEF item
<1>7. /\ DOMAIN results' = DOMAIN results \cup {Len(results) + 1}
      /\ \A k \in DOMAIN results : results'[k] = results[k]
      /\ results'[Len(results) + 1] = item
      /\ Len(results) + 1 \notin DOMAIN results
      /\ results' \in Seq([index : Files, parsed : BOOLEAN])
  BY <1>1, <1>4, <1>5
<1>8. TypeOK'
  BY <1>1, <1>7 DEF TypeOK
<1>9. ClaimsAreExclusive'
  BY <1>1, <1>2 DEF ClaimsAreExclusive
<1>10. ResultsAreExclusive'
  <2>1. \A k \in DOMAIN results : results[k].index # index[w]
    BY <1>2 DEF ResultsAreExclusive
  <2>2. \A v \in Workers : v # w /\ Holding(v) => index[v] # index[w]
    BY <1>2 DEF ClaimsAreExclusive
  <2>3. \A k \in DOMAIN results' : k \in DOMAIN results \/ results'[k] = item
    BY <1>7
  <2>4. \A j, k \in DOMAIN results' : results'[j].index = results'[k].index => j = k
    BY <1>6, <1>7, <2>1 DEF ResultsAreExclusive
  <2>5. ASSUME NEW k \in DOMAIN results'
        PROVE  /\ results'[k].index < cursor'
               /\ results'[k].parsed = (outcome'[results'[k].index] = "parsed")
               /\ \A v \in Workers : Holding(v)' => index'[v] # results'[k].index
    <3>1. CASE k \in DOMAIN results
      BY <1>1, <1>2, <1>7, <3>1 DEF ResultsAreExclusive
    <3>2. CASE results'[k] = item
      BY <1>1, <1>2, <1>3, <1>6, <2>2, <3>2
    <3> QED
      BY <2>3, <3>1, <3>2
  <2> QED
    BY <2>4, <2>5 DEF ResultsAreExclusive
<1>11. NothingIsLost'
  <2> SUFFICES ASSUME NEW i \in Files, i < cursor
               PROVE  \/ \E v \in Workers : Holding(v)' /\ index'[v] = i
                      \/ \E k \in DOMAIN results' : results'[k].index = i
    BY <1>1 DEF NothingIsLost
  <2>1. CASE i = index[w]
    BY <1>6, <1>7, <2>1
  <2>2. CASE i # index[w]
    BY <1>1, <1>2, <1>7, <2>2 DEF NothingIsLost
  <2> QED
    BY <2>1, <2>2
<1>12. StopsAtTheEnd'
  BY <1>1, <1>2 DEF StopsAtTheEnd
<1> QED
  BY <1>8, <1>9, <1>10, <1>11, <1>12

(* Every step keeps the invariant. *)
LEMMA StepKeeps ==
  ASSUME IInv, [Next]_vars
  PROVE  IInv'
<1>1. CASE UNCHANGED vars \/ Sequential \/ Collect
  <2>1. UNCHANGED <<outcome, cursor, pc, index, results>>
    BY <1>1 DEF vars, Sequential, Collect
  <2>2. answer'.kind \in {"none", "parsed", "failed", "panicked"}
    BY <1>1 DEF vars, Sequential, Collect, Collected, Parsed, Failed, Panicked, IInv, TypeOK
  <2> QED
    BY <2>1, <2>2 DEF IInv, TypeOK, ClaimsAreExclusive, ResultsAreExclusive,
                      NothingIsLost, StopsAtTheEnd, Holding
<1>2. CASE \E w \in Workers : Worker(w)
  BY <1>2, ClaimKeeps, FetchKeeps, PushKeeps DEF Worker
<1> QED
  BY <1>1, <1>2 DEF Next

(* When the threads have been joined, no file was skipped, parsed twice or  *)
(* lost, for any number of files, any number of threads and any schedule.   *)
THEOREM EveryFileIsParsedOnce == Spec => []EachFileOnce
<1>1. Init => IInv
  BY ParallelParseAssumption
     DEF Init, IInv, TypeOK, ClaimsAreExclusive, ResultsAreExclusive, NothingIsLost,
         StopsAtTheEnd, Holding, Files, Unanswered
<1>2. IInv /\ [Next]_vars => IInv'
  BY StepKeeps
<1>3. IInv => EachFileOnce
  <2> SUFFICES ASSUME IInv, Joined, NEW i \in Files, ~\A w \in Workers : pc[w] = "dead"
               PROVE  \/ \E k \in DOMAIN results :
                           /\ ResultsOf(i) = {k} /\ Holders(i) = {}
                           /\ results[k].parsed = (outcome[i] = "parsed")
                      \/ \E w \in Workers : Holders(i) = {w} /\ ResultsOf(i) = {}
    BY DEF EachFileOnce
  <2>1. \E w \in Workers : pc[w] = "done"
    BY DEF Joined
  <2>2. i < cursor
    BY <2>1, ParallelParseAssumption DEF IInv, StopsAtTheEnd, TypeOK, Files
  <2>3. CASE \E k \in DOMAIN results : results[k].index = i
    <3>1. PICK k \in DOMAIN results : results[k].index = i
      BY <2>3
    <3>2. ResultsOf(i) = {k} /\ Holders(i) = {}
      BY <3>1 DEF IInv, ResultsAreExclusive, ResultsOf, Holders, Holding
    <3> QED
      BY <3>1, <3>2 DEF IInv, ResultsAreExclusive
  <2>4. CASE \E w \in Workers : Holding(w) /\ index[w] = i
    <3>1. PICK w \in Workers : Holding(w) /\ index[w] = i
      BY <2>4
    <3>2. Holders(i) = {w} /\ ResultsOf(i) = {}
      BY <3>1 DEF IInv, ClaimsAreExclusive, ResultsAreExclusive, ResultsOf, Holders, Holding
    <3> QED
      BY <3>2
  <2> QED
    BY <2>2, <2>3, <2>4 DEF IInv, NothingIsLost
<1> QED
  BY <1>1, <1>2, <1>3, PTL DEF Spec

-----------------------------------------------------------------------------
(* The answer.                                                              *)

(* A thread that died held a file whose parser panics; one that pushes, and *)
(* every result, is of a file whose parser does not.                        *)
PanicsKillThreads ==
  /\ \A w \in Workers : pc[w] = "dead" => outcome[index[w]] = "panics"
  /\ \A w \in Workers : pc[w] = "push" => outcome[index[w]] # "panics"
  /\ \A k \in DOMAIN results : outcome[results[k].index] # "panics"

AInv == IInv /\ PanicsKillThreads /\ AnswerIsDeterministic

LEMMA PanicsStep ==
  ASSUME IInv, PanicsKillThreads, [Next]_vars
  PROVE  PanicsKillThreads'
<1> USE DEF PanicsKillThreads, IInv
<1>0. /\ pc \in [Workers -> {"claim", "fetch", "push", "done", "dead"}]
      /\ index \in [Workers -> Nat]
      /\ results \in Seq([index : Files, parsed : BOOLEAN])
  BY DEF TypeOK
<1>1. CASE UNCHANGED vars \/ Sequential \/ Collect
  <2>1. UNCHANGED <<outcome, pc, index, results>>
    BY <1>1 DEF vars, Sequential, Collect
  <2> QED
    BY <2>1
<1>2. ASSUME NEW w \in Workers, Claim(w)
      PROVE  PanicsKillThreads'
  <2>1. /\ UNCHANGED <<outcome, results>>
        /\ \A v \in Workers : v # w => index'[v] = index[v] /\ pc'[v] = pc[v]
        /\ pc'[w] \in {"done", "fetch"}
    BY <1>0, <1>2 DEF Claim
  <2> QED
    BY <2>1
<1>3. ASSUME NEW w \in Workers, Fetch(w)
      PROVE  PanicsKillThreads'
  <2>1. /\ UNCHANGED <<outcome, index, results>>
        /\ \A v \in Workers : v # w => pc'[v] = pc[v]
        /\ pc'[w] = IF outcome[index[w]] = "panics" THEN "dead" ELSE "push"
    BY <1>0, <1>3 DEF Fetch
  <2> QED
    BY <2>1
<1>4. ASSUME NEW w \in Workers, Push(w)
      PROVE  PanicsKillThreads'
  <2>1. /\ UNCHANGED <<outcome, index>>
        /\ \A v \in Workers : v # w => pc'[v] = pc[v]
        /\ pc[w] = "push" /\ pc'[w] = "claim"
    BY <1>0, <1>4 DEF Push
  <2> DEFINE item == [index |-> index[w], parsed |-> outcome[index[w]] = "parsed"]
  <2>2. item \in [index : Files, parsed : BOOLEAN]
    <3>1. index[w] \in Files
      BY <2>1, ParallelParseAssumption DEF ClaimsAreExclusive, Holding, Files, TypeOK
    <3> QED
      BY <3>1
  <2>3. item.index = index[w]
    OBVIOUS
  <2>4. results' = Append(results, item)
    BY <1>4 DEF Push
  <2> HIDE DEF item
  <2>5. \A k \in DOMAIN results' : (k \in DOMAIN results /\ results'[k] = results[k])
                                   \/ results'[k] = item
    BY <1>0, <2>2, <2>4
  <2>6. \A k \in DOMAIN results' : outcome'[results'[k].index] # "panics"
    BY <2>1, <2>3, <2>5
  <2> QED
    BY <2>1, <2>6
<1> QED
  BY <1>1, <1>2, <1>3, <1>4 DEF Next, Worker

(* Items that are about different files are sorted by rearranging them, and *)
(* each is followed by one of a later file.                                 *)
LEMMA SortedRises ==
  ASSUME NEW Item, NEW items \in Seq(Item),
         \A k \in DOMAIN items : items[k].index \in Int,
         \A j, k \in DOMAIN items : items[j].index = items[k].index => j = k
  PROVE  \E place \in Bijection(DOMAIN items, DOMAIN items) :
           /\ Sorted(items) = [k \in DOMAIN items |-> items[place[k]]]
           /\ \A j, k \in DOMAIN items :
                j < k => Sorted(items)[j].index < Sorted(items)[k].index
<1> DEFINE Rises(order) == \A j, k \in DOMAIN items : j < k => order[j].index <= order[k].index
           key == [k \in DOMAIN items |-> items[k].index]
<1>1. PICK n \in Nat : n = Len(items) /\ DOMAIN items = 1..n
  OBVIOUS
<1>2. IsFiniteSet(1..n) /\ Cardinality(1..n) = n
  BY FS_Interval
<1>0. /\ key \in [1..n -> Int] /\ \A j, k \in 1..n : key[j] = key[k] => j = k
      /\ \A k \in 1..n : key[k] = items[k].index
  BY <1>1
<1> HIDE DEF key
<1> DEFINE before == {pair \in (1..n) \X (1..n) : key[pair[1]] < key[pair[2]]}
           list == InOrder(1..n, before)
<1>3. \A j, k \in 1..n : <<j, k>> \in before <=> key[j] < key[k]
  OBVIOUS
<1>4. IsOrderOn(before, 1..n)
  <2> HIDE DEF before
  <2> QED
    BY <1>0, <1>3 DEF IsOrderOn
<1>5. /\ list \in [1..n -> 1..n] /\ Range(list) = 1..n
      /\ \A j, k \in 1..n : j < k => <<list[j], list[k]>> \in before
  <2> HIDE DEF before
  <2> QED
    BY <1>1, <1>2, <1>4, ListedInOrder
<1> HIDE DEF list, before
<1>6. ASSUME NEW j \in 1..n, NEW k \in 1..n, j < k
      PROVE  items[list[j]].index < items[list[k]].index
  <2>1. list[j] \in 1..n /\ list[k] \in 1..n /\ <<list[j], list[k]>> \in before
    BY <1>5, <1>6
  <2>2. key[list[j]] < key[list[k]]
    BY <1>3, <2>1
  <2> QED
    BY <1>0, <2>1, <2>2
<1>7. list \in Bijection(DOMAIN items, DOMAIN items)
  <2>1. \A j, k \in 1..n : list[j] = list[k] => j = k
    <3> SUFFICES ASSUME NEW j \in 1..n, NEW k \in 1..n, j < k
                 PROVE  list[j] # list[k]
      OBVIOUS
    <3>1. items[list[j]].index < items[list[k]].index
      BY <1>6
    <3>2. items[list[k]].index \in Int
      BY <1>1, <1>5
    <3> QED
      BY <3>1, <3>2
  <2>2. \A m \in 1..n : \E k \in 1..n : list[k] = m
    BY <1>5 DEF Range
  <2> QED
    BY <1>1, <1>5, <2>1, <2>2 DEF Bijection, Injection, Surjection, IsInjective
<1>8. \E order \in Orders(items) : Rises(order)
  <2> DEFINE order == [k \in DOMAIN items |-> items[list[k]]]
  <2>1. order \in Orders(items)
    BY <1>7 DEF Orders
  <2>2. Rises(order)
    <3> SUFFICES ASSUME NEW j \in 1..n, NEW k \in 1..n, j < k
                 PROVE  items[list[j]].index <= items[list[k]].index
      BY <1>1
    <3>1. items[list[j]].index < items[list[k]].index
      BY <1>6
    <3>2. items[list[j]].index \in Int /\ items[list[k]].index \in Int
      BY <1>1, <1>5
    <3> QED
      BY <3>1, <3>2
  <2> QED
    BY <2>1, <2>2
<1>9. Sorted(items) \in Orders(items) /\ Rises(Sorted(items))
  <2> HIDE DEF Rises
  <2>1. Sorted(items) = CHOOSE order \in Orders(items) : Rises(order)
    BY DEF Sorted, Rises
  <2> QED
    BY <1>8, <2>1
<1>10. PICK place \in Bijection(DOMAIN items, DOMAIN items) :
         Sorted(items) = [k \in DOMAIN items |-> items[place[k]]]
  BY <1>9 DEF Orders
<1>11. /\ place \in [1..n -> 1..n]
       /\ \A j, k \in 1..n : place[j] = place[k] => j = k
  BY <1>1, <1>10 DEF Bijection, Injection, IsInjective
<1>12. ASSUME NEW j \in DOMAIN items, NEW k \in DOMAIN items, j < k
       PROVE  Sorted(items)[j].index < Sorted(items)[k].index
  <2>1. place[j] \in DOMAIN items /\ place[k] \in DOMAIN items /\ place[j] # place[k]
    BY <1>1, <1>11, <1>12
  <2>2. Sorted(items)[j] = items[place[j]] /\ Sorted(items)[k] = items[place[k]]
    BY <1>10
  <2>3. Sorted(items)[j].index # Sorted(items)[k].index
    BY <2>1, <2>2
  <2>4. Sorted(items)[j].index <= Sorted(items)[k].index
    BY <1>9, <1>12
  <2>5. Sorted(items)[j].index \in Int /\ Sorted(items)[k].index \in Int
    BY <2>1, <2>2
  <2> QED
    BY <2>3, <2>4, <2>5
<1> QED
  BY <1>10, <1>12

(* The results in the order of their files: once every file has one, the    *)
(* k-th of them is the one of file k - 1.                                   *)
LEMMA SortedIsFileOrder ==
  ASSUME NEW items \in Seq([index : Files, parsed : BOOLEAN]),
         \A j, k \in DOMAIN items : items[j].index = items[k].index => j = k,
         \A i \in Files : \E k \in DOMAIN items : items[k].index = i
  PROVE  /\ DOMAIN Sorted(items) = 1..Count
         /\ \A k \in 1..Count : \E j \in DOMAIN items :
              Sorted(items)[k] = items[j] /\ items[j].index = k - 1
<1> DEFINE Item == [index : Files, parsed : BOOLEAN]
           n == Len(items)
           at == [k \in 1..n |-> items[k].index]
<1>1. n \in Nat /\ DOMAIN items = 1..n
  OBVIOUS
<1>2. \A k \in 1..n : items[k].index \in Files
  <2>1. items \in Seq(Item)
    OBVIOUS
  <2>2. \A k \in 1..n : items[k] \in Item
    <3> HIDE DEF Item
    <3> QED
      BY <1>1, <2>1
  <2> QED
    BY <2>2
<1>3. n = Count
  <2>1. at \in Bijection(1..n, Files)
    BY <1>1, <1>2 DEF Bijection, Injection, Surjection, IsInjective
  <2>2. IsFiniteSet(1..n) /\ Cardinality(1..n) = n
    BY <1>1, FS_Interval
  <2>3. Cardinality(Files) = Count
    BY ParallelParseAssumption, FS_Interval DEF Files
  <2>4. Cardinality(1..n) = Cardinality(Files)
    <3> HIDE DEF at, n
    <3> QED
      BY <2>1, <2>2, FS_Bijection DEF ExistsBijection
  <2> QED
    BY <2>2, <2>3, <2>4
<1>4. PICK place \in Bijection(DOMAIN items, DOMAIN items) :
        /\ Sorted(items) = [k \in DOMAIN items |-> items[place[k]]]
        /\ \A j, k \in DOMAIN items : j < k => Sorted(items)[j].index < Sorted(items)[k].index
  <2>1. \A k \in DOMAIN items : items[k].index \in Int
    BY <1>1, <1>2, ParallelParseAssumption DEF Files
  <2> QED
    BY <2>1, SortedRises
<1>5. place \in [1..n -> 1..n]
  BY <1>1, <1>4 DEF Bijection, Injection
<1> DEFINE rank == [k \in 1..n |-> items[place[k]].index]
<1>6. rank \in [1..n -> 0..(n - 1)]
  BY <1>2, <1>3, <1>5 DEF Files
<1>7. \A j, k \in 1..n : j < k => rank[j] < rank[k]
  BY <1>1, <1>4
<1>8. \A k \in 1..n : rank[k] = k - 1
  <2>1. n \in Nat /\ \A j, k \in 1..n : j < k => rank[j] < rank[k]
    BY <1>1, <1>7
  <2> HIDE DEF rank, n
  <2> QED
    BY <1>6, <2>1, GrowingIsCounting
<1>9. DOMAIN Sorted(items) = 1..Count
  BY <1>1, <1>3, <1>4
<1>10. \A k \in 1..Count : Sorted(items)[k] = items[place[k]] /\ place[k] \in DOMAIN items
                           /\ items[place[k]].index = k - 1
  BY <1>1, <1>3, <1>4, <1>5, <1>8
<1> QED
  BY <1>9, <1>10

(* The first of some numbers is one of them and below the others.           *)
LEMMA FirstIsSmallest ==
  ASSUME NEW S, S \subseteq Nat, S # {}
  PROVE  First(S) \in S /\ \A n \in S : First(S) <= n
BY SmallestOfNumbers DEF First

(* What the joined threads leave in the vector gives the answer of a single *)
(* thread.                                                                  *)
LEMMA CollectAnswers ==
  ASSUME IInv, PanicsKillThreads, Collect
  PROVE  AnswerIsDeterministic'
<1> USE DEF IInv
<1>0. /\ UNCHANGED <<outcome, results>>
      /\ answer' = IF \E w \in Workers : pc[w] = "dead" THEN Panicked ELSE Collected(Sorted(results))
  BY DEF Collect
<1> DEFINE panics == {i \in Files : outcome[i] = "panics"}
<1>1. CASE \E w \in Workers : pc[w] = "dead"
  <2>1. PICK w \in Workers : pc[w] = "dead"
    BY <1>1
  <2>2. index[w] \in panics
    BY <2>1, ParallelParseAssumption
       DEF PanicsKillThreads, ClaimsAreExclusive, Holding, Files, TypeOK
  <2> QED
    BY <1>0, <1>1, <2>2 DEF AnswerIsDeterministic
<1>2. CASE ~\E w \in Workers : pc[w] = "dead"
  <2>1. \A w \in Workers : pc[w] = "done"
    BY <1>2 DEF Collect, Joined
  <2>2. cursor >= Count
    <3>1. 1 \in Workers
      BY ParallelParseAssumption DEF Workers, NumWorkers
    <3> QED
      BY <2>1, <3>1 DEF StopsAtTheEnd
  <2>3. \A i \in Files : \E k \in DOMAIN results : results[k].index = i
    <3>1. \A w \in Workers : ~Holding(w)
      BY <2>1 DEF Holding
    <3>2. \A i \in Files : i < cursor
      <4>1. cursor \in Nat
        BY DEF TypeOK
      <4> QED
        BY <2>2, <4>1, ParallelParseAssumption DEF Files
    <3> QED
      BY <3>1, <3>2 DEF NothingIsLost
  <2>4. /\ DOMAIN Sorted(results) = 1..Count
        /\ \A k \in 1..Count : \E j \in DOMAIN results :
             Sorted(results)[k] = results[j] /\ results[j].index = k - 1
    BY <2>3, SortedIsFileOrder DEF TypeOK, ResultsAreExclusive
  <2> DEFINE sorted == Sorted(results)
             failed == {k \in DOMAIN sorted : ~sorted[k].parsed}
  <2>5. \A k \in 1..Count : /\ sorted[k].index = k - 1
                            /\ sorted[k].parsed = (outcome[k - 1] = "parsed")
    BY <2>4 DEF ResultsAreExclusive
  <2>6. panics = {}
    BY <2>3 DEF PanicsKillThreads
  <2>7. failed = {k \in 1..Count : k - 1 \in Trouble}
    <3>1. \A k \in 1..Count : k - 1 \in Files
      BY ParallelParseAssumption DEF Files
    <3>2. \A k \in 1..Count : ~sorted[k].parsed <=> k - 1 \in Trouble
      BY <2>5, <3>1 DEF Trouble
    <3> HIDE DEF sorted
    <3>3. DOMAIN sorted = 1..Count
      BY <2>4 DEF sorted
    <3> QED
      BY <3>2, <3>3
  <2>8. answer' = Collected(sorted)
    BY <1>0, <1>2
  <2> HIDE DEF sorted
  <2>9. CASE Trouble = {}
    <3>1. failed = {}
      BY <2>7, <2>9
    <3>2. Collected(sorted) = Parsed([k \in 1..Count |-> sorted[k].index])
      BY <2>4, <3>1 DEF Collected, sorted
    <3>3. [k \in 1..Count |-> sorted[k].index] = [k \in 1..Count |-> k - 1]
      BY <2>5
    <3> QED
      BY <1>0, <2>6, <2>8, <2>9, <3>2, <3>3 DEF AnswerIsDeterministic, Trouble
  <2>10. CASE Trouble # {}
    <3>1. Trouble \subseteq Nat /\ First(Trouble) \in Trouble /\ \A i \in Trouble : First(Trouble) <= i
      <4>1. Trouble \subseteq Nat
        BY ParallelParseAssumption DEF Trouble, Files
      <4> QED
        BY <2>10, <4>1, FirstIsSmallest
    <3>2. First(Trouble) + 1 \in failed
      BY <2>7, <3>1, ParallelParseAssumption DEF Trouble, Files
    <3>3. failed \subseteq Nat /\ failed # {}
      BY <2>7, <3>2, ParallelParseAssumption
    <3> HIDE DEF failed
    <3>4. First(failed) \in failed /\ \A k \in failed : First(failed) <= k
      BY <3>3, FirstIsSmallest
    <3>5. First(failed) - 1 = First(Trouble)
      <4>1. First(failed) \in Nat /\ First(Trouble) \in Nat
        BY <3>1, <3>3, <3>4
      <4>2. First(failed) <= First(Trouble) + 1
        BY <3>2, <3>4
      <4>3. First(Trouble) <= First(failed) - 1
        <5>1. First(failed) - 1 \in Trouble
          BY <2>7, <3>4
        <5> QED
          BY <3>1, <5>1
      <4> QED
        BY <4>1, <4>2, <4>3
    <3>6. Collected(sorted) = Failed(sorted[First(failed)].index)
      BY <3>3 DEF Collected, failed
    <3>7. sorted[First(failed)].index = First(Trouble)
      BY <2>5, <2>7, <3>4, <3>5
    <3> QED
      BY <1>0, <2>6, <2>8, <2>10, <3>6, <3>7 DEF AnswerIsDeterministic, Trouble
  <2> QED
    BY <2>9, <2>10
<1> QED
  BY <1>1, <1>2

(* One thread alone gives the answer that all the others are measured by.   *)
LEMMA SequentialAnswers ==
  ASSUME Sequential
  PROVE  AnswerIsDeterministic'
<1>1. {i \in Files : outcome[i] = "panics"} = {} => Trouble = {} \/ outcome[First(Trouble)] # "panics"
  <2>1. Trouble # {} => First(Trouble) \in Trouble
    <3>1. Trouble \subseteq Nat
      BY ParallelParseAssumption DEF Trouble, Files
    <3> QED
      BY <3>1, FirstIsSmallest
  <2> QED
    BY <2>1 DEF Trouble
<1>2. {i \in Files : outcome[i] = "panics"} # {} => Trouble # {}
  BY DEF Trouble
<1> QED
  BY <1>1, <1>2 DEF Sequential, AnswerIsDeterministic, Trouble

(* The answer is the one of a single thread, for every number of files and  *)
(* of cores, every schedule, and every way files fail: parsed sources come  *)
(* in file order, the first failure is the one reported, and nothing that   *)
(* leaves out a file whose parser panicked is returned.                     *)
THEOREM AnswersDoNotDependOnTheSchedule == Spec => []AnswerIsDeterministic
<1>1. Init => AInv
  BY ParallelParseAssumption
     DEF Init, AInv, IInv, TypeOK, ClaimsAreExclusive, ResultsAreExclusive, NothingIsLost,
         StopsAtTheEnd, Holding, Files, Unanswered, PanicsKillThreads, AnswerIsDeterministic
<1>2. AInv /\ [Next]_vars => AInv'
  <2> SUFFICES ASSUME AInv, [Next]_vars
               PROVE  AnswerIsDeterministic'
    BY StepKeeps, PanicsStep DEF AInv
  <2>1. CASE UNCHANGED vars \/ \E w \in Workers : Worker(w)
    <3>1. UNCHANGED <<outcome, answer>>
      BY <2>1 DEF vars, Worker, Claim, Fetch, Push
    <3> QED
      BY <3>1 DEF AInv, AnswerIsDeterministic, Trouble
  <2> QED
    BY <2>1, CollectAnswers, SequentialAnswers DEF Next, AInv
<1> QED
  BY <1>1, <1>2, PTL DEF Spec, AInv

-----------------------------------------------------------------------------
(* The one-pass build *)

(* What a visitor can hand on about a file. *)
Result == [index : Visited, source : Seq(Visited \X Nat), parsed : BOOLEAN]

(* The files a list has results of, and that it has one of each. *)
Of(list) == {list[k].index : k \in DOMAIN list}
NoneTwice(list) == \A j, k \in DOMAIN list : list[j].index = list[k].index => j = k

(* A result of a selected file that was parsed from its own bytes. *)
IsOwn(item) ==
  /\ status[item.index] # "skipped"
  /\ item.source = Content(item.index)
  /\ item.parsed = (status[item.index] = "parsed")

AllOwn(list) == \A k \in DOMAIN list : IsOwn(list[k])

ScanTypes ==
  /\ status \in [Visited -> {"parsed", "failed", "skipped"}]
  /\ length \in [Visited -> 0..MaxChunks]
  /\ next \in 1..(Scanned + 1)
  /\ file \in [Visitors -> 0..Scanned]
  /\ sent \in [Visitors -> Nat]
  /\ bytes \in [Visitors -> Seq(Visited \X Nat)]
  /\ batch \in [Visitors -> Seq(Result)]
  /\ dropped \subseteq Visitors
  /\ sink \in Seq(Result)

(* A visitor is in a file of its own and has that file's bytes in its       *)
(* buffer, and no others.                                                   *)
BuffersAreOwn ==
  /\ \A v \in Visitors : file[v] # 0 =>
       /\ file[v] < next /\ sent[v] <= length[file[v]]
       /\ bytes[v] = [k \in 1..sent[v] |-> <<file[v], k>>]
  /\ \A v, w \in Visitors : file[v] # 0 /\ file[v] = file[w] => v = w

(* Every result is its file's own. *)
ResultsAreOwn == AllOwn(sink) /\ \A v \in Visitors : AllOwn(batch[v])

(* No file has two results, nor one while a visitor is still in it. *)
ResultsAreApart ==
  /\ NoneTwice(sink)
  /\ \A f \in Of(sink) : f < next
  /\ \A v \in Visitors :
       /\ NoneTwice(batch[v])
       /\ \A f \in Of(batch[v]) : f < next /\ f \notin Of(sink)
       /\ file[v] \notin Of(sink)
       /\ \A w \in Visitors :
            /\ file[v] \notin Of(batch[w])
            /\ v # w => Of(batch[v]) \cap Of(batch[w]) = {}

(* Every selected file given out is somewhere. *)
NothingIsLeftOut ==
  \A f \in Visited : f < next /\ status[f] # "skipped" =>
    f \in Of(sink) \/ \E v \in Visitors : f = file[v] \/ f \in Of(batch[v])

(* A visitor is dropped when the files have run out, with nothing in hand.  *)
DroppedAreDone ==
  \A v \in dropped : next > Scanned /\ file[v] = 0 /\ batch[v] = <<>>

BInv ==
  /\ ScanTypes /\ BuffersAreOwn /\ ResultsAreOwn /\ ResultsAreApart
  /\ NothingIsLeftOut /\ DroppedAreDone

(* A list has results of files only. *)
LEMMA OfIsVisited ==
  ASSUME NEW list \in Seq(Result)
  PROVE  Of(list) \subseteq Visited
<1>1. \A k \in DOMAIN list : list[k] \in Result
  OBVIOUS
<1> QED
  BY <1>1 DEF Of, Result

(* A list with one more result. *)
LEMMA OneMore ==
  ASSUME NEW list \in Seq(Result), NEW item \in Result
  PROVE  /\ Of(Append(list, item)) = Of(list) \cup {item.index}
         /\ NoneTwice(list) /\ item.index \notin Of(list) => NoneTwice(Append(list, item))
         /\ AllOwn(list) /\ IsOwn(item) => AllOwn(Append(list, item))
<1> DEFINE more == Append(list, item)
<1>1. /\ DOMAIN more = DOMAIN list \cup {Len(list) + 1}
      /\ Len(list) + 1 \notin DOMAIN list
      /\ more[Len(list) + 1] = item
      /\ \A k \in DOMAIN list : more[k] = list[k]
  OBVIOUS
<1> HIDE DEF more
<1>2. Of(more) = Of(list) \cup {item.index}
  BY <1>1 DEF Of
<1>3. NoneTwice(list) /\ item.index \notin Of(list) => NoneTwice(more)
  BY <1>1 DEF NoneTwice, Of
<1>4. AllOwn(list) /\ IsOwn(item) => AllOwn(more)
  <2> SUFFICES ASSUME AllOwn(list), IsOwn(item), NEW k \in DOMAIN more
               PROVE  IsOwn(more[k])
    BY DEF AllOwn
  <2>1. CASE k \in DOMAIN list
    BY <1>1, <2>1 DEF AllOwn
  <2> QED
    BY <1>1, <2>1
<1> QED
  BY <1>2, <1>3, <1>4 DEF more

(* Two lists put together. *)
LEMMA BothLists ==
  ASSUME NEW first \in Seq(Result), NEW second \in Seq(Result)
  PROVE  /\ Of(first \o second) = Of(first) \cup Of(second)
         /\ NoneTwice(first) /\ NoneTwice(second) /\ Of(first) \cap Of(second) = {}
              => NoneTwice(first \o second)
         /\ AllOwn(first) /\ AllOwn(second) => AllOwn(first \o second)
<1> DEFINE both == first \o second
<1>1. PICK m \in Nat, n \in Nat :
        m = Len(first) /\ DOMAIN first = 1..m /\ n = Len(second) /\ DOMAIN second = 1..n
  OBVIOUS
<1>2. /\ DOMAIN both = 1..(m + n)
      /\ \A k \in 1..m : both[k] = first[k]
      /\ \A k \in 1..n : both[m + k] = second[k]
  BY <1>1
<1>3. \A k \in DOMAIN both : k \in 1..m \/ (k - m \in 1..n /\ k = m + (k - m))
  BY <1>2
<1>4. 1..m \subseteq 1..(m + n) /\ \A k \in 1..n : m + k \in 1..(m + n)
  OBVIOUS
<1> HIDE DEF both
<1>5. \A k \in DOMAIN both :
        \/ k \in DOMAIN first /\ both[k] = first[k]
        \/ k - m \in DOMAIN second /\ both[k] = second[k - m]
  BY <1>1, <1>2, <1>3
<1>6. Of(both) = Of(first) \cup Of(second)
  <2>1. Of(both) \subseteq Of(first) \cup Of(second)
    BY <1>5 DEF Of
  <2>2. Of(first) \subseteq Of(both)
    BY <1>1, <1>2, <1>4 DEF Of
  <2>3. Of(second) \subseteq Of(both)
    BY <1>1, <1>2, <1>4 DEF Of
  <2> QED
    BY <2>1, <2>2, <2>3
<1>7. ASSUME NoneTwice(first), NoneTwice(second), Of(first) \cap Of(second) = {},
             NEW j \in DOMAIN both, NEW k \in DOMAIN both, both[j].index = both[k].index
      PROVE  j = k
  <2>1. j \in Int /\ k \in Int
    BY <1>2
  <2>2. CASE j \in DOMAIN first /\ both[j] = first[j]
    <3>1. CASE k \in DOMAIN first /\ both[k] = first[k]
      BY <1>7, <2>2, <3>1 DEF NoneTwice
    <3>2. CASE k - m \in DOMAIN second /\ both[k] = second[k - m]
      BY <1>7, <2>2, <3>2 DEF Of
    <3> QED
      BY <1>5, <3>1, <3>2
  <2>3. CASE j - m \in DOMAIN second /\ both[j] = second[j - m]
    <3>1. CASE k \in DOMAIN first /\ both[k] = first[k]
      BY <1>7, <2>3, <3>1 DEF Of
    <3>2. CASE k - m \in DOMAIN second /\ both[k] = second[k - m]
      <4>1. j - m = k - m
        BY <1>7, <2>3, <3>2 DEF NoneTwice
      <4> QED
        BY <2>1, <4>1
    <3> QED
      BY <1>5, <3>1, <3>2
  <2> QED
    BY <1>5, <2>2, <2>3
<1>8. AllOwn(first) /\ AllOwn(second) => AllOwn(both)
  <2> SUFFICES ASSUME AllOwn(first), AllOwn(second), NEW k \in DOMAIN both
               PROVE  IsOwn(both[k])
    BY DEF AllOwn
  <2>1. CASE k \in DOMAIN first /\ both[k] = first[k]
    BY <2>1 DEF AllOwn
  <2>2. CASE k - m \in DOMAIN second /\ both[k] = second[k - m]
    BY <2>2 DEF AllOwn
  <2> QED
    BY <1>5, <2>1, <2>2
<1> QED
  BY <1>6, <1>7, <1>8 DEF both, NoneTwice

(* The file a visitor is in. *)
LEMMA InHand ==
  ASSUME BInv, NEW v \in Visitors, file[v] # 0
  PROVE  /\ file[v] \in Visited /\ file[v] < next
         /\ sent[v] \in Nat /\ length[file[v]] \in Nat
<1>1. /\ file[v] \in 0..Scanned /\ sent[v] \in Nat /\ length \in [Visited -> 0..MaxChunks]
  BY DEF BInv, ScanTypes
<1>2. file[v] \in Visited
  BY <1>1 DEF Visited
<1>3. length[file[v]] \in 0..MaxChunks /\ MaxChunks \in Nat
  BY <1>1, <1>2, OnePassAssumption
<1>4. file[v] < next
  BY DEF BInv, BuffersAreOwn
<1>5. length[file[v]] \in Nat
  BY <1>3
<1> QED
  BY <1>1, <1>2, <1>4, <1>5

LEMMA ZeroIsNoFile ==
  ASSUME BInv
  PROVE  0 \notin Of(sink) /\ \A v \in Visitors : 0 \notin Of(batch[v])
<1>1. sink \in Seq(Result) /\ \A v \in Visitors : batch[v] \in Seq(Result)
  BY DEF BInv, ScanTypes
<1> QED
  BY <1>1, OfIsVisited DEF Visited

(* A visitor that starts a file takes it from nobody and with an empty      *)
(* buffer.                                                                  *)
LEMMA FileStartKeeps ==
  ASSUME BInv, NEW v \in Visitors, FileStart(v)
  PROVE  BInv'
<1> USE OnePassAssumption DEF BInv
<1>1. /\ file \in [Visitors -> 0..Scanned] /\ sent \in [Visitors -> Nat]
      /\ bytes \in [Visitors -> Seq(Visited \X Nat)]
      /\ next \in 1..(Scanned + 1) /\ next <= Scanned /\ Scanned \in Nat
      /\ length \in [Visited -> 0..MaxChunks] /\ MaxChunks \in Nat
      /\ v \notin dropped /\ file[v] = 0
  BY DEF ScanTypes, FileStart, Visiting
<1>2. /\ file' = [file EXCEPT ![v] = next] /\ next' = next + 1
      /\ sent' = [sent EXCEPT ![v] = 0] /\ bytes' = [bytes EXCEPT ![v] = <<>>]
      /\ UNCHANGED <<status, length, batch, dropped, sink>>
  BY DEF FileStart
<1>3. /\ file'[v] = next /\ sent'[v] = 0 /\ bytes'[v] = <<>>
      /\ \A w \in Visitors : w # v =>
           file'[w] = file[w] /\ sent'[w] = sent[w] /\ bytes'[w] = bytes[w]
  BY <1>1, <1>2
<1>4. ScanTypes'
  <2>1. next' \in 1..(Scanned + 1) /\ next \in 0..Scanned
    BY <1>1, <1>2
  <2>2. file' \in [Visitors -> 0..Scanned] /\ sent' \in [Visitors -> Nat]
    BY <1>1, <1>2, <2>1
  <2>3. bytes' \in [Visitors -> Seq(Visited \X Nat)]
    BY <1>1, <1>2
  <2> QED
    BY <1>2, <2>1, <2>2, <2>3 DEF ScanTypes
<1>5. BuffersAreOwn'
  <2>1. next \in Visited /\ length[next] \in Nat
    BY <1>1 DEF Visited
  <2>2. bytes'[v] = [k \in 1..sent'[v] |-> <<file'[v], k>>]
    BY <1>3
  <2>3. file'[v] < next' /\ sent'[v] <= length'[file'[v]]
    BY <1>1, <1>2, <1>3, <2>1
  <2>4. ASSUME NEW w \in Visitors, w # v, file[w] # 0
        PROVE  /\ file'[w] < next' /\ file'[w] # next /\ sent'[w] <= length'[file'[w]]
               /\ bytes'[w] = [k \in 1..sent'[w] |-> <<file'[w], k>>]
    <3>1. file[w] < next /\ sent[w] <= length[file[w]]
          /\ bytes[w] = [k \in 1..sent[w] |-> <<file[w], k>>] /\ file[w] \in Int
      BY <1>1, <2>4 DEF BuffersAreOwn
    <3>2. file'[w] = file[w] /\ sent'[w] = sent[w] /\ bytes'[w] = bytes[w]
      BY <1>3, <2>4
    <3>3. file[w] < next + 1 /\ file[w] # next
      BY <1>1, <3>1
    <3> QED
      BY <1>2, <3>1, <3>2, <3>3
  <2>5. \A w, u \in Visitors : file'[w] # 0 /\ file'[w] = file'[u] => w = u
    <3>1. \A w \in Visitors : w # v => file'[w] = file[w]
      BY <1>3
    <3>2. next # 0
      BY <1>1
    <3>3. \A w \in Visitors : w # v => file'[w] # next
      BY <2>4, <3>1, <3>2
    <3> QED
      BY <1>3, <3>1, <3>3 DEF BuffersAreOwn
  <2> QED
    BY <1>3, <2>2, <2>3, <2>4, <2>5 DEF BuffersAreOwn
<1>6. ResultsAreOwn'
  <2>1. \A r : IsOwn(r)' <=> IsOwn(r)
    BY <1>2 DEF IsOwn, Content
  <2>2. AllOwn(sink)' /\ \A w \in Visitors : AllOwn(batch[w])'
    BY <1>2, <2>1 DEF ResultsAreOwn, AllOwn
  <2> QED
    BY <2>2 DEF ResultsAreOwn
<1>7. ResultsAreApart'
  <2>1. next \notin Of(sink) /\ \A w \in Visitors : next \notin Of(batch[w])
    BY <1>1 DEF ResultsAreApart
  <2>2. \A f \in Of(sink) : f < next'
    <3> SUFFICES ASSUME NEW f \in Of(sink)
                 PROVE  f < next'
      OBVIOUS
    <3>1. f \in Visited
      BY <1>1, OfIsVisited DEF ScanTypes
    <3> QED
      BY <1>1, <1>2, <3>1 DEF ResultsAreApart, Visited
  <2>3. ASSUME NEW w \in Visitors, NEW f \in Of(batch[w])
        PROVE  f < next'
    <3>1. f \in Visited
      BY <1>1, OfIsVisited DEF ScanTypes
    <3> QED
      BY <1>1, <1>2, <3>1 DEF ResultsAreApart, Visited
  <2>4. \A w \in Visitors : file'[w] \notin Of(sink) /\ \A u \in Visitors : file'[w] \notin Of(batch[u])
    BY <1>3, <2>1 DEF ResultsAreApart
  <2>5. Of(sink)' = Of(sink) /\ NoneTwice(sink)' = NoneTwice(sink)
    BY <1>2 DEF Of, NoneTwice
  <2>6. \A w \in Visitors : Of(batch[w])' = Of(batch[w]) /\ NoneTwice(batch[w])' = NoneTwice(batch[w])
    BY <1>2 DEF Of, NoneTwice
  <2> QED
    BY <2>2, <2>3, <2>4, <2>5, <2>6 DEF ResultsAreApart
<1>8. NothingIsLeftOut'
  <2> SUFFICES ASSUME NEW f \in Visited, f < next', status[f] # "skipped"
               PROVE  f \in Of(sink) \/ \E w \in Visitors : f = file'[w] \/ f \in Of(batch[w])
    BY <1>2 DEF NothingIsLeftOut, Of
  <2>1. CASE f = next
    BY <1>3, <2>1
  <2>2. CASE f # next
    <3>1. f < next /\ f # 0
      BY <1>1, <1>2, <2>2 DEF Visited
    <3>2. f \in Of(sink) \/ \E w \in Visitors : f = file[w] \/ f \in Of(batch[w])
      BY <3>1 DEF NothingIsLeftOut
    <3> QED
      BY <1>1, <1>3, <3>1, <3>2
  <2> QED
    BY <2>1, <2>2
<1>9. DroppedAreDone'
  <2>1. \A w \in dropped : ~(next > Scanned) => FALSE
    BY DEF DroppedAreDone
  <2> QED
    BY <1>1, <1>2, <2>1 DEF DroppedAreDone
<1> QED
  BY <1>4, <1>5, <1>6, <1>7, <1>8, <1>9

(* A chunk goes to the end of the visitor's own buffer. *)
LEMMA ChunkKeeps ==
  ASSUME BInv, NEW v \in Visitors, Chunk(v)
  PROVE  BInv'
<1> USE OnePassAssumption DEF BInv
<1>1. /\ file \in [Visitors -> 0..Scanned] /\ sent \in [Visitors -> Nat]
      /\ bytes \in [Visitors -> Seq(Visited \X Nat)]
      /\ file[v] # 0 /\ sent[v] < length[file[v]]
      /\ file[v] \in Visited /\ sent[v] \in Nat /\ length[file[v]] \in Nat
      /\ file[v] < next
  <2>1. file[v] # 0 /\ sent[v] < length[file[v]]
    BY DEF Chunk
  <2> QED
    BY <2>1, InHand DEF ScanTypes
<1>2. /\ sent' = [sent EXCEPT ![v] = sent[v] + 1]
      /\ bytes' = [bytes EXCEPT ![v] = Append(bytes[v], <<file[v], sent[v] + 1>>)]
      /\ UNCHANGED <<status, length, next, file, batch, dropped, sink>>
  BY DEF Chunk
<1>3. ScanTypes'
  <2>1. <<file[v], sent[v] + 1>> \in Visited \X Nat
    BY <1>1
  <2>2. Append(bytes[v], <<file[v], sent[v] + 1>>) \in Seq(Visited \X Nat)
    BY <1>1, <2>1
  <2>3. bytes' \in [Visitors -> Seq(Visited \X Nat)] /\ sent' \in [Visitors -> Nat]
    BY <1>1, <1>2, <2>2
  <2> QED
    BY <1>2, <2>3 DEF ScanTypes
<1>4. bytes'[v] = [k \in 1..sent'[v] |-> <<file[v], k>>]
  <2>1. bytes[v] = [k \in 1..sent[v] |-> <<file[v], k>>]
    BY <1>1 DEF BuffersAreOwn
  <2>2. sent'[v] = sent[v] + 1 /\ bytes'[v] = Append(bytes[v], <<file[v], sent[v] + 1>>)
    BY <1>1, <1>2
  <2>3. PICK n \in Nat, f \in Visited : n = sent[v] /\ f = file[v]
    BY <1>1
  <2>4. Append([k \in 1..n |-> <<f, k>>], <<f, n + 1>>) = [k \in 1..(n + 1) |-> <<f, k>>]
    OBVIOUS
  <2> QED
    BY <2>1, <2>2, <2>3, <2>4
<1>5. BuffersAreOwn'
  <2>1. sent'[v] <= length'[file'[v]]
    BY <1>1, <1>2
  <2>2. \A w \in Visitors : w # v => sent'[w] = sent[w] /\ bytes'[w] = bytes[w]
    BY <1>1, <1>2
  <2>3. file' = file /\ next' = next /\ length' = length
    BY <1>2
  <2> QED
    BY <1>1, <1>4, <2>1, <2>2, <2>3 DEF BuffersAreOwn
<1>6. ResultsAreOwn'
  <2>1. \A r : IsOwn(r)' <=> IsOwn(r)
    BY <1>2 DEF IsOwn, Content
  <2>2. AllOwn(sink)' /\ \A w \in Visitors : AllOwn(batch[w])'
    BY <1>2, <2>1 DEF ResultsAreOwn, AllOwn
  <2> QED
    BY <2>2 DEF ResultsAreOwn
<1>7. ResultsAreApart'
  <2>1. Of(sink)' = Of(sink) /\ NoneTwice(sink)' = NoneTwice(sink)
    BY <1>2 DEF Of, NoneTwice
  <2>2. \A w \in Visitors : Of(batch[w])' = Of(batch[w]) /\ NoneTwice(batch[w])' = NoneTwice(batch[w])
    BY <1>2 DEF Of, NoneTwice
  <2> QED
    BY <1>2, <2>1, <2>2 DEF ResultsAreApart
<1>8. NothingIsLeftOut' /\ DroppedAreDone'
  BY <1>2 DEF NothingIsLeftOut, DroppedAreDone, Of
<1> QED
  BY <1>3, <1>5, <1>6, <1>7, <1>8

(* A selected file that ends goes from the visitor's hands into its batch.  *)
LEMMA FileEndSelectedKeeps ==
  ASSUME BInv, NEW v \in Visitors, FileEndSelected(v)
  PROVE  BInv'
<1> USE OnePassAssumption DEF BInv
<1> DEFINE item == [index |-> file[v], source |-> bytes[v],
                    parsed |-> status[file[v]] = "parsed"]
<1>1. /\ file \in [Visitors -> 0..Scanned] /\ sent \in [Visitors -> Nat]
      /\ bytes \in [Visitors -> Seq(Visited \X Nat)]
      /\ batch \in [Visitors -> Seq(Result)]
      /\ file[v] # 0 /\ file[v] \in Visited /\ file[v] < next
      /\ sent[v] = length[file[v]] /\ status[file[v]] # "skipped"
      /\ v \notin dropped /\ dropped \subseteq Visitors
  <2>1. file[v] # 0 /\ sent[v] = length[file[v]] /\ status[file[v]] # "skipped" /\ v \notin dropped
    BY DEF FileEndSelected, Visiting
  <2> QED
    BY <2>1, InHand DEF ScanTypes
<1>2. /\ batch' = [batch EXCEPT ![v] = Append(batch[v], item)]
      /\ file' = [file EXCEPT ![v] = 0]
      /\ UNCHANGED <<status, length, next, sent, bytes, dropped, sink>>
  BY DEF FileEndSelected
<1>3. item \in Result /\ item.index = file[v] /\ IsOwn(item)
  <2>1. bytes[v] = [k \in 1..sent[v] |-> <<file[v], k>>]
    BY <1>1 DEF BuffersAreOwn
  <2>2. bytes[v] = Content(file[v])
    BY <1>1, <2>1 DEF Content
  <2> QED
    BY <1>1, <2>2 DEF Result, IsOwn
<1> HIDE DEF item
<1>4. /\ batch'[v] = Append(batch[v], item) /\ file'[v] = 0
      /\ \A w \in Visitors : w # v => batch'[w] = batch[w] /\ file'[w] = file[w]
  BY <1>1, <1>2
<1>5. file[v] \notin Of(batch[v]) /\ batch[v] \in Seq(Result)
  BY <1>1 DEF ResultsAreApart
<1>6. /\ Of(Append(batch[v], item)) = Of(batch[v]) \cup {file[v]}
      /\ NoneTwice(Append(batch[v], item))
      /\ AllOwn(Append(batch[v], item))
  BY <1>3, <1>5, OneMore DEF ResultsAreApart, ResultsAreOwn
<1>7. /\ Of(batch'[v]) = Of(batch[v]) \cup {file[v]}
      /\ \A w \in Visitors : w # v => Of(batch'[w]) = Of(batch[w])
      /\ \A w \in Visitors : NoneTwice(batch'[w]) /\ AllOwn(batch'[w])
  BY <1>4, <1>6 DEF ResultsAreApart, ResultsAreOwn
<1>8. ScanTypes'
  <2>1. Append(batch[v], item) \in Seq(Result)
    BY <1>3, <1>5
  <2>2. batch' \in [Visitors -> Seq(Result)] /\ file' \in [Visitors -> 0..Scanned]
    BY <1>1, <1>2, <2>1
  <2> QED
    BY <1>2, <2>2 DEF ScanTypes
<1>9. BuffersAreOwn'
  BY <1>2, <1>4 DEF BuffersAreOwn
<1>10. ResultsAreOwn'
  <2>1. \A r : IsOwn(r)' <=> IsOwn(r)
    BY <1>2 DEF IsOwn, Content
  <2>2. AllOwn(sink)'
    BY <1>2, <2>1 DEF ResultsAreOwn, AllOwn
  <2>3. \A w \in Visitors : AllOwn(batch[w])'
    BY <1>7, <2>1 DEF AllOwn
  <2> QED
    BY <2>2, <2>3 DEF ResultsAreOwn
<1>11. ResultsAreApart'
  <2>1. /\ NoneTwice(sink) /\ \A f \in Of(sink) : f < next
        /\ \A w \in Visitors : /\ file[w] \notin Of(sink)
                               /\ \A f \in Of(batch[w]) : f < next /\ f \notin Of(sink)
    BY DEF ResultsAreApart
  <2>2. ASSUME NEW w \in Visitors
        PROVE  \A f \in Of(batch'[w]) : f < next /\ f \notin Of(sink)
    BY <1>1, <1>7, <2>1
  <2>3. 0 \notin Of(sink) /\ \A w \in Visitors : 0 \notin Of(batch'[w])
    <3>1. 0 \notin Visited
      BY DEF Visited
    <3>2. sink \in Seq(Result) /\ \A w \in Visitors : batch'[w] \in Seq(Result)
      BY <1>8, <1>2 DEF ScanTypes
    <3> QED
      BY <3>1, <3>2, OfIsVisited
  <2>4. ASSUME NEW w \in Visitors, NEW u \in Visitors
        PROVE  file'[w] \notin Of(batch'[u])
    <3>1. CASE w = v
      BY <1>4, <2>3, <3>1
    <3>2. CASE w # v
      <4>1. file[w] \notin Of(batch[u]) /\ file'[w] = file[w]
        BY <1>4, <3>2 DEF ResultsAreApart
      <4>2. file[w] # file[v]
        BY <1>1, <3>2 DEF BuffersAreOwn
      <4> QED
        BY <1>7, <4>1, <4>2
    <3> QED
      BY <3>1, <3>2
  <2>5. ASSUME NEW w \in Visitors, NEW u \in Visitors, w # u
        PROVE  Of(batch'[w]) \cap Of(batch'[u]) = {}
    <3>1. Of(batch[w]) \cap Of(batch[u]) = {} /\ file[v] \notin Of(batch[w]) /\ file[v] \notin Of(batch[u])
      BY <2>5 DEF ResultsAreApart
    <3> QED
      BY <1>7, <2>5, <3>1
  <2>6. \A w \in Visitors : file'[w] \notin Of(sink)
    BY <1>4, <2>1, <2>3
  <2>7. Of(sink)' = Of(sink) /\ NoneTwice(sink)' = NoneTwice(sink) /\ next' = next
    BY <1>2 DEF Of, NoneTwice
  <2>8. \A w \in Visitors : Of(batch[w])' = Of(batch'[w]) /\ NoneTwice(batch[w])' = NoneTwice(batch'[w])
    BY DEF Of, NoneTwice
  <2> QED
    BY <1>7, <2>1, <2>2, <2>4, <2>5, <2>6, <2>7, <2>8 DEF ResultsAreApart
<1>12. NothingIsLeftOut'
  <2> SUFFICES ASSUME NEW f \in Visited, f < next, status[f] # "skipped"
               PROVE  f \in Of(sink) \/ \E w \in Visitors : f = file'[w] \/ f \in Of(batch'[w])
    BY <1>2 DEF NothingIsLeftOut, Of
  <2>1. f \in Of(sink) \/ \E w \in Visitors : f = file[w] \/ f \in Of(batch[w])
    BY DEF NothingIsLeftOut
  <2> QED
    BY <1>4, <1>7, <2>1
<1>13. DroppedAreDone'
  BY <1>1, <1>2, <1>4 DEF DroppedAreDone
<1> QED
  BY <1>8, <1>9, <1>10, <1>11, <1>12, <1>13

(* A file that is not selected after all is let go. *)
LEMMA FileEndSkippedKeeps ==
  ASSUME BInv, NEW v \in Visitors, FileEndSkipped(v)
  PROVE  BInv'
<1> USE OnePassAssumption DEF BInv
<1>1. /\ file \in [Visitors -> 0..Scanned] /\ bytes \in [Visitors -> Seq(Visited \X Nat)]
      /\ status[file[v]] = "skipped" /\ 0 \in 0..Scanned
      /\ v \notin dropped /\ dropped \subseteq Visitors
  BY DEF ScanTypes, FileEndSkipped, Visiting
<1>2. /\ bytes' = [bytes EXCEPT ![v] = <<>>] /\ file' = [file EXCEPT ![v] = 0]
      /\ UNCHANGED <<status, length, next, sent, batch, dropped, sink>>
  BY DEF FileEndSkipped
<1>3. /\ file'[v] = 0
      /\ \A w \in Visitors : w # v => file'[w] = file[w] /\ bytes'[w] = bytes[w]
  BY <1>1, <1>2
<1>4. ScanTypes'
  <2>1. bytes' \in [Visitors -> Seq(Visited \X Nat)] /\ file' \in [Visitors -> 0..Scanned]
    BY <1>1, <1>2
  <2> QED
    BY <1>2, <2>1 DEF ScanTypes
<1>5. BuffersAreOwn'
  BY <1>2, <1>3 DEF BuffersAreOwn
<1>6. ResultsAreOwn'
  <2>1. \A r : IsOwn(r)' <=> IsOwn(r)
    BY <1>2 DEF IsOwn, Content
  <2>2. AllOwn(sink)' /\ \A w \in Visitors : AllOwn(batch[w])'
    BY <1>2, <2>1 DEF ResultsAreOwn, AllOwn
  <2> QED
    BY <2>2 DEF ResultsAreOwn
<1>7. ResultsAreApart'
  <2>1. Of(sink)' = Of(sink) /\ NoneTwice(sink)' = NoneTwice(sink)
    BY <1>2 DEF Of, NoneTwice
  <2>2. \A w \in Visitors : Of(batch[w])' = Of(batch[w]) /\ NoneTwice(batch[w])' = NoneTwice(batch[w])
    BY <1>2 DEF Of, NoneTwice
  <2>3. 0 \notin Of(sink) /\ \A w \in Visitors : 0 \notin Of(batch[w])
    BY ZeroIsNoFile
  <2>4. \A w \in Visitors : file'[w] \in {0, file[w]}
    BY <1>3
  <2>5. \A w \in Visitors : file'[w] \notin Of(sink) /\ \A u \in Visitors : file'[w] \notin Of(batch[u])
    BY <2>3, <2>4 DEF ResultsAreApart
  <2> QED
    BY <1>2, <2>1, <2>2, <2>5 DEF ResultsAreApart
<1>8. NothingIsLeftOut'
  <2> SUFFICES ASSUME NEW f \in Visited, f < next, status[f] # "skipped"
               PROVE  f \in Of(sink) \/ \E w \in Visitors : f = file'[w] \/ f \in Of(batch[w])
    BY <1>2 DEF NothingIsLeftOut, Of
  <2>1. f \in Of(sink) \/ \E w \in Visitors : f = file[w] \/ f \in Of(batch[w])
    BY DEF NothingIsLeftOut
  <2> QED
    BY <1>1, <1>3, <2>1
<1>9. DroppedAreDone'
  BY <1>1, <1>2, <1>3 DEF DroppedAreDone
<1> QED
  BY <1>4, <1>5, <1>6, <1>7, <1>8, <1>9

(* A dropped visitor's batch goes to the shared list. *)
LEMMA DropKeeps ==
  ASSUME BInv, NEW v \in Visitors, DropVisitor(v)
  PROVE  BInv'
<1> USE OnePassAssumption DEF BInv
<1>1. /\ batch \in [Visitors -> Seq(Result)] /\ sink \in Seq(Result) /\ dropped \subseteq Visitors
      /\ file[v] = 0 /\ next > Scanned
  BY DEF ScanTypes, DropVisitor
<1>2. /\ dropped' = dropped \cup {v} /\ sink' = sink \o batch[v]
      /\ batch' = [batch EXCEPT ![v] = <<>>]
      /\ UNCHANGED <<status, length, next, file, sent, bytes>>
  BY DEF DropVisitor
<1>3. batch[v] \in Seq(Result) /\ batch'[v] = <<>> /\ \A w \in Visitors : w # v => batch'[w] = batch[w]
  BY <1>1, <1>2
<1>4. Of(<<>>) = {} /\ NoneTwice(<<>>) /\ AllOwn(<<>>)
  BY DEF Of, NoneTwice, AllOwn
<1>5. /\ NoneTwice(sink) /\ AllOwn(sink)
      /\ \A w \in Visitors : NoneTwice(batch[w]) /\ AllOwn(batch[w]) /\ Of(batch[w]) \cap Of(sink) = {}
  BY DEF ResultsAreApart, ResultsAreOwn
<1>6. Of(sink') = Of(sink) \cup Of(batch[v]) /\ NoneTwice(sink') /\ AllOwn(sink')
  BY <1>1, <1>2, <1>3, <1>5, BothLists
<1>7. /\ Of(batch'[v]) = {} /\ \A w \in Visitors : w # v => Of(batch'[w]) = Of(batch[w])
      /\ \A w \in Visitors : NoneTwice(batch'[w]) /\ AllOwn(batch'[w])
  BY <1>3, <1>4, <1>5
<1>8. ScanTypes'
  <2>1. <<>> \in Seq(Result) /\ sink \o batch[v] \in Seq(Result)
    BY <1>1, <1>3
  <2>2. batch' \in [Visitors -> Seq(Result)]
    BY <1>1, <1>2, <2>1
  <2> QED
    BY <1>1, <1>2, <2>1, <2>2 DEF ScanTypes
<1>9. BuffersAreOwn'
  BY <1>2 DEF BuffersAreOwn
<1>10. ResultsAreOwn'
  <2>1. \A r : IsOwn(r)' <=> IsOwn(r)
    BY <1>2 DEF IsOwn, Content
  <2>2. AllOwn(sink)'
    BY <1>2, <1>6, <2>1 DEF AllOwn
  <2>3. \A w \in Visitors : AllOwn(batch'[w])
    BY <1>7
  <2>4. \A w \in Visitors : AllOwn(batch[w])'
    BY <2>1, <2>3 DEF AllOwn
  <2> QED
    BY <2>2, <2>4 DEF ResultsAreOwn
<1>11. ResultsAreApart'
  <2>1. \A f \in Of(sink') : f < next
    BY <1>6 DEF ResultsAreApart
  <2>2. ASSUME NEW w \in Visitors
        PROVE  \A f \in Of(batch'[w]) : f < next /\ f \notin Of(sink')
    <3>1. CASE w = v
      BY <1>7, <3>1
    <3>2. CASE w # v
      BY <1>6, <1>7, <3>2 DEF ResultsAreApart
    <3> QED
      BY <3>1, <3>2
  <2>3. ASSUME NEW w \in Visitors, NEW u \in Visitors
        PROVE  /\ file[w] \notin Of(sink') /\ file[w] \notin Of(batch'[u])
               /\ w # u => Of(batch'[w]) \cap Of(batch'[u]) = {}
    <3>1. /\ file[w] \notin Of(sink) /\ file[w] \notin Of(batch[v]) /\ file[w] \notin Of(batch[u])
          /\ w # u => Of(batch[w]) \cap Of(batch[u]) = {}
      BY DEF ResultsAreApart
    <3> QED
      BY <1>6, <1>7, <3>1
  <2>4. Of(sink)' = Of(sink') /\ NoneTwice(sink)' = NoneTwice(sink')
    BY DEF Of, NoneTwice
  <2>5. \A w \in Visitors : Of(batch[w])' = Of(batch'[w]) /\ NoneTwice(batch[w])' = NoneTwice(batch'[w])
    BY DEF Of, NoneTwice
  <2> QED
    BY <1>2, <1>6, <1>7, <2>1, <2>2, <2>3, <2>4, <2>5 DEF ResultsAreApart
<1>12. NothingIsLeftOut'
  <2> SUFFICES ASSUME NEW f \in Visited, f < next, status[f] # "skipped"
               PROVE  f \in Of(sink') \/ \E w \in Visitors : f = file[w] \/ f \in Of(batch'[w])
    BY <1>2 DEF NothingIsLeftOut, Of
  <2>1. f \in Of(sink) \/ \E w \in Visitors : f = file[w] \/ f \in Of(batch[w])
    BY DEF NothingIsLeftOut
  <2> QED
    BY <1>6, <1>7, <2>1
<1>13. DroppedAreDone'
  BY <1>1, <1>2, <1>3 DEF DroppedAreDone
<1> QED
  BY <1>8, <1>9, <1>10, <1>11, <1>12, <1>13

LEMMA BuildStepKeeps == BInv /\ [BuildNext]_scan => BInv'
<1> SUFFICES ASSUME BInv, [BuildNext]_scan
             PROVE  BInv'
  OBVIOUS
<1>1. CASE FailScan \/ CollectBuild \/ UNCHANGED scan
  <2>1. UNCHANGED <<status, length, next, file, sent, bytes, batch, dropped, sink>>
    BY <1>1 DEF FailScan, CollectBuild, scan
  <2>2. ScanTypes' /\ BuffersAreOwn' /\ DroppedAreDone'
    BY <2>1 DEF BInv, ScanTypes, BuffersAreOwn, DroppedAreDone
  <2>3. ResultsAreOwn' /\ NothingIsLeftOut'
    BY <2>1 DEF BInv, ResultsAreOwn, AllOwn, IsOwn, Content, NothingIsLeftOut, Of
  <2>4. ResultsAreApart'
    <3>1. Of(sink)' = Of(sink) /\ NoneTwice(sink)' = NoneTwice(sink)
      BY <2>1 DEF Of, NoneTwice
    <3>2. \A w \in Visitors : Of(batch[w])' = Of(batch[w]) /\ NoneTwice(batch[w])' = NoneTwice(batch[w])
      BY <2>1 DEF Of, NoneTwice
    <3> QED
      BY <2>1, <3>1, <3>2 DEF BInv, ResultsAreApart
  <2> QED
    BY <2>2, <2>3, <2>4 DEF BInv
<1> QED
  BY <1>1, FileStartKeeps, ChunkKeeps, FileEndSelectedKeeps, FileEndSkippedKeeps, DropKeeps
     DEF BuildNext, Visitor

(* What the dropped visitors leave in the shared list is the answer that    *)
(* the scan order gives.                                                    *)
LEMMA CollectBuildAnswers ==
  ASSUME BInv, CollectBuild
  PROVE  BuildIsDeterministic'
<1> USE OnePassAssumption
<1> DEFINE selected == {f \in Visited : status[f] # "skipped"}
           failed == {f \in Visited : status[f] = "failed"}
           list == Sorted(sink)
           bad == {k \in DOMAIN list : ~list[k].parsed}
<1>1. /\ dropped = Visitors /\ built' = CollectedSources(list)
      /\ status' = status /\ length' = length
  BY DEF CollectBuild
<1>2. sink \in Seq(Result) /\ next \in 1..(Scanned + 1)
  BY DEF BInv, ScanTypes
<1>3. /\ next > Scanned
      /\ \A v \in Visitors : file[v] = 0 /\ Of(batch[v]) = {}
  <2>1. \A v \in Visitors : next > Scanned /\ file[v] = 0 /\ batch[v] = <<>>
    BY <1>1 DEF BInv, DroppedAreDone
  <2> QED
    BY <2>1 DEF Of
<1>4. PICK n \in Nat : n = Len(sink) /\ DOMAIN sink = 1..n
  BY <1>2
<1>5. \A k \in 1..n : sink[k] \in Result /\ sink[k].index \in Visited
  <2>1. \A k \in 1..n : sink[k] \in Result
    BY <1>2, <1>4
  <2> QED
    BY <2>1 DEF Result
<1>6. \A j, k \in 1..n : sink[j].index = sink[k].index => j = k
  BY <1>4 DEF BInv, ResultsAreApart, NoneTwice
<1>7. \A k \in 1..n : IsOwn(sink[k])
  BY <1>4 DEF BInv, ResultsAreOwn, AllOwn
<1>8. \A k \in 1..n : sink[k].index \in selected
  BY <1>5, <1>7 DEF IsOwn
<1>9. \A f \in selected : \E k \in 1..n : sink[k].index = f
  <2> SUFFICES ASSUME NEW f \in Visited, status[f] # "skipped"
               PROVE  \E k \in 1..n : sink[k].index = f
    OBVIOUS
  <2>1. f < next /\ f # 0
    BY <1>2, <1>3 DEF Visited
  <2>2. f \in Of(sink)
    BY <1>3, <2>1 DEF BInv, NothingIsLeftOut
  <2> QED
    BY <1>4, <2>2 DEF Of
<1> HIDE DEF list
<1>10. PICK place \in Bijection(1..n, 1..n) :
         /\ list = [k \in 1..n |-> sink[place[k]]]
         /\ \A j, k \in 1..n : j < k => list[j].index < list[k].index
  <2>1. \A k \in DOMAIN sink : sink[k].index \in Int
    BY <1>4, <1>5 DEF Visited
  <2>2. \A j, k \in DOMAIN sink : sink[j].index = sink[k].index => j = k
    BY <1>4, <1>6
  <2>3. \E place \in Bijection(DOMAIN sink, DOMAIN sink) :
          /\ list = [k \in DOMAIN sink |-> sink[place[k]]]
          /\ \A j, k \in DOMAIN sink : j < k => list[j].index < list[k].index
    BY <1>2, <2>1, <2>2, SortedRises DEF list
  <2> HIDE DEF bad, selected, failed
  <2> QED
    BY <1>4, <2>3
<1>11. place \in [1..n -> 1..n] /\ \A j \in 1..n : \E k \in 1..n : place[k] = j
  BY <1>10 DEF Bijection, Injection, Surjection
<1>12. \A k \in 1..n : list[k] = sink[place[k]] /\ place[k] \in 1..n
  BY <1>10, <1>11
<1>13. /\ \A k \in 1..n : list[k].index \in selected /\ IsOwn(list[k])
       /\ \A f \in selected : \E k \in 1..n : list[k].index = f
  <2>1. \A k \in 1..n : list[k].index \in selected /\ IsOwn(list[k])
    BY <1>7, <1>8, <1>12
  <2>2. ASSUME NEW f \in selected
        PROVE  \E k \in 1..n : list[k].index = f
    <3>1. PICK j \in 1..n : sink[j].index = f
      BY <1>9
    <3>2. PICK k \in 1..n : place[k] = j
      BY <1>11
    <3> QED
      BY <1>12, <3>1, <3>2
  <2> QED
    BY <2>1, <2>2
<1>14. DOMAIN list = 1..n
  BY <1>10
<1>15. Cardinality(selected) = n
  <2> DEFINE at == [k \in 1..n |-> sink[k].index]
  <2>1. at \in Bijection(1..n, selected)
    BY <1>6, <1>8, <1>9 DEF Bijection, Injection, Surjection, IsInjective
  <2>2. IsFiniteSet(1..n) /\ Cardinality(1..n) = n
    BY FS_Interval
  <2> HIDE DEF at, selected
  <2>3. Cardinality(1..n) = Cardinality(selected)
    BY <2>1, <2>2, FS_Bijection DEF ExistsBijection
  <2> QED
    BY <2>2, <2>3
<1>16. \A k \in 1..n : k \in bad <=> list[k].index \in failed
  <2> TAKE k \in 1..n
  <2>1. list[k].index \in Visited /\ list[k].parsed = (status[list[k].index] = "parsed")
        /\ status[list[k].index] # "skipped"
    BY <1>13 DEF IsOwn
  <2>2. status[list[k].index] \in {"parsed", "failed", "skipped"}
    BY <2>1 DEF BInv, ScanTypes
  <2> QED
    BY <1>14, <2>1, <2>2
<1>17. bad \subseteq 1..n /\ failed \subseteq selected
  BY <1>14
<1>18. CASE failed = {}
  <2>1. bad = {}
    BY <1>16, <1>17, <1>18
  <2> DEFINE order == [k \in 1..n |-> [index |-> list[k].index, source |-> list[k].source]]
  <2>2. built' = Parsed(order)
    BY <1>1, <1>14, <2>1 DEF CollectedSources
  <2>3. Len(order) = n /\ DOMAIN order = 1..n
    OBVIOUS
  <2>4. ASSUME NEW k \in 1..n
        PROVE  /\ order[k].index \in selected
               /\ order[k].source = Content(order[k].index)
               /\ k > 1 => order[k - 1].index < order[k].index
    <3>1. order[k].index = list[k].index /\ order[k].source = list[k].source
      OBVIOUS
    <3>2. list[k].index \in selected /\ list[k].source = Content(list[k].index)
      BY <1>13 DEF IsOwn
    <3>3. k > 1 => k - 1 \in 1..n /\ order[k - 1].index = list[k - 1].index
                   /\ list[k - 1].index < list[k].index
      BY <1>10
    <3> QED
      BY <3>1, <3>2, <3>3
  <2> HIDE DEF order
  <2>5. built'.kind = "parsed" /\ built'.order = order
    BY <2>2 DEF Parsed
  <2> QED
    BY <1>1, <1>15, <1>18, <2>3, <2>4, <2>5 DEF BuildIsDeterministic, Content
<1>19. CASE failed # {}
  <2>1. First(failed) \in failed /\ \A f \in failed : First(failed) <= f
    <3>1. failed \subseteq Nat
      BY DEF Visited
    <3> QED
      BY <1>19, <3>1, FirstIsSmallest
  <2>2. PICK m \in 1..n : list[m].index = First(failed)
    BY <1>13, <1>17, <2>1
  <2>3. m \in bad
    BY <1>16, <2>1, <2>2
  <2>4. First(bad) \in bad /\ \A k \in bad : First(bad) <= k
    <3>1. bad \subseteq Nat /\ bad # {}
      BY <1>17, <2>3
    <3> QED
      BY <3>1, FirstIsSmallest
  <2>5. First(bad) = m
    <3>1. First(bad) \in 1..n /\ First(bad) <= m /\ list[First(bad)].index \in failed
      BY <1>16, <1>17, <2>3, <2>4
    <3>2. First(failed) <= list[First(bad)].index
      BY <2>1, <3>1
    <3>3. First(bad) < m => list[First(bad)].index < list[m].index
      BY <1>10, <3>1
    <3>4. list[First(bad)].index \in Int /\ list[m].index \in Int
      BY <2>1, <2>2, <3>1 DEF Visited
    <3> QED
      BY <2>2, <3>1, <3>2, <3>3, <3>4
  <2>6. built' = Failed(list[First(bad)].index)
    BY <1>1, <2>3 DEF CollectedSources
  <2>7. built' = Failed(First(failed))
    BY <2>2, <2>5, <2>6
  <2> QED
    BY <1>1, <1>19, <2>7 DEF BuildIsDeterministic
<1> QED
  BY <1>18, <1>19

(* The one-pass build goes on with all the selected files in scan order,    *)
(* each parsed from its own bytes, or with the error of the first one that  *)
(* failed: for every number of files and scanner threads, whichever visitor *)
(* gets which file, and in whichever order the visitors are dropped.        *)
THEOREM BuildsDoNotDependOnTheScan == BuildSpec => []BuildIsDeterministic
<1>1. BuildInit => BInv /\ BuildIsDeterministic
  <2> SUFFICES ASSUME BuildInit
               PROVE  BInv /\ BuildIsDeterministic
    OBVIOUS
  <2> USE OnePassAssumption DEF BuildInit
  <2>1. ScanTypes
    BY DEF ScanTypes
  <2>2. Of(<<>>) = {} /\ NoneTwice(<<>>) /\ AllOwn(<<>>)
    BY DEF Of, NoneTwice, AllOwn
  <2>3. sink = <<>> /\ next = 1 /\ dropped = {}
        /\ \A v \in Visitors : batch[v] = <<>> /\ file[v] = 0
    OBVIOUS
  <2>4. ResultsAreOwn /\ ResultsAreApart
    BY <2>2, <2>3 DEF ResultsAreOwn, ResultsAreApart
  <2>5. BuffersAreOwn /\ DroppedAreDone
    BY <2>3 DEF BuffersAreOwn, DroppedAreDone
  <2>6. NothingIsLeftOut
    BY <2>3 DEF NothingIsLeftOut, Visited
  <2>7. BuildIsDeterministic
    BY DEF BuildIsDeterministic, Unanswered
  <2> QED
    BY <2>1, <2>4, <2>5, <2>6, <2>7 DEF BInv
<1>2. BInv /\ BuildIsDeterministic /\ [BuildNext]_scan => BInv' /\ BuildIsDeterministic'
  <2> SUFFICES ASSUME BInv, BuildIsDeterministic, [BuildNext]_scan
               PROVE  BuildIsDeterministic'
    BY BuildStepKeeps
  <2>1. CASE UNCHANGED scan \/ \E v \in Visitors : Visitor(v)
    <3>1. UNCHANGED <<status, length, built>>
      BY <2>1 DEF scan, Visitor, FileStart, Chunk, FileEndSelected, FileEndSkipped, DropVisitor
    <3> QED
      BY <3>1 DEF BuildIsDeterministic, Content
  <2>2. CASE FailScan
    BY <2>2 DEF FailScan, ScanFailed, BuildIsDeterministic
  <2> QED
    BY <2>1, <2>2, CollectBuildAnswers DEF BuildNext
<1> QED
  BY <1>1, <1>2, PTL DEF BuildSpec

-----------------------------------------------------------------------------
(* The prefixes of mounted routers, for every list of mounts.               *)

Path == Seq(STRING)
NoRepeat(list) == \A j, k \in DOMAIN list : list[j] = list[k] => j = k

Loops == [found : Seq(Path), over : BOOLEAN]

(* What one step of the loop over the prefixes of a parent does. *)
LEMMA WithPrefixTells ==
  ASSUME NEW loop \in Loops, NEW path \in Path,
         NoRepeat(loop.found), loop.over => Len(loop.found) >= MaxPrefixes
  PROVE  LET resumed == WithPrefix(loop, path)
         IN  /\ resumed \in Loops /\ NoRepeat(resumed.found)
             /\ resumed.over => Len(resumed.found) >= MaxPrefixes
             /\ Range(loop.found) \subseteq Range(resumed.found)
             /\ Range(resumed.found) \subseteq Range(loop.found) \cup {path}
             /\ ~resumed.over => ~loop.over /\ path \in Range(resumed.found)
<1> DEFINE list == loop.found
           more == Append(list, path)
<1>1. list \in Seq(Path) /\ loop.over \in BOOLEAN
  BY DEF Loops
<1> HIDE DEF list
<1>2. /\ more \in Seq(Path) /\ DOMAIN list \subseteq DOMAIN more
      /\ Len(list) + 1 \in DOMAIN more /\ more[Len(list) + 1] = path
      /\ \A k \in DOMAIN list : more[k] = list[k]
      /\ \A k \in DOMAIN more : k \in DOMAIN list \/ k = Len(list) + 1
      /\ Len(more) \in Nat
  BY <1>1
<1>3. /\ Range(list) \subseteq Range(more) /\ Range(more) \subseteq Range(list) \cup {path}
      /\ path \in Range(more)
  <2> HIDE DEF more
  <2> QED
    BY <1>2 DEF Range
<1>4. ASSUME path \notin Range(list)
      PROVE  NoRepeat(more)
  <2> HIDE DEF more
  <2>1. \A j, k \in DOMAIN list : list[j] = list[k] => j = k
    BY DEF NoRepeat, list
  <2>2. \A k \in DOMAIN list : list[k] # path
    BY <1>4 DEF Range
  <2> QED
    BY <1>2, <2>1, <2>2 DEF NoRepeat
<1>5. CASE loop.over
  BY <1>5 DEF WithPrefix
<1>6. CASE ~loop.over /\ path \in Range(list)
  <2>1. WithPrefix(loop, path) = [found |-> list, over |-> Len(list) >= MaxPrefixes]
    BY <1>6 DEF WithPrefix, list
  <2> QED
    BY <1>1, <1>6, <2>1 DEF Loops, list
<1>7. CASE ~loop.over /\ path \notin Range(list)
  <2>1. WithPrefix(loop, path) = [found |-> more, over |-> Len(more) >= MaxPrefixes]
    BY <1>7 DEF WithPrefix, list
  <2> HIDE DEF more
  <2>2. NoRepeat(more)
    BY <1>4, <1>7
  <2>3. WithPrefix(loop, path).found = more /\ WithPrefix(loop, path).over = (Len(more) >= MaxPrefixes)
    BY <2>1
  <2>4. WithPrefix(loop, path) \in Loops
    BY <1>2, <2>1 DEF Loops
  <2> QED
    BY <1>3, <1>7, <2>2, <2>3, <2>4 DEF list
<1> QED
  BY <1>5, <1>6, <1>7

(* What a list and the prefixes of a parent become: the list goes first and *)
(* has nothing twice, what is new is one of the joined prefixes, and either *)
(* all of them are there or the limit is reached.                           *)
LEMMA ExtendedTells ==
  ASSUME MountsAssumption, NEW list \in Seq(Path), NoRepeat(list),
         NEW bases \in Seq(Path), NEW at \in Path
  PROVE  LET resumed == Extended(list, bases, at)
         IN  /\ resumed \in Seq(Path) /\ NoRepeat(resumed)
             /\ Range(list) \subseteq Range(resumed)
             /\ \A path \in Range(resumed) :
                  path \in Range(list) \/ \E base \in Range(bases) : path = JoinPaths(base, at)
             /\ \/ Len(resumed) >= MaxPrefixes
                \/ \A base \in Range(bases) : JoinPaths(base, at) \in Range(resumed)
<1> DEFINE n == Len(bases)
           S == Loops
           start == [found |-> list, over |-> FALSE]
           F == [k \in 1..n |-> [s \in S |-> WithPrefix(s, JoinPaths(bases[k], at))]]
           Body(f) == [k \in 0..n |->
             IF k = 0 THEN [found |-> list, over |-> FALSE] ELSE WithPrefix(f[k - 1], JoinPaths(bases[k], at))]
           A == CHOOSE f : f = Body(f)
<1>1. Extended(list, bases, at) = A[n].found
  BY DEF Extended
<1>2. /\ n \in Nat /\ DOMAIN bases = 1..n
      /\ \A k \in 1..n : bases[k] \in Path
  OBVIOUS
<1>3. ASSUME NEW base \in Path
      PROVE  JoinPaths(base, at) \in Path
  BY DEF JoinPaths, Path
<1>4. start \in S
  BY DEF Loops
<1>5. MaxPrefixes \in Nat
  BY DEF MountsAssumption
<1>6. ASSUME NEW s \in S, NEW path \in Path
      PROVE  WithPrefix(s, path) \in S
  <2>1. s.found \in Seq(Path) /\ s.over \in BOOLEAN
    BY DEF Loops
  <2>2. Append(s.found, path) \in Seq(Path)
    BY <2>1
  <2> QED
    BY <2>1, <2>2 DEF Loops, WithPrefix
<1> HIDE DEF S, n
<1>7. F \in [1..n -> [S -> S]] /\ \A k \in 1..n : \A s \in S : F[k][s] = WithPrefix(s, JoinPaths(bases[k], at))
  BY <1>2, <1>3, <1>6
<1>8. PICK c : IsIndexedIteration(c, n, S, start, F)
  <2> HIDE DEF F, start
  <2> QED
    BY <1>2, <1>4, <1>7, IndexedIterationExists
<1> HIDE DEF start
<1>9. /\ c \in [0..n -> S] /\ c[0] = start
      /\ \A k \in 1..n : c[k] = WithPrefix(c[k - 1], JoinPaths(bases[k], at))
  <2> HIDE DEF F
  <2>1. ASSUME NEW k \in 1..n
        PROVE  c[k - 1] \in S /\ c[k] = F[k][c[k - 1]]
    <3>1. k - 1 \in 0..n
      BY <1>2
    <3> QED
      BY <1>8, <3>1 DEF IsIndexedIteration
  <2> QED
    BY <1>7, <1>8, <2>1 DEF IsIndexedIteration
<1> HIDE DEF F
<1>10. c = Body(c)
  <2>1. \A k \in 0..n : k = 0 \/ k \in 1..n
    BY <1>2
  <2>2. \A k \in 0..n : c[k] = IF k = 0 THEN start ELSE WithPrefix(c[k - 1], JoinPaths(bases[k], at))
    BY <1>2, <1>9, <2>1
  <2> QED
    BY <1>9, <2>2 DEF start
<1>11. A = Body(A)
  <2> HIDE DEF Body
  <2> QED
    BY <1>10
<1> HIDE DEF A
<1>12. A[0] = start /\ \A k \in 1..n : A[k] = WithPrefix(A[k - 1], JoinPaths(bases[k], at))
  <2>1. \A k \in 0..n : A[k] = Body(A)[k]
    <3> HIDE DEF Body
    <3> QED
      BY <1>11
  <2>2. 0 \in 0..n /\ \A k \in 1..n : k \in 0..n /\ k # 0
    BY <1>2
  <2> QED
    BY <2>1, <2>2 DEF start
<1> DEFINE Has(k) ==
      /\ A[k] \in Loops /\ NoRepeat(A[k].found)
      /\ A[k].over => Len(A[k].found) >= MaxPrefixes
      /\ Range(list) \subseteq Range(A[k].found)
      /\ \A path \in Range(A[k].found) :
           path \in Range(list) \/ \E base \in Range(bases) : path = JoinPaths(base, at)
      /\ ~A[k].over => \A j \in 1..k : JoinPaths(bases[j], at) \in Range(A[k].found)
    T == {k \in 0..n : Has(k)}
<1>13. 0 \in T
  BY <1>2, <1>4, <1>12 DEF start, S
<1>14. ASSUME NEW k \in 0..n, k < n, Has(k)
      PROVE  Has(k + 1)
  <2>1. k + 1 \in 1..n /\ k + 1 - 1 = k
    BY <1>2, <1>14
  <2> DEFINE path == JoinPaths(bases[k + 1], at)
  <2>2. A[k + 1] = WithPrefix(A[k], path)
    BY <1>12, <2>1
  <2>3. path \in Path /\ bases[k + 1] \in Range(bases)
    BY <1>2, <1>3, <2>1 DEF Range
  <2>4. /\ A[k + 1] \in Loops /\ NoRepeat(A[k + 1].found)
        /\ A[k + 1].over => Len(A[k + 1].found) >= MaxPrefixes
        /\ Range(A[k].found) \subseteq Range(A[k + 1].found)
        /\ Range(A[k + 1].found) \subseteq Range(A[k].found) \cup {path}
        /\ ~A[k + 1].over => ~A[k].over /\ path \in Range(A[k + 1].found)
    <3> DEFINE loop == A[k]
    <3>1. loop \in Loops /\ NoRepeat(loop.found) /\ (loop.over => Len(loop.found) >= MaxPrefixes)
      BY <1>14
    <3> HIDE DEF path, loop
    <3>2. LET resumed == WithPrefix(loop, path)
          IN  /\ resumed \in Loops /\ NoRepeat(resumed.found)
              /\ resumed.over => Len(resumed.found) >= MaxPrefixes
              /\ Range(loop.found) \subseteq Range(resumed.found)
              /\ Range(resumed.found) \subseteq Range(loop.found) \cup {path}
              /\ ~resumed.over => ~loop.over /\ path \in Range(resumed.found)
      BY <2>3, <3>1, WithPrefixTells
    <3> QED
      BY <2>2, <3>2 DEF loop
  <2>5. \A p \in Range(A[k + 1].found) :
          p \in Range(list) \/ \E base \in Range(bases) : p = JoinPaths(base, at)
    BY <1>14, <2>3, <2>4
  <2>6. ASSUME ~A[k + 1].over, NEW j \in 1..(k + 1)
        PROVE  JoinPaths(bases[j], at) \in Range(A[k + 1].found)
    <3>1. j = k + 1 \/ j \in 1..k
      OBVIOUS
    <3> QED
      BY <1>14, <2>4, <2>6, <3>1
  <2> QED
    BY <1>14, <2>4, <2>5, <2>6
<1> HIDE DEF Has
<1>15. Has(n)
  <2>1. \A k \in 0..n : k < n /\ k \in T => k + 1 \in T
    <3> SUFFICES ASSUME NEW k \in 0..n, k < n, k \in T
                 PROVE  k + 1 \in T
      OBVIOUS
    <3>1. k + 1 \in 0..n
      BY <1>2
    <3> QED
      BY <1>14, <3>1
  <2>2. n \in 0..n
    BY <1>2
  <2> HIDE DEF T
  <2>3. \A k \in 0..n : k \in T
    BY <1>2, <1>13, <2>1, BoundedInduction
  <2> QED
    BY <2>2, <2>3 DEF T
<1>16. \A base \in Range(bases) : \E j \in 1..n : base = bases[j]
  BY <1>2 DEF Range
<1> QED
  BY <1>1, <1>15, <1>16 DEF Has, Loops

(* What the mounts of a file are. *)
LEMMA IncomingTells ==
  ASSUME MountsAssumption, mounts \in Seq(Mount), NEW router
  PROVE  /\ Incoming(router) \subseteq Nat /\ Incoming(router) \subseteq DOMAIN mounts
         /\ \A k \in Incoming(router) :
              /\ mounts[k] \in Mount /\ mounts[k] \in Range(mounts)
              /\ mounts[k].parent \in Routers /\ mounts[k].at \in Path
              /\ mounts[k].file = router /\ mounts[k].parent # router
              /\ mounts[k].parent \in ParentsOf(router)
         /\ ParentsOf(router) \subseteq Routers
<1>1. DOMAIN mounts \subseteq Nat /\ \A k \in DOMAIN mounts : mounts[k] \in Mount
  OBVIOUS
<1>2. \A m \in Mount : m.parent \in Routers /\ m.at \in Path
  BY DEF Mount, Path
<1> QED
  BY <1>1, <1>2 DEF Incoming, ParentsOf, Range

(* The mount that is followed next is one of those left. *)
LEMMA LowestTells ==
  ASSUME NEW numbers \in SUBSET Nat, numbers # {}
  PROVE  Lowest(numbers) \in numbers
<1>1. \E k \in numbers : \A j \in numbers : k <= j
  BY SmallestOfNumbers
<1> QED
  BY <1>1 DEF Lowest

(* The files above a file are closed, and above what is above it.           *)
LEMMA AboveTells ==
  ASSUME MountsAssumption, mounts \in Seq(Mount), NEW router
  PROVE  /\ Above(router) \subseteq Routers
         /\ ParentsOf(router) \subseteq Above(router)
         /\ \A g \in Above(router) : ParentsOf(g) \subseteq Above(router) /\ Above(g) \subseteq Above(router)
<1>1. Above(router) \subseteq Routers
  BY DEF Above
<1>2. \A f : ParentsOf(f) \subseteq Routers
  BY IncomingTells
<1>3. ParentsOf(router) \subseteq Above(router)
  BY <1>2 DEF Above
<1>4. ASSUME NEW g \in Above(router)
      PROVE  ParentsOf(g) \subseteq Above(router)
  <2> SUFFICES ASSUME NEW h \in ParentsOf(g), NEW files \in SUBSET Routers,
                      ParentsOf(router) \subseteq files, \A f \in files : ParentsOf(f) \subseteq files
               PROVE  h \in files
    BY <1>2 DEF Above
  <2>1. g \in files
    BY <1>4 DEF Above
  <2> QED
    BY <2>1
<1>5. ASSUME NEW g \in Above(router), NEW h \in Above(g)
      PROVE  h \in Above(router)
  <2>1. ParentsOf(g) \subseteq Above(router) /\ \A f \in Above(router) : ParentsOf(f) \subseteq Above(router)
    BY <1>4
  <2> QED
    BY <1>1, <1>5, <2>1 DEF Above
<1> QED
  BY <1>1, <1>3, <1>4, <1>5

-----------------------------------------------------------------------------
(* The URL of a way, from the top down.                                     *)
UrlPart(a, way) ==
  /\ a \in [0..Len(way) -> Path] /\ a[0] = <<>>
  /\ \A k \in 1..Len(way) : a[k] = JoinPaths(a[k - 1], way[k].at)
  /\ Url(way) = a[Len(way)]

(* The recursive function of Url, unfolded. *)
LEMMA UrlUnfolds ==
  ASSUME NEW way \in Seq(Mount)
  PROVE  \E a : UrlPart(a, way)
<1> DEFINE n == Len(way)
           F == [k \in 1..n |-> [p \in Path |-> JoinPaths(p, way[k].at)]]
           start == <<>>
           Body(f) == [k \in 0..n |-> IF k = 0 THEN <<>> ELSE JoinPaths(f[k - 1], way[k].at)]
           A == CHOOSE f : f = Body(f)
<1>1. Url(way) = A[n]
  BY DEF Url
<1>2. n \in Nat /\ \A k \in 1..n : way[k].at \in Path
  <2>1. n \in Nat /\ \A k \in 1..n : way[k] \in Mount
    OBVIOUS
  <2>2. \A m \in Mount : m.at \in Path
    BY DEF Mount, Path
  <2> QED
    BY <2>1, <2>2
<1>3. start \in Path /\ \A p, q \in Path : JoinPaths(p, q) \in Path
  BY DEF Path, JoinPaths
<1> HIDE DEF n, start
<1>4. F \in [1..n -> [Path -> Path]] /\ \A k \in 1..n : \A p \in Path : F[k][p] = JoinPaths(p, way[k].at)
  BY <1>2, <1>3
<1>5. PICK c : IsIndexedIteration(c, n, Path, start, F)
  <2> HIDE DEF F
  <2> QED
    BY <1>2, <1>3, <1>4, IndexedIterationExists
<1>6. c \in [0..n -> Path] /\ c[0] = start /\ \A k \in 1..n : c[k] = JoinPaths(c[k - 1], way[k].at)
  <2> HIDE DEF F
  <2>1. ASSUME NEW k \in 1..n
        PROVE  c[k - 1] \in Path /\ c[k] = F[k][c[k - 1]]
    <3>1. k - 1 \in 0..n
      BY <1>2
    <3> QED
      BY <1>5, <3>1 DEF IsIndexedIteration
  <2> QED
    BY <1>4, <1>5, <2>1 DEF IsIndexedIteration
<1> HIDE DEF F
<1>7. c = Body(c)
  <2>1. \A k \in 0..n : k = 0 \/ k \in 1..n
    BY <1>2
  <2>2. \A k \in 0..n : c[k] = IF k = 0 THEN start ELSE JoinPaths(c[k - 1], way[k].at)
    BY <1>2, <1>6, <2>1
  <2> QED
    BY <1>6, <2>2 DEF start
<1>8. A = Body(A)
  <2> HIDE DEF Body
  <2> QED
    BY <1>7
<1> HIDE DEF A
<1>9. A[0] = <<>> /\ \A k \in 1..n : A[k] = JoinPaths(A[k - 1], way[k].at)
  <2>1. \A k \in 0..n : A[k] = Body(A)[k]
    <3> HIDE DEF Body
    <3> QED
      BY <1>8
  <2>2. 0 \in 0..n /\ \A k \in 1..n : k \in 0..n /\ k # 0
    BY <1>2
  <2> QED
    BY <2>1, <2>2
<1>10. A \in [0..n -> Path]
  <2> DEFINE T == {k \in 0..n : A[k] \in Path}
  <2>1. 0 \in T
    BY <1>2, <1>3, <1>9 DEF start
  <2>2. ASSUME NEW k \in 0..n, k < n, k \in T
        PROVE  k + 1 \in T
    <3>1. k + 1 \in 1..n /\ k + 1 - 1 = k /\ k + 1 \in 0..n
      BY <1>2, <2>2
    <3>2. A[k + 1] = JoinPaths(A[k], way[k + 1].at)
      BY <1>9, <3>1
    <3> QED
      BY <1>2, <1>3, <2>2, <3>1, <3>2
  <2> HIDE DEF T
  <2>3. \A k \in 0..n : k \in T
    BY <1>2, <2>1, <2>2, BoundedInduction
  <2>4. A = [k \in 0..n |-> A[k]]
    <3>1. Body(A) = [k \in 0..n |-> Body(A)[k]]
      OBVIOUS
    <3> HIDE DEF Body
    <3> QED
      BY <1>8, <3>1
  <2> QED
    BY <2>3, <2>4 DEF T
<1> QED
  BY <1>1, <1>9, <1>10 DEF UrlPart, n

(* What the URL of a way is, and of one with a mount more. *)
LEMMA UrlTells ==
  /\ Url(<<>>) = <<>>
  /\ \A way \in Seq(Mount) : Url(way) \in Path
  /\ \A way \in Seq(Mount), m \in Mount : Url(Append(way, m)) = JoinPaths(Url(way), m.at)
<1>1. Url(<<>>) = <<>>
  <2>1. <<>> \in Seq(Mount) /\ Len(<<>>) = 0
    OBVIOUS
  <2>2. PICK a : UrlPart(a, <<>>)
    BY <2>1, UrlUnfolds
  <2> QED
    BY <2>1, <2>2 DEF UrlPart
<1>2. ASSUME NEW way \in Seq(Mount)
      PROVE  Url(way) \in Path
  <2>1. PICK a : UrlPart(a, way)
    BY UrlUnfolds
  <2>2. Len(way) \in 0..Len(way)
    OBVIOUS
  <2> QED
    BY <2>1, <2>2 DEF UrlPart
<1>3. ASSUME NEW way \in Seq(Mount), NEW m \in Mount
      PROVE  Url(Append(way, m)) = JoinPaths(Url(way), m.at)
  <2> DEFINE n == Len(way)
             more == Append(way, m)
  <2>1. /\ more \in Seq(Mount) /\ n \in Nat /\ Len(more) = n + 1 /\ more[n + 1] = m
        /\ \A k \in 1..n : more[k] = way[k]
    OBVIOUS
  <2>2. PICK a : UrlPart(a, way)
    BY UrlUnfolds
  <2> HIDE DEF more
  <2>3. PICK b : UrlPart(b, more)
    BY <2>1, UrlUnfolds
  <2> DEFINE T == {k \in 0..n : a[k] = b[k]}
  <2>4. 0 \in T
    BY <2>1, <2>2, <2>3 DEF UrlPart
  <2>5. ASSUME NEW k \in 0..n, k < n, k \in T
        PROVE  k + 1 \in T
    <3>1. k + 1 \in 1..n /\ k + 1 - 1 = k /\ k + 1 \in 1..(n + 1) /\ k + 1 \in 0..n
      BY <2>1, <2>5
    <3>2. a[k + 1] = JoinPaths(a[k], way[k + 1].at)
      BY <2>2, <3>1 DEF UrlPart
    <3>3. b[k + 1] = JoinPaths(b[k], more[k + 1].at)
      <4> HIDE DEF n
      <4>1. \A j \in 1..Len(more) : b[j] = JoinPaths(b[j - 1], more[j].at)
        BY <2>3 DEF UrlPart
      <4>2. b[k + 1] = JoinPaths(b[k + 1 - 1], more[k + 1].at)
        BY <2>1, <3>1, <4>1
      <4> QED
        BY <3>1, <4>2
    <3> QED
      BY <2>1, <2>5, <3>1, <3>2, <3>3
  <2>6. n \in T
    <3> HIDE DEF T, n
    <3>1. \A k \in 0..n : k \in T
      BY <2>1, <2>4, <2>5, BoundedInduction
    <3> QED
      BY <2>1, <3>1
  <2>7. Url(more) = b[n + 1] /\ b[n + 1] = JoinPaths(b[n], m.at)
    <3> HIDE DEF n, T
    <3> DEFINE last == n + 1
    <3>1. last \in 1..Len(more) /\ last - 1 = n
      BY <2>1
    <3>2. \A j \in 1..Len(more) : b[j] = JoinPaths(b[j - 1], more[j].at)
      BY <2>3 DEF UrlPart
    <3> HIDE DEF last
    <3>3. b[last] = JoinPaths(b[last - 1], more[last].at)
      BY <3>1, <3>2
    <3> USE DEF last
    <3> QED
      BY <2>1, <2>3, <3>1, <3>3 DEF UrlPart
  <2> QED
    BY <2>2, <2>6, <2>7 DEF UrlPart, more
<1> QED
  BY <1>1, <1>2, <1>3

(* A way up from a file, of any length. *)
WayOf(way, router) == way \in Seq(Range(mounts)) /\ IsWay(way, router)

(* What lists are drawn from the mounts. *)
LEMMA RangeOfMounts ==
  ASSUME mounts \in Seq(Mount)
  PROVE  /\ Range(mounts) \subseteq Mount
         /\ \A m \in Range(mounts) : \E k \in DOMAIN mounts : m = mounts[k]
         /\ Seq(Range(mounts)) \subseteq Seq(Mount)
<1>1. \A k \in DOMAIN mounts : mounts[k] \in Mount
  OBVIOUS
<1>2. Range(mounts) \subseteq Mount /\ \A m \in Range(mounts) : \E k \in DOMAIN mounts : m = mounts[k]
  BY <1>1 DEF Range
<1>3. ASSUME NEW S, NEW T, S \subseteq T, NEW q \in Seq(S)
      PROVE  q \in Seq(T)
  BY <1>3
<1> QED
  BY <1>2, <1>3

(* A way of a file that mounts another, the other not on it, is one of the  *)
(* other with the mount at its end.                                         *)
LEMMA WaysGrow ==
  ASSUME MountsAssumption, mounts \in Seq(Mount), NEW router, NEW k \in Incoming(router),
         NEW way, WayOf(way, mounts[k].parent), \A j \in DOMAIN way : way[j].parent # router
  PROVE  LET more == Append(way, mounts[k])
         IN  /\ WayOf(more, router) /\ Url(more) = JoinPaths(Url(way), mounts[k].at)
             /\ \A j \in DOMAIN more : more[j].parent = mounts[k].parent
                                         \/ \E i \in DOMAIN way : more[j].parent = way[i].parent
<1> DEFINE m == mounts[k]
           more == Append(way, m)
           n == Len(way)
<1>1. m \in Range(mounts) /\ m \in Mount /\ m.file = router /\ m.parent # router
  BY IncomingTells
<1>2. way \in Seq(Range(mounts)) /\ way \in Seq(Mount) /\ IsWay(way, m.parent)
  BY RangeOfMounts DEF WayOf
<1> HIDE DEF m
<1>3. /\ more \in Seq(Range(mounts)) /\ n \in Nat /\ DOMAIN way = 1..n /\ DOMAIN more = 1..(n + 1)
      /\ Len(more) = n + 1 /\ more[n + 1] = m /\ more # <<>> /\ (way = <<>> <=> n = 0)
      /\ \A j \in 1..n : more[j] = way[j]
  BY <1>1, <1>2
<1> HIDE DEF more, n
<1>4. /\ n = 0 => Incoming(m.parent) = {}
      /\ n # 0 => Incoming(way[1].parent) = {} /\ way[n].file = m.parent
      /\ \A j \in 1..n : j + 1 \in 1..n => way[j].file = way[j + 1].parent
      /\ \A j \in 1..n : way[j].parent # m.parent
      /\ \A i, j \in 1..n : way[i].parent = way[j].parent => i = j
  BY <1>2, <1>3 DEF IsWay, n
<1>5. Incoming(more[1].parent) = {} /\ more[Len(more)].file = router
  <2>1. CASE n = 0
    BY <1>1, <1>3, <1>4, <2>1
  <2>2. CASE n # 0
    <3>1. 1 \in 1..n
      BY <1>3, <2>2
    <3> QED
      BY <1>1, <1>3, <1>4, <2>2, <3>1
  <2> QED
    BY <2>1, <2>2
<1>6. ASSUME NEW j \in DOMAIN more, j + 1 \in DOMAIN more
      PROVE  more[j].file = more[j + 1].parent
  <2>1. j \in 1..n /\ (j + 1 \in 1..n \/ j = n)
    BY <1>3, <1>6
  <2>2. CASE j + 1 \in 1..n
    BY <1>3, <1>4, <2>1, <2>2
  <2>3. CASE j = n
    <3>1. n # 0 /\ more[j] = way[n] /\ more[j + 1] = m
      BY <1>3, <2>1, <2>3
    <3> QED
      BY <1>4, <3>1
  <2> QED
    BY <2>1, <2>2, <2>3
<1>7. \A j \in DOMAIN more : j = n + 1 \/ j \in 1..n
  BY <1>3
<1>8. \A j \in DOMAIN more : more[j].parent # router
  <2>1. \A j \in 1..n : way[j].parent # router
    BY <1>3
  <2> QED
    BY <1>1, <1>3, <1>7, <2>1
<1>9. \A i, j \in DOMAIN more : more[i].parent = more[j].parent => i = j
  BY <1>3, <1>4, <1>7
<1>10. IsWay(more, router)
  BY <1>3, <1>5, <1>6, <1>8, <1>9 DEF IsWay
<1>11. Url(more) = JoinPaths(Url(way), m.at)
  BY <1>1, <1>2, UrlTells DEF more
<1>12. \A j \in DOMAIN more : more[j].parent = m.parent \/ \E i \in DOMAIN way : more[j].parent = way[i].parent
  BY <1>3, <1>7
<1> QED
  BY <1>3, <1>10, <1>11, <1>12 DEF WayOf, more, m

(* Every way that is not empty has come about like that. *)
LEMMA WaysShrink ==
  ASSUME MountsAssumption, mounts \in Seq(Mount), NEW router, NEW way, WayOf(way, router), way # <<>>
  PROVE  \E k \in Incoming(router) : \E shorter :
           WayOf(shorter, mounts[k].parent) /\ Url(way) = JoinPaths(Url(shorter), mounts[k].at)
<1> DEFINE n == Len(way)
           m == way[n]
           shorter == [j \in 1..(n - 1) |-> way[j]]
<1>1. way \in Seq(Range(mounts)) /\ IsWay(way, router)
  BY DEF WayOf
<1>2. n \in Nat \ {0} /\ n \in DOMAIN way /\ m \in Range(mounts) /\ DOMAIN way = 1..n
  BY <1>1
<1>3. PICK k \in DOMAIN mounts : m = mounts[k]
  BY <1>2, RangeOfMounts
<1>4. m.file = router /\ m.parent # router
  BY <1>1, <1>2 DEF IsWay
<1>5. k \in Incoming(router)
  BY <1>3, <1>4 DEF Incoming
<1>6. /\ shorter \in Seq(Range(mounts)) /\ Len(shorter) = n - 1 /\ DOMAIN shorter = 1..(n - 1)
      /\ \A j \in 1..(n - 1) : shorter[j] = way[j]
      /\ way = Append(shorter, m)
  <2>1. ASSUME NEW S, NEW q \in Seq(S), NEW p \in Seq(S), Len(p) = Len(q) - 1, Len(q) # 0,
               \A j \in 1..Len(p) : p[j] = q[j]
        PROVE  q = Append(p, q[Len(q)])
    BY <2>1
  <2>2. \A j \in 1..(n - 1) : way[j] \in Range(mounts)
    BY <1>1
  <2>3. shorter \in Seq(Range(mounts)) /\ Len(shorter) = n - 1 /\ DOMAIN shorter = 1..(n - 1)
    <3>1. n - 1 \in Nat /\ shorter \in [1..(n - 1) -> Range(mounts)]
      BY <1>2, <2>2
    <3> HIDE DEF shorter, n
    <3> QED
      BY <3>1
  <2>4. \A j \in 1..(n - 1) : shorter[j] = way[j]
    OBVIOUS
  <2> HIDE DEF shorter
  <2>5. Len(way) # 0 /\ Len(shorter) = Len(way) - 1 /\ \A j \in 1..Len(shorter) : shorter[j] = way[j]
    BY <1>2, <2>3, <2>4
  <2>6. way = Append(shorter, way[Len(way)])
    <3> HIDE DEF n, m
    <3> QED
      BY <1>1, <2>1, <2>3, <2>5
  <2> QED
    BY <2>3, <2>4, <2>6
<1> HIDE DEF shorter
<1>7. Url(way) = JoinPaths(Url(shorter), m.at)
  <2>1. shorter \in Seq(Mount) /\ m \in Mount
    BY <1>2, <1>6, RangeOfMounts
  <2> HIDE DEF m, n
  <2> QED
    BY <1>6, <2>1, UrlTells
<1> HIDE DEF n
<1>8. /\ Incoming(way[1].parent) = {} /\ way[n].file = router
      /\ \A j \in 1..n : j + 1 \in 1..n => way[j].file = way[j + 1].parent
      /\ \A i, j \in 1..n : way[i].parent = way[j].parent => i = j
  BY <1>1, <1>2 DEF IsWay, n
<1>9. CASE n = 1
  <2>1. shorter = <<>> /\ Incoming(m.parent) = {} /\ DOMAIN shorter = {}
    BY <1>6, <1>8, <1>9
  <2>2. IsWay(shorter, m.parent)
    BY <2>1 DEF IsWay
  <2> QED
    BY <1>3, <1>5, <1>6, <1>7, <2>2 DEF WayOf
<1>10. CASE n # 1
  <2>1. 1 \in 1..(n - 1) /\ n - 1 \in 1..(n - 1) /\ n - 1 \in 1..n /\ n - 1 + 1 = n
    BY <1>2, <1>10
  <2>2. shorter # <<>> /\ shorter[1] = way[1] /\ shorter[Len(shorter)] = way[n - 1]
    BY <1>6, <2>1
  <2>3. shorter[Len(shorter)].file = m.parent
    BY <1>2, <1>8, <2>1, <2>2
  <2>4. \A j \in 1..(n - 1) : j \in 1..n /\ j # n
    BY <1>2
  <2>5. \A j \in 1..(n - 1) : shorter[j].parent # m.parent
    BY <1>2, <1>6, <1>8, <2>4
  <2>6. \A j \in 1..(n - 1) : j + 1 \in 1..(n - 1) => shorter[j].file = shorter[j + 1].parent
    BY <1>6, <1>8, <2>4
  <2>7. \A i, j \in 1..(n - 1) : shorter[i].parent = shorter[j].parent => i = j
    BY <1>6, <1>8, <2>4
  <2>8. IsWay(shorter, m.parent)
    BY <1>6, <1>8, <2>2, <2>3, <2>5, <2>6, <2>7 DEF IsWay
  <2> QED
    BY <1>3, <1>5, <1>6, <1>7, <2>8 DEF WayOf
<1> QED
  BY <1>9, <1>10

(* A way passes through no file twice: it is shorter than the files are many. *)
LEMMA WaysAreShort ==
  ASSUME MountsAssumption, mounts \in Seq(Mount), NEW router \in Routers, NEW way, WayOf(way, router)
  PROVE  way \in Ways(router)
<1> DEFINE n == Len(way)
           others == Routers \ {router}
           place == [k \in 1..n |-> way[k].parent]
<1>1. /\ way \in Seq(Range(mounts)) /\ IsWay(way, router)
      /\ n \in Nat /\ DOMAIN way = 1..n /\ way \in [1..n -> Range(mounts)]
  BY DEF WayOf
<1>2. \A m \in Range(mounts) : m.parent \in Routers
  BY RangeOfMounts DEF Mount
<1> HIDE DEF n
<1>3. IsFiniteSet(others) /\ Cardinality(others) = Cardinality(Routers) - 1
  BY FS_RemoveElement DEF MountsAssumption
<1>4. place \in Injection(1..n, others)
  <2>1. place \in [1..n -> others]
    BY <1>1, <1>2 DEF IsWay
  <2>2. \A j, k \in 1..n : place[j] = place[k] => j = k
    BY <1>1 DEF IsWay
  <2> HIDE DEF place, others
  <2> QED
    BY <2>1, <2>2 DEF Injection, IsInjective
<1>5. Cardinality(1..n) = n
  <2>1. 1 \in Int /\ n \in Int
    BY <1>1
  <2>2. Cardinality(1..n) = IF 1 > n THEN 0 ELSE n - 1 + 1
    BY <2>1, FS_Interval
  <2> QED
    BY <1>1, <2>2
<1>6. n <= Cardinality(others)
  <2> HIDE DEF place, others
  <2> QED
    BY <1>3, <1>4, <1>5, FS_Injection
<1>7. n \in 0..(Cardinality(Routers) - 1)
  <2>1. Cardinality(Routers) \in Nat
    BY FS_CardinalityType DEF MountsAssumption
  <2> QED
    BY <1>1, <1>3, <1>6, <2>1
<1> QED
  BY <1>1, <1>7 DEF Ways

LEMMA WaysAreWays ==
  ASSUME NEW router, NEW way \in Ways(router)
  PROVE  WayOf(way, router)
<1>1. PICK n \in 0..(Cardinality(Routers) - 1) : way \in [1..n -> Range(mounts)]
  BY DEF Ways
<1>2. n \in Nat
  OBVIOUS
<1>3. way \in Seq(Range(mounts))
  BY <1>1, <1>2
<1> QED
  BY <1>3 DEF Ways, WayOf

(* A file has finitely many ways, so finitely many prefixes.                *)
LEMMA PrefixesAreFinite ==
  ASSUME MountsAssumption, mounts \in Seq(Mount), NEW router
  PROVE  IsFiniteSet(UrlPrefixes(router))
<1> DEFINE c == Cardinality(Routers)
           R == Range(mounts)
           Places == (1..c) \X R
           Graph(w) == {<<k, w[k]>> : k \in DOMAIN w}
           F == [w \in Ways(router) |-> Graph(w)]
           G == [w \in Ways(router) |-> Url(w)]
<1>1. c \in Nat
  BY FS_CardinalityType DEF MountsAssumption
<1>2. IsFiniteSet(1..c)
  <2>1. 1 \in Int /\ c \in Int
    BY <1>1
  <2> QED
    BY <2>1, FS_Interval
<1>3. IsFiniteSet(R)
  <2> DEFINE n == Len(mounts)
             H == [k \in 1..n |-> mounts[k]]
  <2>1. n \in Nat /\ DOMAIN mounts = 1..n
    OBVIOUS
  <2> HIDE DEF n
  <2>2. H \in Surjection(1..n, R)
    BY <2>1 DEF Surjection, Range
  <2>3. IsFiniteSet(1..n)
    <3>1. 1 \in Int /\ n \in Int
      BY <2>1
    <3> QED
      BY <3>1, FS_Interval
  <2> HIDE DEF H, R
  <2> QED
    BY <2>2, <2>3, FS_Surjection
<1> HIDE DEF R
<1>4. IsFiniteSet(Places)
  <2> HIDE DEF c
  <2> QED
    BY <1>2, <1>3, FS_Product
<1> HIDE DEF c
<1>5. IsFiniteSet(SUBSET Places)
  <2> HIDE DEF Places
  <2> QED
    BY <1>4, FS_SUBSET
<1>6. ASSUME NEW w \in Ways(router)
      PROVE  Graph(w) \in SUBSET Places /\ w = [k \in DOMAIN w |-> w[k]]
  <2>1. PICK n \in 0..(c - 1) : w \in [1..n -> R]
    BY DEF Ways, c, R
  <2>2. 1..n \subseteq 1..c
    BY <1>1, <2>1
  <2> QED
    BY <2>1, <2>2
<1>7. ASSUME NEW v \in Ways(router), NEW w \in Ways(router), Graph(v) = Graph(w)
      PROVE  v = w
  <2>1. ASSUME NEW p \in Ways(router), NEW q \in Ways(router), Graph(p) = Graph(q), NEW k \in DOMAIN p
        PROVE  k \in DOMAIN q /\ p[k] = q[k]
    <3>1. <<k, p[k]>> \in Graph(q)
      BY <2>1
    <3>2. PICK j \in DOMAIN q : <<k, p[k]>> = <<j, q[j]>>
      BY <3>1
    <3> QED
      BY <3>2
  <2>2. DOMAIN v = DOMAIN w /\ \A k \in DOMAIN v : v[k] = w[k]
    <3> HIDE DEF Graph
    <3> QED
      BY <1>7, <2>1
  <2>3. v = [k \in DOMAIN v |-> v[k]] /\ w = [k \in DOMAIN w |-> w[k]]
    BY <1>6
  <2> QED
    BY <2>2, <2>3
<1>8. F \in Injection(Ways(router), SUBSET Places)
  <2> HIDE DEF Graph, Places
  <2>1. F \in [Ways(router) -> SUBSET Places]
    BY <1>6
  <2>2. \A v, w \in Ways(router) : F[v] = F[w] => v = w
    BY <1>7
  <2> HIDE DEF F
  <2> QED
    BY <2>1, <2>2 DEF Injection, IsInjective
<1>9. IsFiniteSet(Ways(router))
  <2> HIDE DEF F, Places
  <2> QED
    BY <1>5, <1>8, FS_Injection
<1>10. G \in Surjection(Ways(router), UrlPrefixes(router))
  BY DEF Surjection, UrlPrefixes
<1> HIDE DEF G
<1> QED
  BY <1>9, <1>10, FS_Surjection

(* A list without repetition is no longer than what it is drawn from has    *)
(* members.                                                                 *)
LEMMA NoRepeatIsShort ==
  ASSUME NEW S, NEW list \in Seq(S), NoRepeat(list), NEW T, IsFiniteSet(T), Range(list) \subseteq T
  PROVE  Len(list) <= Cardinality(T)
<1> DEFINE n == Len(list)
           F == [k \in 1..n |-> list[k]]
<1>1. n \in Nat /\ DOMAIN list = 1..n
  OBVIOUS
<1> HIDE DEF n
<1>2. F \in Injection(1..n, T)
  <2>1. F \in [1..n -> T]
    BY <1>1 DEF Range
  <2>2. \A j, k \in 1..n : F[j] = F[k] => j = k
    BY <1>1 DEF NoRepeat
  <2> HIDE DEF F
  <2> QED
    BY <2>1, <2>2 DEF Injection, IsInjective
<1>3. Cardinality(1..n) = n
  <2>1. 1 \in Int /\ n \in Int
    BY <1>1
  <2>2. Cardinality(1..n) = IF 1 > n THEN 0 ELSE n - 1 + 1
    BY <2>1, FS_Interval
  <2> QED
    BY <1>1, <2>2
<1>4. Cardinality(1..n) <= Cardinality(T)
  <2> HIDE DEF F
  <2> QED
    BY <1>2, FS_Injection
<1> QED
  BY <1>3, <1>4 DEF n

-----------------------------------------------------------------------------
(* The files whose prefixes have to be complete: no cycle leads to them and *)
(* none of the lists they are drawn from reaches the limit.                 *)
Whole(router) == \A f \in {router} \cup Above(router) : ~InCycle(f) /\ Cardinality(UrlPrefixes(f)) < MaxPrefixes

LEMMA WholeAbove ==
  ASSUME MountsAssumption, mounts \in Seq(Mount), NEW router, Whole(router), NEW g \in Above(router)
  PROVE  Whole(g)
<1>1. {g} \cup Above(g) \subseteq {router} \cup Above(router)
  BY AboveTells
<1> QED
  BY <1>1 DEF Whole

(* All that is drawn from the mounts stays with them.                       *)
LEMMA MountsStay ==
  ASSUME UNCHANGED mounts, NEW router
  PROVE  /\ Incoming(router)' = Incoming(router) /\ UrlPrefixes(router)' = UrlPrefixes(router)
         /\ Whole(router)' <=> Whole(router)
         /\ \A way : WayOf(way, router)' <=> WayOf(way, router)
<1>1. \A f : Incoming(f)' = Incoming(f)
  BY DEF Incoming
<1>2. \A f : ParentsOf(f)' = ParentsOf(f)
  BY <1>1 DEF ParentsOf
<1>3. \A f : Above(f)' = Above(f)
  BY <1>2 DEF Above
<1>4. \A f : InCycle(f)' <=> InCycle(f)
  BY <1>3 DEF InCycle
<1>5. \A f, way : IsWay(way, f)' <=> IsWay(way, f)
  BY <1>1 DEF IsWay
<1>6. \A f : Ways(f)' = Ways(f)
  BY <1>5 DEF Ways
<1>7. \A f : UrlPrefixes(f)' = UrlPrefixes(f)
  BY <1>6 DEF UrlPrefixes
<1>8. Whole(router)' <=> Whole(router)
  BY <1>3, <1>4, <1>7 DEF Whole
<1> QED
  BY <1>1, <1>5, <1>7, <1>8 DEF WayOf

(* What a call or the cache holds of a file: prefixes of its ways, over     *)
(* files that are known, each once.                                         *)
KnownPrefix(path, router, known) ==
  \E way : WayOf(way, router) /\ path = Url(way) /\ \A k \in DOMAIN way : way[k].parent \in known

ListOk(list, router, known) ==
  /\ list \in Seq(Path) /\ NoRepeat(list)
  /\ \A path \in Range(list) : KnownPrefix(path, router, known)

Call == [file : Routers, left : SUBSET Nat, collected : Seq(Path)]

CallOk(call, known) ==
  /\ call.file \notin known /\ Incoming(call.file) # {} /\ call.left \subseteq Incoming(call.file)
  /\ ListOk(call.collected, call.file, known)
  /\ Whole(call.file) =>
       \A k \in Incoming(call.file) \ call.left : \A base \in UrlPrefixes(mounts[k].parent) :
         JoinPaths(base, mounts[k].at) \in Range(call.collected)

CallsOk(stack, known) ==
  /\ stack \in Seq(Call)
  /\ \A k \in DOMAIN stack : CallOk(stack[k], known)
  /\ \A j, k \in DOMAIN stack : stack[j].file = stack[k].file => j = k
  /\ \A k \in DOMAIN stack : k + 1 \in DOMAIN stack =>
       stack[k + 1].left # {} /\ NextMount(stack[k + 1]).parent = stack[k].file

CacheOk(lists) ==
  /\ DOMAIN lists \subseteq Routers
  /\ \A f \in DOMAIN lists :
       ListOk(lists[f], f, DOMAIN lists) /\ (Whole(f) => UrlPrefixes(f) \subseteq Range(lists[f]))

(* The invariant: the lists of the cache and of the calls hold known        *)
(* prefixes only; a cached list of a whole file is complete, and a call has *)
(* all that come through the mounts it has followed; the files of the calls *)
(* mount each other; what was joined is what is cached.                     *)
PrefixInv ==
  /\ mounts \in Seq(Mount) /\ asking \subseteq Routers
  /\ CacheOk(cache) /\ CallsOk(calls, DOMAIN cache)
  /\ \A f \in DOMAIN mounted : f \in DOMAIN cache /\ mounted[f] = cache[f]

(* Neither does a step change what the lists and the calls have to satisfy. *)
LEMMA ListsStay ==
  ASSUME UNCHANGED mounts
  PROVE  /\ \A lists : CacheOk(lists)' <=> CacheOk(lists)
         /\ \A stack, known : CallsOk(stack, known)' <=> CallsOk(stack, known)
<1>1. \A path, router, known : KnownPrefix(path, router, known)' <=> KnownPrefix(path, router, known)
  BY MountsStay DEF KnownPrefix
<1>2. \A list, router, known : ListOk(list, router, known)' <=> ListOk(list, router, known)
  BY <1>1 DEF ListOk
<1>3. ASSUME NEW router
      PROVE  /\ Incoming(router)' = Incoming(router) /\ UrlPrefixes(router)' = UrlPrefixes(router)
             /\ Whole(router)' <=> Whole(router)
  BY MountsStay
<1>4. \A call, known : CallOk(call, known)' <=> CallOk(call, known)
  BY <1>2, <1>3 DEF CallOk
<1>5. \A call : NextMount(call)' = NextMount(call)
  BY DEF NextMount
<1>6. ASSUME NEW lists
      PROVE  CacheOk(lists)' <=> CacheOk(lists)
  <2>1. ASSUME NEW f
        PROVE  /\ ListOk(lists[f], f, DOMAIN lists)' <=> ListOk(lists[f], f, DOMAIN lists)
               /\ (Whole(f) => UrlPrefixes(f) \subseteq Range(lists[f]))'
                    <=> (Whole(f) => UrlPrefixes(f) \subseteq Range(lists[f]))
    BY <1>2, <1>3
  <2> QED
    BY <2>1 DEF CacheOk
<1>7. \A stack, known : CallsOk(stack, known)' <=> CallsOk(stack, known)
  BY <1>4, <1>5 DEF CallsOk
<1> QED
  BY <1>6, <1>7

(* What is known only becomes more. *)
LEMMA MoreIsKnown ==
  ASSUME NEW known, NEW more, known \subseteq more
  PROVE  /\ \A list, router : ListOk(list, router, known) => ListOk(list, router, more)
         /\ \A stack : CallsOk(stack, known) /\ (\A k \in DOMAIN stack : stack[k].file \notin more)
              => CallsOk(stack, more)
<1>1. ASSUME NEW list, NEW router, ListOk(list, router, known)
      PROVE  ListOk(list, router, more)
  <2>1. \A path : KnownPrefix(path, router, known) => KnownPrefix(path, router, more)
    BY DEF KnownPrefix
  <2> QED
    BY <1>1, <2>1 DEF ListOk
<1>2. ASSUME NEW call, CallOk(call, known), call.file \notin more
      PROVE  CallOk(call, more)
  BY <1>1, <1>2 DEF CallOk
<1>3. ASSUME NEW stack, CallsOk(stack, known), \A k \in DOMAIN stack : stack[k].file \notin more
      PROVE  CallsOk(stack, more)
  BY <1>2, <1>3 DEF CallsOk
<1> QED
  BY <1>1, <1>3

(* A call for a file that nobody asks for yet. *)
LEMMA CallIsPushed ==
  ASSUME MountsAssumption, mounts \in Seq(Mount), NEW stack, NEW known, CallsOk(stack, known),
         NEW router \in Routers \ known, Incoming(router) # {},
         \A k \in DOMAIN stack : stack[k].file # router,
         stack # <<>> => stack[1].left # {} /\ NextMount(stack[1]).parent = router
  PROVE  CallsOk(<<Called(router)>> \o stack, known)
<1> DEFINE call == Called(router)
           more == <<call>> \o stack
           n == Len(stack)
<1>1. /\ call = [file |-> router, left |-> Incoming(router), collected |-> <<>>]
      /\ call.file = router /\ call.left = Incoming(router) /\ call.collected = <<>>
  BY DEF Called
<1>2. call \in Call
  <2>1. <<>> \in Seq(Path)
    OBVIOUS
  <2> HIDE DEF call
  <2> QED
    BY <1>1, <2>1, IncomingTells DEF Call
<1> HIDE DEF call
<1>3. CallOk(call, known)
  <2>1. <<>> \in Seq(Path) /\ DOMAIN <<>> = {} /\ Range(<<>>) = {}
    BY DEF Range
  <2>2. ListOk(<<>>, router, known)
    BY <2>1 DEF ListOk, NoRepeat
  <2> QED
    BY <1>1, <2>2 DEF CallOk
<1>4. stack \in Seq(Call)
  BY DEF CallsOk
<1>5. /\ more \in Seq(Call) /\ n \in Nat /\ DOMAIN stack = 1..n /\ DOMAIN more = 1..(n + 1)
      /\ more[1] = call /\ \A k \in 1..n : more[k + 1] = stack[k]
      /\ n # 0 => stack # <<>>
  BY <1>2, <1>4
<1> HIDE DEF more, n
<1>6. \A k \in 1..(n + 1) : k = 1 \/ (k - 1 \in 1..n /\ more[k] = stack[k - 1])
  <2> TAKE k \in 1..(n + 1)
  <2>1. k = 1 \/ (k - 1 \in 1..n /\ k - 1 + 1 = k)
    BY <1>5
  <2> QED
    BY <1>5, <2>1
<1>7. \A k \in DOMAIN more : CallOk(more[k], known)
  <2>1. \A k \in 1..n : CallOk(stack[k], known)
    BY <1>5 DEF CallsOk
  <2> QED
    BY <1>3, <1>5, <1>6, <2>1
<1>8. \A j, k \in DOMAIN more : more[j].file = more[k].file => j = k
  <2> TAKE j, k \in DOMAIN more
  <2>1. \A i \in 1..n : stack[i].file # router
    BY <1>5
  <2>2. \A a, b \in 1..n : stack[a].file = stack[b].file => a = b
    BY <1>5 DEF CallsOk
  <2>3. (j = 1 \/ j - 1 \in 1..n) /\ (k = 1 \/ k - 1 \in 1..n)
    BY <1>5, <1>6
  <2>4. ASSUME k - 1 \in 1..n, j - 1 \in 1..n, more[j].file = more[k].file
        PROVE  j = k
    <3>1. stack[j - 1].file = stack[k - 1].file
      BY <1>5, <1>6, <2>4
    <3>2. j - 1 = k - 1
      BY <2>2, <2>4, <3>1
    <3> QED
      BY <1>5, <3>2
  <2> QED
    BY <1>1, <1>5, <1>6, <2>1, <2>3, <2>4
<1>9. ASSUME NEW k \in DOMAIN more, k + 1 \in DOMAIN more
      PROVE  more[k + 1].left # {} /\ NextMount(more[k + 1]).parent = more[k].file
  <2>1. k \in 1..n /\ more[k + 1] = stack[k]
    BY <1>5, <1>9
  <2>2. CASE k = 1
    BY <1>1, <1>5, <2>1, <2>2
  <2>3. CASE k # 1
    <3>1. k - 1 \in 1..n /\ more[k] = stack[k - 1] /\ k - 1 + 1 = k
      BY <1>5, <1>6, <2>1, <2>3
    <3>2. \A i \in 1..n : i + 1 \in 1..n =>
             stack[i + 1].left # {} /\ NextMount(stack[i + 1]).parent = stack[i].file
      BY <1>5 DEF CallsOk
    <3>3. stack[k - 1 + 1].left # {} /\ NextMount(stack[k - 1 + 1]).parent = stack[k - 1].file
      BY <2>1, <3>1, <3>2
    <3> QED
      BY <2>1, <3>1, <3>3
  <2> QED
    BY <2>2, <2>3
<1> QED
  BY <1>5, <1>7, <1>8, <1>9 DEF CallsOk, more, call

(* The call on top is another one for the same file. *)
LEMMA CallIsReplaced ==
  ASSUME NEW stack, NEW known, CallsOk(stack, known), stack # <<>>,
         NEW call \in Call, CallOk(call, known), call.file = stack[1].file
  PROVE  CallsOk(<<call>> \o Tail(stack), known)
<1> DEFINE more == <<call>> \o Tail(stack)
           n == Len(stack)
<1>1. stack \in Seq(Call)
  BY DEF CallsOk
<1>2. /\ more \in Seq(Call) /\ n \in Nat \ {0} /\ DOMAIN stack = 1..n /\ DOMAIN more = 1..n
      /\ more[1] = call /\ \A k \in 1..n : k # 1 => more[k] = stack[k]
  <2>1. /\ Tail(stack) \in Seq(Call) /\ Len(Tail(stack)) = n - 1 /\ n \in Nat \ {0} /\ DOMAIN stack = 1..n
        /\ \A k \in 1..(n - 1) : Tail(stack)[k] = stack[k + 1]
    BY <1>1
  <2>2. ASSUME NEW q \in Seq(Call)
        PROVE  /\ <<call>> \o q \in Seq(Call) /\ DOMAIN (<<call>> \o q) = 1..(Len(q) + 1)
               /\ (<<call>> \o q)[1] = call
               /\ \A k \in 1..(Len(q) + 1) : k # 1 => k - 1 \in 1..Len(q) /\ (<<call>> \o q)[k] = q[k - 1]
    OBVIOUS
  <2>3. /\ more \in Seq(Call) /\ DOMAIN more = 1..(n - 1 + 1) /\ more[1] = call
        /\ \A k \in 1..(n - 1 + 1) : k # 1 => k - 1 \in 1..(n - 1) /\ more[k] = Tail(stack)[k - 1]
    <3> HIDE DEF n
    <3> QED
      BY <2>1, <2>2
  <2> HIDE DEF more, n
  <2>4. n - 1 + 1 = n /\ \A k \in 1..n : k - 1 + 1 = k
    BY <2>1
  <2>5. ASSUME NEW k \in 1..n, k # 1
        PROVE  more[k] = stack[k]
    <3>1. k - 1 \in 1..(n - 1) /\ more[k] = Tail(stack)[k - 1]
      BY <2>3, <2>4, <2>5
    <3>2. Tail(stack)[k - 1] = stack[k - 1 + 1]
      BY <2>1, <3>1
    <3> QED
      BY <2>4, <3>1, <3>2
  <2> QED
    BY <2>1, <2>3, <2>4, <2>5
<1> HIDE DEF more, n
<1>3. \A k \in 1..n : more[k].file = stack[k].file
  BY <1>2
<1>4. \A k \in 1..n : CallOk(more[k], known)
  BY <1>2 DEF CallsOk
<1>5. \A k \in 1..n : k + 1 \in 1..n => k + 1 # 1
  BY <1>2
<1>6. \A j, k \in 1..n : more[j].file = more[k].file => j = k
  BY <1>2, <1>3 DEF CallsOk
<1>7. ASSUME NEW k \in 1..n, k + 1 \in 1..n
      PROVE  more[k + 1].left # {} /\ NextMount(more[k + 1]).parent = more[k].file
  <2>1. more[k + 1] = stack[k + 1] /\ more[k].file = stack[k].file
    BY <1>2, <1>3, <1>5, <1>7
  <2> QED
    BY <1>2, <1>7, <2>1 DEF CallsOk
<1> QED
  BY <1>2, <1>4, <1>6, <1>7 DEF CallsOk, more

(* The call on top has returned. *)
LEMMA CallIsGone ==
  ASSUME NEW stack, NEW known, CallsOk(stack, known), stack # <<>>
  PROVE  CallsOk(Tail(stack), known)
<1> DEFINE n == Len(stack)
           rest == Tail(stack)
<1>1. stack \in Seq(Call)
  BY DEF CallsOk
<1>2. /\ rest \in Seq(Call) /\ n \in Nat \ {0} /\ DOMAIN stack = 1..n /\ DOMAIN rest = 1..(n - 1)
      /\ \A k \in 1..(n - 1) : rest[k] = stack[k + 1]
  BY <1>1
<1> HIDE DEF rest, n
<1>3. \A k \in 1..(n - 1) : k \in 1..n /\ k + 1 \in 1..n
  BY <1>2
<1>4. \A k \in 1..(n - 1) : CallOk(rest[k], known)
  BY <1>2, <1>3 DEF CallsOk
<1>5. ASSUME NEW j \in 1..(n - 1), NEW k \in 1..(n - 1), rest[j].file = rest[k].file
      PROVE  j = k
  <2>1. stack[j + 1].file = stack[k + 1].file
    BY <1>2, <1>5
  <2>2. j + 1 = k + 1
    BY <1>2, <1>3, <2>1 DEF CallsOk
  <2> QED
    BY <1>2, <2>2
<1>6. ASSUME NEW k \in 1..(n - 1), k + 1 \in 1..(n - 1)
      PROVE  rest[k + 1].left # {} /\ NextMount(rest[k + 1]).parent = rest[k].file
  <2> DEFINE i == k + 1
  <2>1. i \in 1..n /\ i + 1 \in 1..n /\ rest[k] = stack[i] /\ rest[k + 1] = stack[i + 1]
    BY <1>2, <1>3, <1>6
  <2> HIDE DEF i
  <2>2. stack[i + 1].left # {} /\ NextMount(stack[i + 1]).parent = stack[i].file
    BY <1>2, <2>1 DEF CallsOk
  <2> QED
    BY <2>1, <2>2
<1> QED
  BY <1>2, <1>4, <1>5, <1>6 DEF CallsOk, rest

(* What is known of a file are prefixes of it. *)
LEMMA KnownIsPrefix ==
  ASSUME MountsAssumption, mounts \in Seq(Mount), NEW router \in Routers, NEW known
  PROVE  /\ \A path : KnownPrefix(path, router, known) => path \in UrlPrefixes(router)
         /\ \A list : ListOk(list, router, known) => Range(list) \subseteq UrlPrefixes(router)
<1>1. ASSUME NEW path, KnownPrefix(path, router, known)
      PROVE  path \in UrlPrefixes(router)
  <2>1. PICK way : WayOf(way, router) /\ path = Url(way)
    BY <1>1 DEF KnownPrefix
  <2>2. way \in Ways(router)
    BY <2>1, WaysAreShort
  <2> QED
    BY <2>1, <2>2 DEF UrlPrefixes
<1> QED
  BY <1>1 DEF ListOk

(* A caller that goes on with prefixes of the parent it has followed holds  *)
(* prefixes of its own file; with all of them, it has all that come through *)
(* this parent, as the limit stops no list of a whole file.                 *)
LEMMA ResumedTells ==
  ASSUME MountsAssumption, mounts \in Seq(Mount), NEW known,
         NEW call \in Call, CallOk(call, known), call.left # {}, NEW bases \in Seq(Path),
         \A base \in Range(bases) :
           NextMount(call).parent \in known /\ KnownPrefix(base, NextMount(call).parent, known),
         Whole(call.file) => UrlPrefixes(NextMount(call).parent) \subseteq Range(bases)
  PROVE  LET resumed == Resumed(call, bases)
         IN  resumed \in Call /\ resumed.file = call.file /\ CallOk(resumed, known)
<1> DEFINE router == call.file
           k == Lowest(call.left)
           m == mounts[k]
           list == call.collected
           resumed == Extended(list, bases, m.at)
           left == call.left \ {k}
<1>1. router \in Routers /\ call.left \in SUBSET Nat /\ list \in Seq(Path)
  BY DEF Call
<1>2. k \in call.left
  <2> HIDE DEF k
  <2> QED
    BY <1>1, LowestTells DEF k
<1>3. k \in Incoming(router) /\ m = NextMount(call)
  BY <1>2 DEF CallOk, NextMount
<1>4. m.at \in Path /\ m \in Mount
  <2> HIDE DEF k
  <2> QED
    BY <1>3, IncomingTells
<1>5. ListOk(list, router, known) /\ router \notin known /\ NoRepeat(list)
  BY DEF CallOk, ListOk
<1>6. /\ Resumed(call, bases) = [file |-> router, left |-> left, collected |-> resumed]
      /\ left \subseteq Incoming(router) /\ left \in SUBSET Nat
  <2>3. Resumed(call, bases) = [file |-> router, left |-> left, collected |-> resumed]
    BY <1>3 DEF Resumed
  <2>4. call.left \subseteq Incoming(router)
    BY DEF CallOk, router
  <2> QED
    BY <1>1, <2>3, <2>4
<1> HIDE DEF router, list, k
<1>7. /\ resumed \in Seq(Path) /\ NoRepeat(resumed) /\ Range(list) \subseteq Range(resumed)
      /\ \A path \in Range(resumed) :
           path \in Range(list) \/ \E base \in Range(bases) : path = JoinPaths(base, m.at)
      /\ \/ Len(resumed) >= MaxPrefixes
         \/ \A base \in Range(bases) : JoinPaths(base, m.at) \in Range(resumed)
  <2> DEFINE at == m.at
  <2> HIDE DEF at
  <2>1. LET more == Extended(list, bases, at)
        IN  /\ more \in Seq(Path) /\ NoRepeat(more)
            /\ Range(list) \subseteq Range(more)
            /\ \A path \in Range(more) :
                 path \in Range(list) \/ \E base \in Range(bases) : path = JoinPaths(base, at)
            /\ \/ Len(more) >= MaxPrefixes
               \/ \A base \in Range(bases) : JoinPaths(base, at) \in Range(more)
    BY <1>1, <1>4, <1>5, ExtendedTells DEF at
  <2> QED
    BY <2>1 DEF at
<1> HIDE DEF resumed
<1>8. ASSUME NEW base \in Range(bases)
      PROVE  KnownPrefix(JoinPaths(base, m.at), router, known)
  <2>1. m.parent \in known /\ KnownPrefix(base, m.parent, known)
    BY <1>3
  <2>2. PICK way : WayOf(way, m.parent) /\ base = Url(way) /\ \A j \in DOMAIN way : way[j].parent \in known
    BY <2>1 DEF KnownPrefix
  <2>3. \A j \in DOMAIN way : way[j].parent # router
    BY <1>5, <2>2
  <2> DEFINE more == Append(way, mounts[k])
  <2>4. /\ WayOf(more, router) /\ Url(more) = JoinPaths(Url(way), mounts[k].at)
        /\ \A j \in DOMAIN more : more[j].parent = mounts[k].parent
                                    \/ \E i \in DOMAIN way : more[j].parent = way[i].parent
    BY <1>3, <2>2, <2>3, WaysGrow
  <2> HIDE DEF more
  <2>5. \A j \in DOMAIN more : more[j].parent \in known
    BY <2>1, <2>2, <2>4
  <2> QED
    BY <2>2, <2>4, <2>5 DEF KnownPrefix
<1> HIDE DEF m
<1>9. ListOk(resumed, router, known)
  <2>1. \A path \in Range(resumed) : KnownPrefix(path, router, known)
    BY <1>5, <1>7, <1>8 DEF ListOk
  <2> QED
    BY <1>7, <2>1 DEF ListOk
<1>10. ASSUME Whole(router), NEW j \in Incoming(router) \ left, NEW base \in UrlPrefixes(mounts[j].parent)
       PROVE  JoinPaths(base, mounts[j].at) \in Range(resumed)
  <2>1. CASE j = k
    <3>1. Range(resumed) \subseteq UrlPrefixes(router)
      BY <1>1, <1>9, KnownIsPrefix DEF router
    <3>2. Len(resumed) <= Cardinality(UrlPrefixes(router)) /\ Len(resumed) \in Nat
      BY <1>7, <3>1, NoRepeatIsShort, PrefixesAreFinite
    <3>3. Cardinality(UrlPrefixes(router)) < MaxPrefixes /\ MaxPrefixes \in Nat
      BY <1>10 DEF Whole, MountsAssumption
    <3>4. Cardinality(UrlPrefixes(router)) \in Nat
      BY PrefixesAreFinite, FS_CardinalityType
    <3>5. \A b \in Range(bases) : JoinPaths(b, m.at) \in Range(resumed)
      BY <1>7, <3>2, <3>3, <3>4
    <3>6. base \in Range(bases) /\ m = mounts[j]
      BY <1>3, <1>10, <2>1 DEF router, m
    <3> QED
      BY <3>5, <3>6
  <2>2. CASE j # k
    <3>1. j \in Incoming(call.file) \ call.left
      BY <1>10, <2>2 DEF router
    <3>2. JoinPaths(base, mounts[j].at) \in Range(list)
      BY <1>10, <3>1 DEF CallOk, router, list
    <3> QED
      BY <1>7, <3>2
  <2> QED
    BY <2>1, <2>2
<1> HIDE DEF left
<1> DEFINE new == Resumed(call, bases)
<1>11. new.file = router /\ new.left = left /\ new.collected = resumed
  BY <1>6
<1>12. new \in Call
  BY <1>1, <1>6, <1>7 DEF Call, router
<1> HIDE DEF new
<1>13. CallOk(new, known)
  <2>1. Incoming(router) # {}
    BY <1>3
  <2> QED
    BY <1>5, <1>6, <1>9, <1>10, <1>11, <2>1 DEF CallOk
<1> QED
  BY <1>11, <1>12, <1>13 DEF new, router

-----------------------------------------------------------------------------
(* The files of the calls are above each other: a parent whose own call has *)
(* not returned is in a cycle.                                              *)
LEMMA EnteredIsInCycle ==
  ASSUME MountsAssumption, mounts \in Seq(Mount), NEW stack, NEW known, CallsOk(stack, known),
         stack # <<>>, stack[1].left # {}, NEW j \in DOMAIN stack,
         NextMount(stack[1]).parent = stack[j].file
  PROVE  ~Whole(stack[1].file)
<1> DEFINE n == Len(stack)
           top == stack[1].file
           parent == stack[j].file
<1>1. stack \in Seq(Call)
  BY DEF CallsOk
<1>2. n \in Nat /\ n # 0 /\ DOMAIN stack = 1..n /\ j \in 1..n /\ 1 \in 1..n /\ \A i \in 1..n : stack[i] \in Call
  BY <1>1
<1> HIDE DEF n
<1>3. ASSUME NEW call \in Call, CallOk(call, known), call.left # {}
      PROVE  NextMount(call).parent \in Above(call.file)
  <2>1. call.left \in SUBSET Nat /\ call.left \subseteq Incoming(call.file)
    BY <1>3 DEF Call, CallOk
  <2>2. Lowest(call.left) \in Incoming(call.file)
    BY <1>3, <2>1, LowestTells
  <2>3. NextMount(call).parent \in ParentsOf(call.file)
    BY <2>2, IncomingTells DEF NextMount
  <2> QED
    BY <2>3, AboveTells
<1>4. \A i \in 1..n : CallOk(stack[i], known)
  BY <1>2 DEF CallsOk
<1>5. parent \in Above(top)
  BY <1>2, <1>3, <1>4
<1> DEFINE T == {i \in 0..n : i \in 1..n /\ i > 1 => top \in Above(stack[i].file)}
<1>6. ASSUME NEW i \in 0..n, i < n, i \in T
      PROVE  i + 1 \in T
  <2>1. CASE i = 0
    BY <1>2, <2>1
  <2>2. CASE i # 0
    <3>1. i \in 1..n /\ i + 1 \in 1..n
      BY <1>2, <1>6, <2>2
    <3>2. stack[i + 1].left # {} /\ NextMount(stack[i + 1]).parent = stack[i].file
      BY <1>2, <3>1 DEF CallsOk
    <3>3. stack[i].file \in Above(stack[i + 1].file)
      <4> DEFINE call == stack[i + 1]
      <4>1. call \in Call /\ CallOk(call, known) /\ call.left # {}
        BY <1>2, <1>4, <3>1, <3>2
      <4> HIDE DEF call
      <4>2. NextMount(call).parent \in Above(call.file)
        BY <1>3, <4>1
      <4> QED
        BY <3>2, <4>2 DEF call
    <3>4. Above(stack[i].file) \subseteq Above(stack[i + 1].file)
      BY <3>3, AboveTells
    <3>5. i = 1 \/ top \in Above(stack[i].file)
      BY <1>2, <1>6, <3>1
    <3> QED
      BY <1>2, <3>1, <3>3, <3>4, <3>5
  <2> QED
    BY <2>1, <2>2
<1>7. j \in T
  <2>1. 0 \in T
    BY <1>2
  <2> HIDE DEF T
  <2>2. \A i \in 0..n : i \in T
    BY <1>2, <1>6, <2>1, BoundedInduction
  <2> QED
    BY <1>2, <2>2
<1>8. parent \in Above(parent)
  <2>1. CASE j = 1
    BY <1>5, <2>1
  <2>2. CASE j # 1
    <3>1. top \in Above(parent)
      BY <1>2, <1>7, <2>2
    <3> HIDE DEF top, parent
    <3>2. Above(top) \subseteq Above(parent)
      BY <3>1, AboveTells
    <3> QED
      BY <1>5, <3>2
  <2> QED
    BY <2>1, <2>2
<1> QED
  BY <1>5, <1>8 DEF Whole, InCycle

(* A list that is put into the cache leaves the others as they are. *)
LEMMA CacheIsPut ==
  ASSUME NEW lists, CacheOk(lists), NEW router \in Routers \ DOMAIN lists, NEW list,
         ListOk(list, router, DOMAIN lists \cup {router}),
         Whole(router) => UrlPrefixes(router) \subseteq Range(list)
  PROVE  /\ CacheOk(Put(lists, router, list)) /\ DOMAIN Put(lists, router, list) = DOMAIN lists \cup {router}
         /\ Put(lists, router, list)[router] = list
         /\ \A f \in DOMAIN lists : Put(lists, router, list)[f] = lists[f]
<1> DEFINE more == Put(lists, router, list)
           known == DOMAIN lists
<1>1. /\ DOMAIN more = known \cup {router} /\ more[router] = list
      /\ \A f \in known : more[f] = lists[f]
  BY DEF Put
<1> HIDE DEF more, known
<1>2. known \subseteq DOMAIN more
  BY <1>1
<1>3. \A any, f : ListOk(any, f, known) => ListOk(any, f, DOMAIN more)
  BY <1>2, MoreIsKnown
<1>4. \A f \in known : ListOk(lists[f], f, known) /\ (Whole(f) => UrlPrefixes(f) \subseteq Range(lists[f]))
  BY DEF CacheOk, known
<1>5. ASSUME NEW f \in DOMAIN more
      PROVE  ListOk(more[f], f, DOMAIN more) /\ (Whole(f) => UrlPrefixes(f) \subseteq Range(more[f]))
  <2>1. CASE f = router
    BY <1>1, <2>1 DEF known
  <2>2. CASE f # router
    BY <1>1, <1>3, <1>4, <2>2
  <2> QED
    BY <2>1, <2>2
<1>6. DOMAIN more \subseteq Routers
  BY <1>1 DEF CacheOk, known
<1> QED
  BY <1>1, <1>5, <1>6 DEF CacheOk, more, known

(* What is kept for a file that is not mounted is the one prefix it has. *)
LEMMA UnmountedIsWhole ==
  ASSUME MountsAssumption, mounts \in Seq(Mount), NEW router, Incoming(router) = {}, NEW known
  PROVE  ListOk(Unmounted, router, known) /\ UrlPrefixes(router) \subseteq Range(Unmounted)
<1>1. Unmounted \in Seq(Path) /\ DOMAIN Unmounted = {1} /\ Unmounted[1] = <<>>
  <2>1. <<>> \in Path
    BY DEF Path
  <2> QED
    BY <2>1 DEF Unmounted
<1>2. Range(Unmounted) = {<<>>}
  BY <1>1 DEF Range
<1>3. NoRepeat(Unmounted)
  BY <1>1 DEF NoRepeat
<1>4. Url(<<>>) = <<>>
  BY UrlTells
<1>5. KnownPrefix(<<>>, router, known)
  <2>1. <<>> \in Seq(Range(mounts)) /\ DOMAIN <<>> = {}
    OBVIOUS
  <2>2. WayOf(<<>>, router)
    BY <2>1 DEF WayOf, IsWay
  <2> QED
    BY <1>4, <2>1, <2>2 DEF KnownPrefix
<1>6. ASSUME NEW way \in Ways(router)
      PROVE  way = <<>>
  <2>1. WayOf(way, router)
    BY WaysAreWays
  <2> QED
    BY <2>1, WaysShrink
<1> QED
  BY <1>1, <1>2, <1>3, <1>4, <1>5, <1>6 DEF ListOk, UrlPrefixes

(* What a call returns is complete for a whole file. *)
LEMMA ReturnedIsWhole ==
  ASSUME MountsAssumption, mounts \in Seq(Mount), NEW known, NEW call \in Call, CallOk(call, known),
         call.left = {}, Whole(call.file)
  PROVE  UrlPrefixes(call.file) \subseteq Range(call.collected)
<1> SUFFICES ASSUME NEW way \in Ways(call.file)
             PROVE  Url(way) \in Range(call.collected)
  BY DEF UrlPrefixes
<1>1. WayOf(way, call.file)
  BY WaysAreWays
<1>2. way # <<>>
  BY <1>1 DEF CallOk, WayOf, IsWay
<1>3. PICK k \in Incoming(call.file) : \E shorter :
        WayOf(shorter, mounts[k].parent) /\ Url(way) = JoinPaths(Url(shorter), mounts[k].at)
  BY <1>1, <1>2, WaysShrink
<1>4. PICK shorter : WayOf(shorter, mounts[k].parent) /\ Url(way) = JoinPaths(Url(shorter), mounts[k].at)
  BY <1>3
<1>5. mounts[k].parent \in Routers
  BY IncomingTells
<1>6. shorter \in Ways(mounts[k].parent)
  BY <1>4, <1>5, WaysAreShort
<1>7. Url(shorter) \in UrlPrefixes(mounts[k].parent)
  BY <1>6 DEF UrlPrefixes
<1> QED
  BY <1>4, <1>7 DEF CallOk

-----------------------------------------------------------------------------
(* The invariant after a step, from the lists the step leaves. *)
LEMMA InvariantIsKept ==
  ASSUME PrefixInv, UNCHANGED mounts, asking' \subseteq Routers, NEW lists, NEW stack,
         cache' = lists, calls' = stack, CacheOk(lists), CallsOk(stack, DOMAIN lists),
         \A f \in DOMAIN mounted' : f \in DOMAIN lists /\ mounted'[f] = lists[f]
  PROVE  PrefixInv'
<1>1. CacheOk(lists)' /\ CallsOk(stack, DOMAIN lists)'
  BY ListsStay
<1>2. CacheOk(cache)' /\ CallsOk(calls, DOMAIN cache)'
  BY <1>1
<1>3. (mounts \in Seq(Mount))'
  BY DEF PrefixInv
<1> QED
  BY <1>2, <1>3 DEF PrefixInv

(* Nothing is cached and nothing called at first. *)
LEMMA MountsInitHolds == MountsInit => PrefixInv
<1> SUFFICES ASSUME MountsInit
             PROVE  PrefixInv
  OBVIOUS
<1>1. mounts \in Seq(Mount) /\ asking \subseteq Routers
  BY MountsAssumption DEF MountsInit, MountsAssumption
<1>2. DOMAIN cache = {} /\ DOMAIN mounted = {}
  BY DEF MountsInit, NoPrefixes
<1>3. calls \in Seq(Call) /\ DOMAIN calls = {}
  BY DEF MountsInit
<1> QED
  BY <1>1, <1>2, <1>3 DEF PrefixInv, CacheOk, CallsOk

(* The next file is answered from the cache, or its call begins. *)
LEMMA AskKeeps ==
  ASSUME PrefixInv, Ask
  PROVE  PrefixInv'
<1> DEFINE router == Lowest(asking)
<1>1. mounts \in Seq(Mount) /\ CacheOk(cache) /\ CallsOk(calls, DOMAIN cache) /\ MountsAssumption
  BY MountsAssumption DEF PrefixInv
<1>2. router \in asking /\ router \in Routers
  <2>1. asking \in SUBSET Nat /\ asking # {} /\ asking \subseteq Routers
    BY <1>1 DEF PrefixInv, Ask, MountsAssumption
  <2> QED
    BY <2>1, LowestTells
<1> HIDE DEF router
<1>3. calls = <<>> /\ asking' \subseteq Routers /\ UNCHANGED <<mounts, cache>>
  BY DEF Ask, PrefixInv
<1>4. \/ calls' = calls /\ mounted' = mounted
      \/ /\ router \in DOMAIN cache /\ mounted' = Put(mounted, router, cache[router]) /\ calls' = calls
      \/ /\ Incoming(router) # {} /\ router \notin DOMAIN cache
         /\ calls' = <<Called(router)>> /\ mounted' = mounted
  BY DEF Ask, router
<1>5. \A f \in DOMAIN mounted : f \in DOMAIN cache /\ mounted[f] = cache[f]
  BY DEF PrefixInv
<1>6. \A f \in DOMAIN mounted' : f \in DOMAIN cache /\ mounted'[f] = cache[f]
  BY <1>4, <1>5 DEF Put
<1>7. CallsOk(calls', DOMAIN cache)
  <2>1. CASE calls' = calls
    BY <1>1, <2>1
  <2>2. CASE Incoming(router) # {} /\ router \notin DOMAIN cache /\ calls' = <<Called(router)>>
    <3>1. DOMAIN calls = {}
      BY <1>3
    <3>2. CallsOk(<<Called(router)>> \o calls, DOMAIN cache)
      BY <1>1, <1>2, <1>3, <2>2, <3>1, CallIsPushed
    <3>3. <<Called(router)>> \o calls = <<Called(router)>>
      BY <1>3
    <3> QED
      BY <2>2, <3>2, <3>3
  <2> QED
    BY <1>4, <2>1, <2>2
<1>8. PICK stack, lists : stack = calls' /\ lists = cache'
  OBVIOUS
<1> QED
  BY <1>1, <1>3, <1>6, <1>7, <1>8, InvariantIsKept

(* The call on top, and what the mount it follows says. *)
LEMMA TopTells ==
  ASSUME MountsAssumption, mounts \in Seq(Mount), NEW stack, NEW known, CallsOk(stack, known), stack # <<>>
  PROVE  /\ 1 \in DOMAIN stack /\ Head(stack) = stack[1] /\ stack[1] \in Call /\ CallOk(stack[1], known)
         /\ stack[1].file \in Routers /\ stack[1].file \notin known
         /\ stack[1].left # {} => /\ NextMount(stack[1]).parent \in Routers
                                  /\ NextMount(stack[1]).parent \in Above(stack[1].file)
<1> DEFINE call == stack[1]
<1>1. stack \in Seq(Call)
  BY DEF CallsOk
<1>2. 1 \in DOMAIN stack /\ Head(stack) = stack[1] /\ call \in Call
  BY <1>1
<1>3. CallOk(call, known)
  BY <1>2 DEF CallsOk
<1> HIDE DEF call
<1>4. call.file \in Routers /\ call.file \notin known /\ call.left \in SUBSET Nat /\ call.left \subseteq Incoming(call.file)
  BY <1>2, <1>3 DEF Call, CallOk
<1>5. ASSUME call.left # {}
      PROVE  NextMount(call).parent \in ParentsOf(call.file)
  <2>1. Lowest(call.left) \in Incoming(call.file)
    BY <1>4, <1>5, LowestTells
  <2> QED
    BY <2>1, IncomingTells DEF NextMount
<1>6. ParentsOf(call.file) \subseteq Routers /\ ParentsOf(call.file) \subseteq Above(call.file)
  BY IncomingTells, AboveTells
<1> QED
  BY <1>2, <1>3, <1>4, <1>5, <1>6 DEF call

(* The four answers of a parent. *)
LEMMA FollowKeeps ==
  ASSUME PrefixInv, Follow
  PROVE  PrefixInv'
<1> DEFINE call == Head(calls)
           parent == NextMount(call).parent
<1>1. mounts \in Seq(Mount) /\ CacheOk(cache) /\ CallsOk(calls, DOMAIN cache) /\ MountsAssumption
  BY MountsAssumption DEF PrefixInv
<1>2. calls # <<>> /\ call.left # {} /\ UNCHANGED <<mounts, asking, mounted>>
  BY DEF Follow
<1>3. /\ 1 \in DOMAIN calls /\ call = calls[1] /\ call \in Call /\ CallOk(call, DOMAIN cache)
      /\ call.file \in Routers /\ call.file \notin DOMAIN cache /\ parent \in Routers
      /\ parent \in Above(call.file)
  BY <1>1, <1>2, TopTells
<1>4. \/ /\ parent \in DOMAIN cache
         /\ calls' = <<Resumed(call, cache[parent])>> \o Tail(calls)
         /\ cache' = cache
      \/ /\ parent \in Entered
         /\ calls' = <<Resumed(call, <<>>)>> \o Tail(calls)
         /\ cache' = cache
      \/ /\ parent \notin DOMAIN cache \cup Entered /\ Incoming(parent) = {}
         /\ calls' = <<Resumed(call, Unmounted)>> \o Tail(calls)
         /\ cache' = Put(cache, parent, Unmounted)
      \/ /\ parent \notin DOMAIN cache \cup Entered /\ Incoming(parent) # {}
         /\ calls' = <<Called(parent)>> \o calls
         /\ cache' = cache
  BY DEF Follow
<1>5. Whole(call.file) => Whole(parent)
  BY <1>1, <1>3, WholeAbove
<1>6. \A f \in DOMAIN mounted : f \in DOMAIN cache /\ mounted[f] = cache[f]
  BY DEF PrefixInv
<1>7. asking' \subseteq Routers
  BY <1>2 DEF PrefixInv
<1> HIDE DEF call, parent
<1>8. ASSUME cache' = cache, CallsOk(calls', DOMAIN cache)
      PROVE  PrefixInv'
  <2>1. PICK stack, lists : stack = calls' /\ lists = cache'
    OBVIOUS
  <2>2. \A f \in DOMAIN mounted' : f \in DOMAIN lists /\ mounted'[f] = lists[f]
    BY <1>2, <1>6, <1>8, <2>1
  <2> QED
    BY <1>1, <1>2, <1>7, <1>8, <2>1, <2>2, InvariantIsKept
<1>9. ASSUME NEW bases \in Seq(Path), NEW known,
             CallsOk(calls, known), parent \in known \/ bases = <<>>,
             \A base \in Range(bases) : KnownPrefix(base, parent, known),
             Whole(call.file) => UrlPrefixes(parent) \subseteq Range(bases)
      PROVE  CallsOk(<<Resumed(call, bases)>> \o Tail(calls), known)
  <2> DEFINE resumed == Resumed(call, bases)
  <2>1. CallOk(call, known)
    BY <1>1, <1>2, <1>3, <1>9, TopTells
  <2>2. \A base \in Range(bases) : parent \in known /\ KnownPrefix(base, parent, known)
    BY <1>9 DEF Range
  <2>3. resumed \in Call /\ resumed.file = call.file /\ CallOk(resumed, known)
    BY <1>1, <1>2, <1>3, <1>9, <2>1, <2>2, ResumedTells DEF parent
  <2> HIDE DEF resumed
  <2>4. CallsOk(<<resumed>> \o Tail(calls), known)
    BY <1>2, <1>3, <1>9, <2>3, CallIsReplaced
  <2> QED
    BY <2>4 DEF resumed
<1>10. CASE parent \in DOMAIN cache /\ calls' = <<Resumed(call, cache[parent])>> \o Tail(calls) /\ cache' = cache
  <2>1. ListOk(cache[parent], parent, DOMAIN cache) /\ (Whole(parent) => UrlPrefixes(parent) \subseteq Range(cache[parent]))
    BY <1>1, <1>10 DEF CacheOk
  <2>2. /\ cache[parent] \in Seq(Path)
        /\ \A base \in Range(cache[parent]) : KnownPrefix(base, parent, DOMAIN cache)
    BY <2>1 DEF ListOk
  <2>3. CallsOk(<<Resumed(call, cache[parent])>> \o Tail(calls), DOMAIN cache)
    BY <1>1, <1>5, <1>9, <1>10, <2>1, <2>2
  <2> QED
    BY <1>8, <1>10, <2>3
<1>11. CASE parent \in Entered /\ calls' = <<Resumed(call, <<>>)>> \o Tail(calls) /\ cache' = cache
  <2>1. PICK j \in DOMAIN calls : parent = calls[j].file
    BY <1>11 DEF Entered
  <2>2. ~Whole(call.file)
    BY <1>1, <1>2, <1>3, <2>1, EnteredIsInCycle DEF parent
  <2>3. <<>> \in Seq(Path) /\ Range(<<>>) = {}
    BY DEF Range
  <2>4. CallsOk(<<Resumed(call, <<>>)>> \o Tail(calls), DOMAIN cache)
    BY <1>1, <1>9, <2>2, <2>3
  <2> QED
    BY <1>8, <1>11, <2>4
<1>12. CASE /\ parent \notin DOMAIN cache \cup Entered /\ Incoming(parent) = {}
            /\ calls' = <<Resumed(call, Unmounted)>> \o Tail(calls)
            /\ cache' = Put(cache, parent, Unmounted)
  <2> DEFINE known == DOMAIN cache \cup {parent}
  <2>1. ListOk(Unmounted, parent, known) /\ UrlPrefixes(parent) \subseteq Range(Unmounted)
    BY <1>1, <1>12, UnmountedIsWhole
  <2>2. /\ CacheOk(cache') /\ DOMAIN cache' = known
        /\ \A f \in DOMAIN cache : cache'[f] = cache[f]
    <3> DEFINE kept == Put(cache, parent, Unmounted)
    <3>1. /\ CacheOk(cache) /\ parent \in Routers \ DOMAIN cache
          /\ ListOk(Unmounted, parent, DOMAIN cache \cup {parent}) /\ UrlPrefixes(parent) \subseteq Range(Unmounted)
      BY <1>1, <1>3, <1>12, <2>1
    <3>2. /\ CacheOk(kept) /\ DOMAIN kept = known
          /\ \A f \in DOMAIN cache : kept[f] = cache[f]
      BY <3>1, CacheIsPut
    <3>3. cache' = kept
      BY <1>12
    <3> HIDE DEF kept, known
    <3> QED
      BY <3>2, <3>3
  <2> HIDE DEF known
  <2>3. \A k \in DOMAIN calls : calls[k].file \notin known
    BY <1>1, <1>12 DEF CallsOk, CallOk, Entered, known
  <2>4. CallsOk(calls, known)
    <3>1. DOMAIN cache \subseteq known
      BY DEF known
    <3> QED
      BY <1>1, <2>3, <3>1, MoreIsKnown
  <2>5. /\ Unmounted \in Seq(Path) /\ parent \in known
        /\ \A base \in Range(Unmounted) : KnownPrefix(base, parent, known)
    BY <2>1 DEF ListOk, known
  <2>6. CallsOk(calls', known)
    BY <1>9, <1>12, <2>1, <2>4, <2>5
  <2>7. PICK stack, lists : stack = calls' /\ lists = cache'
    OBVIOUS
  <2>8. \A f \in DOMAIN mounted' : f \in DOMAIN lists /\ mounted'[f] = lists[f]
    BY <1>2, <1>6, <2>2, <2>7 DEF known
  <2> QED
    BY <1>1, <1>2, <1>7, <2>2, <2>6, <2>7, <2>8, InvariantIsKept
<1>13. CASE /\ parent \notin DOMAIN cache \cup Entered /\ Incoming(parent) # {}
            /\ calls' = <<Called(parent)>> \o calls /\ cache' = cache
  <2>1. \A k \in DOMAIN calls : calls[k].file # parent
    BY <1>13 DEF Entered
  <2>2. CallsOk(<<Called(parent)>> \o calls, DOMAIN cache)
    BY <1>1, <1>2, <1>3, <1>13, <2>1, CallIsPushed DEF parent
  <2> QED
    BY <1>8, <1>13, <2>2
<1> QED
  BY <1>4, <1>10, <1>11, <1>12, <1>13

(* What the call on top has collected is kept and given to its caller. *)
LEMMA ReturnKeeps ==
  ASSUME PrefixInv, Return
  PROVE  PrefixInv'
<1> DEFINE call == Head(calls)
           known == DOMAIN cache \cup {call.file}
           rest == Tail(calls)
<1>1. mounts \in Seq(Mount) /\ CacheOk(cache) /\ CallsOk(calls, DOMAIN cache) /\ MountsAssumption
  BY MountsAssumption DEF PrefixInv
<1>2. calls # <<>> /\ call.left = {} /\ UNCHANGED <<mounts, asking>>
  BY DEF Return
<1>3. /\ 1 \in DOMAIN calls /\ call = calls[1] /\ call \in Call /\ CallOk(call, DOMAIN cache)
      /\ call.file \in Routers /\ call.file \notin DOMAIN cache
  BY <1>1, <1>2, TopTells
<1>4. cache' = Put(cache, call.file, call.collected)
  BY DEF Return
<1>5. \/ /\ rest = <<>> /\ calls' = <<>> /\ mounted' = Put(mounted, call.file, call.collected)
      \/ /\ rest # <<>> /\ mounted' = mounted
         /\ calls' = <<Resumed(calls[2], call.collected)>> \o Tail(rest)
  BY DEF Return
<1>6. \A f \in DOMAIN mounted : f \in DOMAIN cache /\ mounted[f] = cache[f]
  BY DEF PrefixInv
<1>7. asking' \subseteq Routers
  BY <1>2 DEF PrefixInv
<1>8. calls \in Seq(Call)
  BY <1>1 DEF CallsOk
<1>9. /\ rest \in Seq(Call) /\ \A k \in DOMAIN rest : k + 1 \in DOMAIN calls /\ rest[k] = calls[k + 1]
      /\ rest # <<>> => 1 \in DOMAIN rest /\ 2 \in DOMAIN calls /\ rest[1] = calls[2]
      /\ \A k \in DOMAIN rest : k + 1 # 1
  <2>1. /\ rest \in Seq(Call) /\ \A k \in DOMAIN rest : k + 1 \in DOMAIN calls /\ rest[k] = calls[k + 1]
        /\ rest # <<>> => 1 \in DOMAIN rest /\ 2 \in DOMAIN calls
    BY <1>2, <1>8, TailPlaces
  <2>2. \A k \in DOMAIN rest : k \in Nat /\ k # 0
    BY <2>1
  <2> HIDE DEF rest
  <2> QED
    BY <2>1, <2>2
<1> HIDE DEF call
<1>10. ListOk(call.collected, call.file, known)
  <2>1. DOMAIN cache \subseteq known
    OBVIOUS
  <2> HIDE DEF known
  <2> QED
    BY <1>3, <2>1, MoreIsKnown DEF CallOk
<1>11. Whole(call.file) => UrlPrefixes(call.file) \subseteq Range(call.collected)
  BY <1>1, <1>2, <1>3, ReturnedIsWhole
<1>12. /\ CacheOk(cache') /\ DOMAIN cache' = known /\ cache'[call.file] = call.collected
       /\ \A f \in DOMAIN cache : cache'[f] = cache[f]
  <2> DEFINE kept == Put(cache, call.file, call.collected)
  <2>1. /\ CacheOk(kept) /\ DOMAIN kept = known /\ kept[call.file] = call.collected
        /\ \A f \in DOMAIN cache : kept[f] = cache[f]
    <3> DEFINE router == call.file
               list == call.collected
    <3>1. /\ CacheOk(cache) /\ router \in Routers \ DOMAIN cache
          /\ ListOk(list, router, DOMAIN cache \cup {router})
          /\ Whole(router) => UrlPrefixes(router) \subseteq Range(list)
      BY <1>1, <1>3, <1>10, <1>11
    <3> HIDE DEF router, list, known, kept
    <3>2. /\ CacheOk(Put(cache, router, list)) /\ DOMAIN Put(cache, router, list) = DOMAIN cache \cup {router}
          /\ Put(cache, router, list)[router] = list
          /\ \A f \in DOMAIN cache : Put(cache, router, list)[f] = cache[f]
      BY <3>1, CacheIsPut
    <3> QED
      BY <3>2 DEF router, list, known, kept
  <2> HIDE DEF kept, known
  <2>2. cache' = kept
    BY <1>4 DEF kept
  <2> QED
    BY <2>1, <2>2
<1>13. CallsOk(rest, known)
  <2>1. CallsOk(rest, DOMAIN cache)
    BY <1>1, <1>2, CallIsGone
  <2>2. \A k \in DOMAIN rest : rest[k].file # call.file
    <3> SUFFICES ASSUME NEW k \in DOMAIN rest, rest[k].file = call.file
                 PROVE  FALSE
      OBVIOUS
    <3> DEFINE i == k + 1
    <3>1. i \in DOMAIN calls /\ i # 1 /\ calls[i].file = calls[1].file
      BY <1>3, <1>9
    <3> HIDE DEF i
    <3> QED
      BY <1>1, <1>3, <3>1 DEF CallsOk
  <2> HIDE DEF rest
  <2>3. \A k \in DOMAIN rest : rest[k].file \notin known
    BY <2>1, <2>2 DEF CallsOk, CallOk
  <2>4. DOMAIN cache \subseteq known
    OBVIOUS
  <2> HIDE DEF known
  <2> QED
    BY <2>1, <2>3, <2>4, MoreIsKnown
<1>14. CallsOk(calls', known)
  <2>1. CASE rest = <<>> /\ calls' = <<>>
    BY <1>13, <2>1
  <2>2. CASE rest # <<>> /\ calls' = <<Resumed(calls[2], call.collected)>> \o Tail(rest)
    <3> DEFINE caller == rest[1]
               resumed == Resumed(caller, call.collected)
    <3>1. caller = calls[2] /\ 1 \in DOMAIN rest /\ 2 \in DOMAIN calls
      BY <1>9, <2>2
    <3>2. caller \in Call /\ CallOk(caller, known)
      <4> HIDE DEF rest, known
      <4> QED
        BY <1>1, <1>13, <2>2, TopTells
    <3>3. caller.left # {} /\ NextMount(caller).parent = call.file
      <4>1. 1 \in DOMAIN calls /\ 1 + 1 = 2
        BY <1>3
      <4>2. calls[1 + 1].left # {} /\ NextMount(calls[1 + 1]).parent = calls[1].file
        BY <1>1, <3>1, <4>1 DEF CallsOk
      <4> QED
        BY <1>3, <3>1, <4>1, <4>2
    <3>4. call.file \in known
      OBVIOUS
    <3>5. Whole(caller.file) => Whole(call.file)
      <4>1. call.file \in Above(caller.file)
        <5> HIDE DEF rest, known
        <5> QED
          BY <1>1, <1>13, <2>2, <3>3, TopTells
      <4> HIDE DEF caller
      <4> QED
        BY <1>1, <4>1, WholeAbove
    <3> HIDE DEF caller, known
    <3>6. call.collected \in Seq(Path) /\ \A base \in Range(call.collected) : KnownPrefix(base, call.file, known)
      BY <1>10 DEF ListOk
    <3>7. resumed \in Call /\ resumed.file = caller.file /\ CallOk(resumed, known)
      BY <1>1, <1>11, <3>2, <3>3, <3>4, <3>5, <3>6, ResumedTells
    <3> HIDE DEF resumed
    <3>8. CallsOk(<<resumed>> \o Tail(rest), known)
      <4>1. rest[1] = caller
        BY DEF caller
      <4> HIDE DEF rest
      <4> QED
        BY <1>13, <2>2, <3>7, <4>1, CallIsReplaced
    <3> QED
      BY <2>2, <3>1, <3>8 DEF resumed
  <2> QED
    BY <1>5, <2>1, <2>2
<1>15. PICK stack, lists : stack = calls' /\ lists = cache'
  OBVIOUS
<1>16. \A f \in DOMAIN mounted' : f \in DOMAIN lists /\ mounted'[f] = lists[f]
  BY <1>3, <1>5, <1>6, <1>12, <1>15 DEF Put
<1> QED
  BY <1>1, <1>2, <1>7, <1>12, <1>14, <1>15, <1>16, InvariantIsKept

(* Every step keeps the invariant. *)
LEMMA PrefixStepKeeps == PrefixInv /\ [MountsNext]_mountVars => PrefixInv'
<1> SUFFICES ASSUME PrefixInv, [MountsNext]_mountVars
             PROVE  PrefixInv'
  OBVIOUS
<1>1. CASE UNCHANGED mountVars
  <2>1. PICK stack, lists : stack = calls' /\ lists = cache'
    OBVIOUS
  <2>2. /\ asking' \subseteq Routers /\ UNCHANGED mounts /\ CacheOk(lists) /\ CallsOk(stack, DOMAIN lists)
        /\ \A f \in DOMAIN mounted' : f \in DOMAIN lists /\ mounted'[f] = lists[f]
    BY <1>1, <2>1 DEF mountVars, PrefixInv
  <2> QED
    BY <2>1, <2>2, InvariantIsKept
<1>2. CASE Ask
  BY <1>2, AskKeeps
<1>3. CASE Follow
  BY <1>3, FollowKeeps
<1>4. CASE Return
  BY <1>4, ReturnKeeps
<1> QED
  BY <1>1, <1>2, <1>3, <1>4 DEF MountsNext

(* What the cache holds is exact, and what is joined is what it holds. *)
LEMMA PrefixesFollow == PrefixInv => PrefixesAreExact
<1> SUFFICES ASSUME PrefixInv
             PROVE  PrefixesAreExact
  OBVIOUS
<1>1. mounts \in Seq(Mount) /\ CacheOk(cache) /\ MountsAssumption
  BY MountsAssumption DEF PrefixInv
<1>2. ASSUME NEW router \in DOMAIN cache
      PROVE  Range(cache[router]) \subseteq UrlPrefixes(router)
  <2>1. router \in Routers /\ ListOk(cache[router], router, DOMAIN cache)
    BY <1>1 DEF CacheOk
  <2> QED
    BY <1>1, <2>1, KnownIsPrefix
<1>3. ASSUME NEW router \in DOMAIN mounted,
             \A f \in {router} \cup Above(router) : ~InCycle(f) /\ Cardinality(UrlPrefixes(f)) < MaxPrefixes
      PROVE  Range(mounted[router]) = UrlPrefixes(router)
  <2>1. router \in DOMAIN cache /\ mounted[router] = cache[router]
    BY DEF PrefixInv
  <2>2. UrlPrefixes(router) \subseteq Range(cache[router])
    BY <1>1, <1>3, <2>1 DEF CacheOk, Whole
  <2> QED
    BY <1>2, <2>1, <2>2
<1>4. PrefixesAreChains
  BY <1>2 DEF PrefixesAreChains
<1>5. ChainsAreComplete
  BY <1>3 DEF ChainsAreComplete
<1> QED
  BY <1>4, <1>5 DEF PrefixesAreExact

(* For every list of mounts and every order in which the files are asked    *)
(* for, a prefix that is joined to the endpoints of a file is the URL of a  *)
(* chain of mounts from a file that is not mounted, and a file that no      *)
(* cycle leads to gets those of all its chains unless the limit has cut a   *)
(* list: the cache that all files share makes no difference.                *)
THEOREM PrefixesOfMountsAreExact == MountsSpec => []PrefixesAreExact
<1>1. MountsSpec => []PrefixInv
  BY MountsInitHolds, PrefixStepKeeps, PTL DEF MountsSpec
<1> QED
  BY <1>1, PrefixesFollow, PTL

-----------------------------------------------------------------------------
(* Names: what a bounded search through re-exports reaches.                 *)

(* A list of files that was extended by some files, each named once.        *)
Extends(old, new, added) ==
  /\ new \in Seq(FileIndex) /\ NoRepeat(new) /\ Len(old) <= Len(new)
  /\ Range(new) = Range(old) \cup added
  /\ \A k \in 1..Len(old) : new[k] = old[k]

LEMMA PushedExtends ==
  ASSUME NEW order \in Seq(FileIndex), NoRepeat(order), NEW one \in FileIndex
  PROVE  Extends(order, Pushed(order, one), {one})
<1> DEFINE more == Append(order, one)
<1>1. Len(order) \in Nat /\ DOMAIN order = 1..Len(order)
  OBVIOUS
<1>2. CASE one \in Range(order)
  BY <1>1, <1>2 DEF Pushed, Extends
<1>3. CASE one \notin Range(order)
  <2>1. /\ more \in Seq(FileIndex) /\ Len(more) = Len(order) + 1
        /\ DOMAIN more = 1..(Len(order) + 1)
        /\ \A k \in 1..Len(order) : more[k] = order[k]
        /\ more[Len(order) + 1] = one
    BY <1>1
  <2> HIDE DEF more
  <2>2. \A k \in 1..(Len(order) + 1) : k \in 1..Len(order) \/ k = Len(order) + 1
    BY <1>1
  <2>3. \A k \in 1..Len(order) : order[k] # one
    BY <1>1, <1>3 DEF Range
  <2>4. NoRepeat(more)
    BY <1>1, <2>1, <2>2, <2>3 DEF NoRepeat
  <2>5. Range(more) = Range(order) \cup {one}
    <3>1. \A x \in Range(order) : x \in Range(more)
      BY <1>1, <2>1 DEF Range
    <3>2. Len(order) + 1 \in DOMAIN more
      BY <1>1, <2>1
    <3>3. one \in Range(more)
      BY <2>1, <3>2 DEF Range
    <3>4. \A x \in Range(more) : x = one \/ x \in Range(order)
      BY <1>1, <2>1, <2>2 DEF Range
    <3> QED
      BY <3>1, <3>3, <3>4
  <2>6. Pushed(order, one) = more
    BY <1>3 DEF Pushed, more
  <2> QED
    BY <1>1, <2>1, <2>4, <2>5, <2>6 DEF Extends
<1> QED
  BY <1>2, <1>3

LEMMA ExtendsTwice ==
  ASSUME NEW a, NEW b, NEW c, NEW S, NEW T, a \in Seq(FileIndex),
         Extends(a, b, S), Extends(b, c, T)
  PROVE  Extends(a, c, S \cup T)
<1>1. Len(a) \in Nat /\ Len(b) \in Nat /\ Len(c) \in Nat
  BY DEF Extends
<1>2. \A k \in 1..Len(a) : k \in 1..Len(b)
  BY <1>1 DEF Extends
<1> QED
  BY <1>1, <1>2 DEF Extends

(* The targets of one file.                                                 *)
LEMMA FollowedByExtends ==
  ASSUME NEW order \in Seq(FileIndex), NoRepeat(order), NEW targets \in Seq(FileIndex)
  PROVE  Extends(order, FollowedBy(order, targets), Range(targets))
<1> DEFINE n == Len(targets)
           S == Seq(FileIndex)
           F == [k \in 1..n |-> [s \in S |-> Pushed(s, targets[k])]]
           Body(w) == [k \in 0..n |-> IF k = 0 THEN order ELSE Pushed(w[k - 1], targets[k])]
           A == CHOOSE w : w = Body(w)
<1>1. FollowedBy(order, targets) = A[n]
  BY DEF FollowedBy
<1>2. /\ n \in Nat /\ DOMAIN targets = 1..n
      /\ \A k \in 1..n : targets[k] \in FileIndex
  OBVIOUS
<1>3. ASSUME NEW s \in S, NEW one \in FileIndex
      PROVE  Pushed(s, one) \in S
  BY DEF Pushed
<1> HIDE DEF n, S
<1>4. F \in [1..n -> [S -> S]] /\ \A k \in 1..n : \A s \in S : F[k][s] = Pushed(s, targets[k])
  BY <1>2, <1>3
<1>5. PICK c : IsIndexedIteration(c, n, S, order, F)
  <2> HIDE DEF F
  <2>1. order \in S
    BY DEF S
  <2> QED
    BY <1>2, <1>4, <2>1, IndexedIterationExists
<1>6. /\ c \in [0..n -> S] /\ c[0] = order
      /\ \A k \in 1..n : c[k] = Pushed(c[k - 1], targets[k])
  <2> HIDE DEF F
  <2>1. ASSUME NEW k \in 1..n
        PROVE  c[k - 1] \in S /\ c[k] = F[k][c[k - 1]]
    <3>1. k - 1 \in 0..n
      BY <1>2
    <3> QED
      BY <1>5, <3>1 DEF IsIndexedIteration
  <2> QED
    BY <1>4, <1>5, <2>1 DEF IsIndexedIteration
<1> HIDE DEF F
<1>7. c = Body(c)
  <2>1. \A k \in 0..n : k = 0 \/ k \in 1..n
    BY <1>2
  <2>2. \A k \in 0..n : c[k] = IF k = 0 THEN order ELSE Pushed(c[k - 1], targets[k])
    BY <1>2, <1>6, <2>1
  <2> QED
    BY <1>6, <2>2
<1>8. A = Body(A)
  <2> HIDE DEF Body
  <2> QED
    BY <1>7
<1> HIDE DEF A
<1>9. A[0] = order /\ \A k \in 1..n : A[k] = Pushed(A[k - 1], targets[k])
  <2>1. \A k \in 0..n : A[k] = Body(A)[k]
    <3> HIDE DEF Body
    <3> QED
      BY <1>8
  <2>2. 0 \in 0..n /\ \A k \in 1..n : k \in 0..n /\ k # 0
    BY <1>2
  <2> QED
    BY <2>1, <2>2
<1> HIDE DEF Body
<1> DEFINE first(k) == {targets[j] : j \in 1..k}
           T == {k \in 0..n : Extends(order, A[k], first(k))}
<1>10. 0 \in T
  BY <1>2, <1>9 DEF Extends
<1>11. ASSUME NEW k \in 0..n, k < n, Extends(order, A[k], first(k))
       PROVE  Extends(order, A[k + 1], first(k + 1))
  <2>1. k + 1 \in 1..n /\ k + 1 - 1 = k
    BY <1>2, <1>11
  <2>2. A[k + 1] = Pushed(A[k], targets[k + 1])
    BY <1>9, <2>1
  <2>3. Extends(A[k], A[k + 1], {targets[k + 1]})
    <3>1. A[k] \in Seq(FileIndex) /\ NoRepeat(A[k])
      BY <1>11 DEF Extends
    <3>2. targets[k + 1] \in FileIndex
      BY <1>2, <2>1
    <3> QED
      BY <2>2, <3>1, <3>2, PushedExtends
  <2>4. Extends(order, A[k + 1], first(k) \cup {targets[k + 1]})
    <3> HIDE DEF first
    <3> QED
      BY <1>11, <2>3, ExtendsTwice
  <2>5. first(k + 1) = first(k) \cup {targets[k + 1]}
    <3>1. 1..(k + 1) = 1..k \cup {k + 1}
      BY <1>2
    <3> QED
      BY <3>1
  <2> QED
    BY <2>4, <2>5
<1>12. \A k \in 0..n : k \in T
  <2> HIDE DEF first
  <2>1. \A k \in 0..n : k < n /\ k \in T => k + 1 \in T
    BY <1>2, <1>11
  <2> HIDE DEF T
  <2> QED
    BY <1>2, <1>10, <2>1, BoundedInduction
<1>13. n \in 0..n /\ first(n) = Range(targets)
  BY <1>2 DEF Range
<1>14. Extends(order, A[n], first(n))
  <2> HIDE DEF first
  <2> QED
    BY <1>12, <1>13
<1> QED
  BY <1>1, <1>13, <1>14

(* Every list of re-exported files is one of files.                         *)
ForwardsAreFiles == forwards \in [FileIndex -> Seq(FileIndex)]

(* What the files of a set re-export.                                       *)
Reexported(S) == UNION {Range(forwards[g]) : g \in S}

(* The files after the first `done` were looked at.                         *)
LEMMA ExpandedExtends ==
  ASSUME ForwardsAreFiles, NEW order \in Seq(FileIndex), NoRepeat(order), NEW done \in 0..Len(order)
  PROVE  Extends(order, Expanded(order, done), Reexported({order[j] : j \in (done + 1)..Len(order)}))
<1> DEFINE n == Len(order) - done
           S == {s \in Seq(FileIndex) : NoRepeat(s)}
           F == [k \in 1..n |-> [s \in S |-> FollowedBy(s, forwards[order[done + k]])]]
           Body(w) == [k \in 0..n |-> IF k = 0 THEN order ELSE FollowedBy(w[k - 1], forwards[order[done + k]])]
           A == CHOOSE w : w = Body(w)
<1>1. Expanded(order, done) = A[n]
  BY DEF Expanded
<1>2. /\ n \in Nat /\ DOMAIN order = 1..Len(order) /\ Len(order) \in Nat
      /\ \A k \in 1..n : done + k \in 1..Len(order)
      /\ \A k \in 1..Len(order) : order[k] \in FileIndex
      /\ Len(order) = done + n /\ done \in Nat
  OBVIOUS
<1> HIDE DEF n
<1>3. \A k \in 1..n : forwards[order[done + k]] \in Seq(FileIndex)
  BY <1>2 DEF ForwardsAreFiles
<1>4. ASSUME NEW s \in S, NEW k \in 1..n
      PROVE  /\ FollowedBy(s, forwards[order[done + k]]) \in S
             /\ Extends(s, FollowedBy(s, forwards[order[done + k]]), Range(forwards[order[done + k]]))
  <2>1. Extends(s, FollowedBy(s, forwards[order[done + k]]), Range(forwards[order[done + k]]))
    BY <1>3, FollowedByExtends
  <2> QED
    BY <2>1 DEF Extends
<1>5. order \in S /\ \A s \in S : s \in Seq(FileIndex) /\ NoRepeat(s)
  OBVIOUS
<1> HIDE DEF S
<1>6. F \in [1..n -> [S -> S]] /\ \A k \in 1..n : \A s \in S : F[k][s] = FollowedBy(s, forwards[order[done + k]])
  BY <1>2, <1>4
<1>7. PICK c : IsIndexedIteration(c, n, S, order, F)
  <2> HIDE DEF F
  <2> QED
    BY <1>2, <1>5, <1>6, IndexedIterationExists
<1>8. /\ c \in [0..n -> S] /\ c[0] = order
      /\ \A k \in 1..n : c[k] = FollowedBy(c[k - 1], forwards[order[done + k]])
  <2> HIDE DEF F
  <2>1. ASSUME NEW k \in 1..n
        PROVE  c[k - 1] \in S /\ c[k] = F[k][c[k - 1]]
    <3>1. k - 1 \in 0..n
      BY <1>2
    <3> QED
      BY <1>7, <3>1 DEF IsIndexedIteration
  <2> QED
    BY <1>6, <1>7, <2>1 DEF IsIndexedIteration
<1> HIDE DEF F
<1>9. c = Body(c)
  <2>1. \A k \in 0..n : k = 0 \/ k \in 1..n
    BY <1>2
  <2>2. \A k \in 0..n : c[k] = IF k = 0 THEN order ELSE FollowedBy(c[k - 1], forwards[order[done + k]])
    BY <1>2, <1>8, <2>1
  <2> QED
    BY <1>8, <2>2
<1>10. A = Body(A)
  <2> HIDE DEF Body
  <2> QED
    BY <1>9
<1> HIDE DEF A
<1>11. A[0] = order /\ \A k \in 1..n : A[k] = FollowedBy(A[k - 1], forwards[order[done + k]])
  <2>1. \A k \in 0..n : A[k] = Body(A)[k]
    <3> HIDE DEF Body
    <3> QED
      BY <1>10
  <2>2. 0 \in 0..n /\ \A k \in 1..n : k \in 0..n /\ k # 0
    BY <1>2
  <2> QED
    BY <2>1, <2>2
<1> HIDE DEF Body
<1> DEFINE upto(k) == Reexported({order[done + j] : j \in 1..k})
           T == {k \in 0..n : Extends(order, A[k], upto(k))}
<1>12. 0 \in T
  BY <1>2, <1>11 DEF Extends, Reexported
<1>13. ASSUME NEW k \in 0..n, k < n, Extends(order, A[k], upto(k))
       PROVE  Extends(order, A[k + 1], upto(k + 1))
  <2>1. k + 1 \in 1..n /\ k + 1 - 1 = k
    BY <1>2, <1>13
  <2>2. A[k + 1] = FollowedBy(A[k], forwards[order[done + (k + 1)]])
    BY <1>11, <2>1
  <2>3. A[k] \in S
    BY <1>13 DEF Extends, S
  <2>4. Extends(A[k], A[k + 1], Range(forwards[order[done + (k + 1)]]))
    BY <2>1, <2>2, <2>3, <1>4
  <2>5. Extends(order, A[k + 1], upto(k) \cup Range(forwards[order[done + (k + 1)]]))
    <3> HIDE DEF upto
    <3> QED
      BY <1>13, <2>4, ExtendsTwice
  <2>6. upto(k + 1) = upto(k) \cup Range(forwards[order[done + (k + 1)]])
    <3>1. 1..(k + 1) = 1..k \cup {k + 1}
      BY <1>2
    <3>2. {order[done + j] : j \in 1..(k + 1)} = {order[done + j] : j \in 1..k} \cup {order[done + (k + 1)]}
      BY <3>1
    <3> QED
      BY <3>2 DEF Reexported
  <2> QED
    BY <2>5, <2>6
<1>14. \A k \in 0..n : k \in T
  <2> HIDE DEF upto
  <2>1. \A k \in 0..n : k < n /\ k \in T => k + 1 \in T
    BY <1>2, <1>13
  <2> HIDE DEF T
  <2> QED
    BY <1>2, <1>12, <2>1, BoundedInduction
<1>15. n \in 0..n /\ {order[done + j] : j \in 1..n} = {order[j] : j \in (done + 1)..Len(order)}
  <2>1. \A j \in 1..n : done + j \in (done + 1)..Len(order)
    BY <1>2
  <2>2. \A j \in (done + 1)..Len(order) : j - done \in 1..n /\ done + (j - done) = j
    BY <1>2
  <2> QED
    BY <1>2, <2>1, <2>2
<1>16. Extends(order, A[n], upto(n))
  <2> HIDE DEF upto
  <2> QED
    BY <1>14, <1>15
<1> QED
  BY <1>1, <1>15, <1>16

(* A search: the files found, those before `done` looked at.                *)
SearchOk(s, entry) ==
  /\ s.order \in Seq(FileIndex) /\ NoRepeat(s.order)
  /\ Len(s.order) >= 1 /\ s.order[1] = entry /\ s.done \in 0..Len(s.order)
  /\ \A j \in 1..s.done : Range(forwards[s.order[j]]) \subseteq Range(s.order)

(* One layer finds no file that is not re-exported, and stops only when it  *)
(* has enough of them.                                                      *)
Grown(old, new) ==
  /\ Range(old) \subseteq Range(new) /\ Range(new) \subseteq Range(old) \cup Reexported(Range(old))
  /\ Len(old) > MaxTargets \/ Reexported(Range(old)) \subseteq Range(new)

LEMMA LayerTells ==
  ASSUME ForwardsAreFiles, NEW entry, NEW order, NEW done,
         SearchOk([order |-> order, done |-> done], entry)
  PROVE  LET more == Layer([order |-> order, done |-> done])
         IN  /\ more = [order |-> more.order, done |-> more.done]
             /\ SearchOk(more, entry) /\ Grown(order, more.order)
<1> DEFINE s == [order |-> order, done |-> done]
           new == Expanded(order, done)
           added == Reexported({order[j] : j \in (done + 1)..Len(order)})
<1>1. /\ order \in Seq(FileIndex) /\ NoRepeat(order) /\ Len(order) >= 1 /\ order[1] = entry
      /\ done \in 0..Len(order) /\ \A j \in 1..done : Range(forwards[order[j]]) \subseteq Range(order)
  BY DEF SearchOk
<1>2. CASE Len(order) > MaxTargets
  <2>1. Layer(s) = s
    BY <1>2 DEF Layer
  <2>2. Grown(order, order)
    BY <1>2 DEF Grown
  <2> QED
    BY <2>1, <2>2
<1>3. CASE ~(Len(order) > MaxTargets)
  <2>1. Layer(s) = [order |-> new, done |-> Len(order)]
    BY <1>3 DEF Layer
  <2>2. Extends(order, new, added)
    BY <1>1, ExpandedExtends
  <2> HIDE DEF new
  <2>3. /\ new \in Seq(FileIndex) /\ NoRepeat(new) /\ Len(order) <= Len(new)
        /\ Range(new) = Range(order) \cup added /\ \A k \in 1..Len(order) : new[k] = order[k]
    BY <2>2 DEF Extends
  <2>4. /\ Len(order) \in Nat /\ Len(new) \in Nat /\ 1 \in 1..Len(order) /\ DOMAIN order = 1..Len(order)
        /\ \A j \in 1..Len(order) : j \in 1..done \/ j \in (done + 1)..Len(order)
        /\ \A j \in (done + 1)..Len(order) : j \in 1..Len(order)
    BY <1>1, <2>3
  <2>5. ASSUME NEW j \in 1..Len(order)
        PROVE  Range(forwards[order[j]]) \subseteq Range(new)
    <3>1. CASE j \in 1..done
      BY <1>1, <2>3, <3>1
    <3>2. CASE j \in (done + 1)..Len(order)
      <4>1. Range(forwards[order[j]]) \subseteq added
        BY <3>2 DEF Reexported
      <4> QED
        BY <2>3, <4>1
    <3> QED
      BY <2>4, <3>1, <3>2
  <2>6. Reexported(Range(order)) \subseteq Range(new)
    <3>1. \A g \in Range(order) : \E j \in 1..Len(order) : g = order[j]
      BY <2>4 DEF Range
    <3>2. \A g \in Range(order) : Range(forwards[g]) \subseteq Range(new)
      BY <2>5, <3>1
    <3> QED
      BY <3>2 DEF Reexported
  <2>7. added \subseteq Reexported(Range(order))
    <3>1. {order[j] : j \in (done + 1)..Len(order)} \subseteq Range(order)
      BY <2>4 DEF Range
    <3> QED
      BY <3>1 DEF Reexported
  <2>8. Grown(order, new)
    BY <2>3, <2>6, <2>7 DEF Grown
  <2>9. SearchOk([order |-> new, done |-> Len(order)], entry)
    <3>1. new[1] = entry
      BY <1>1, <2>3, <2>4
    <3>2. \A j \in 1..Len(order) : Range(forwards[new[j]]) \subseteq Range(new)
      BY <2>3, <2>5
    <3>3. Len(order) \in 0..Len(new) /\ Len(new) >= 1
      BY <1>1, <2>3, <2>4
    <3> QED
      BY <2>3, <3>1, <3>2, <3>3 DEF SearchOk
  <2> QED
    BY <2>1, <2>8, <2>9
<1> QED
  BY <1>2, <1>3

(* The lists of a search, layer by layer.                                   *)
IsSearch(w, entry, depth) ==
  /\ DOMAIN w = 0..depth /\ w[0] = <<entry>>
  /\ \A d \in 0..depth : w[d] \in Seq(FileIndex) /\ NoRepeat(w[d]) /\ Len(w[d]) >= 1 /\ w[d][1] = entry
  /\ \A d \in 1..depth : Grown(w[d - 1], w[d])

LEMMA SearchTells ==
  ASSUME ForwardsAreFiles, NEW entry \in FileIndex, NEW depth \in Nat
  PROVE  \E w : IsSearch(w, entry, depth) /\ Search(entry, depth) = w[depth]
<1> DEFINE S == {s \in [order : Seq(FileIndex), done : Nat] : SearchOk(s, entry)}
           start == [order |-> <<entry>>, done |-> 0]
           F == [s \in S |-> Layer(s)]
           Body(w) == [d \in 0..depth |-> IF d = 0 THEN start ELSE Layer(w[d - 1])]
           A == CHOOSE w : w = Body(w)
<1>1. Search(entry, depth) = A[depth].order
  BY DEF Search
<1>2. start \in S
  <2>1. <<entry>> \in Seq(FileIndex) /\ Len(<<entry>>) = 1 /\ NoRepeat(<<entry>>) /\ <<entry>>[1] = entry
    BY DEF NoRepeat
  <2> QED
    BY <2>1 DEF SearchOk
<1>3. ASSUME NEW s \in S
      PROVE  Layer(s) \in S /\ Grown(s.order, Layer(s).order)
  <2> DEFINE order == s.order
             done == s.done
             more == Layer([order |-> order, done |-> done])
  <2>1. s = [order |-> order, done |-> done] /\ SearchOk([order |-> order, done |-> done], entry)
    OBVIOUS
  <2>2. /\ more = [order |-> more.order, done |-> more.done]
        /\ SearchOk(more, entry) /\ Grown(order, more.order)
    <3> HIDE DEF order, done
    <3> QED
      BY <2>1, LayerTells
  <2>3. Layer(s) = more
    BY <2>1
  <2> HIDE DEF more
  <2>4. more.order \in Seq(FileIndex) /\ more.done \in Nat
    BY <2>2 DEF SearchOk
  <2>5. more \in [order : Seq(FileIndex), done : Nat]
    BY <2>2, <2>4
  <2> QED
    BY <2>2, <2>3, <2>5
<1>4. \A s \in S : s.order \in Seq(FileIndex) /\ NoRepeat(s.order) /\ Len(s.order) >= 1 /\ s.order[1] = entry
  BY DEF SearchOk
<1>5. start.order = <<entry>>
  OBVIOUS
<1> HIDE DEF S, start
<1>6. F \in [S -> S] /\ \A s \in S : F[s] = Layer(s)
  BY <1>3
<1>7. PICK c : IsIteration(c, depth, S, start, F)
  <2> HIDE DEF F
  <2> QED
    BY <1>2, <1>6, IterationExists
<1>8. /\ c \in [0..depth -> S] /\ c[0] = start
      /\ \A d \in 1..depth : c[d - 1] \in S /\ c[d] = Layer(c[d - 1])
  <2> HIDE DEF F
  <2>1. ASSUME NEW d \in 1..depth
        PROVE  c[d - 1] \in S /\ c[d] = F[c[d - 1]]
    <3>1. d - 1 \in 0..depth
      OBVIOUS
    <3> QED
      BY <1>7, <3>1 DEF IsIteration
  <2> QED
    BY <1>6, <1>7, <2>1 DEF IsIteration
<1> HIDE DEF F
<1>9. c = Body(c)
  <2>1. \A d \in 0..depth : d = 0 \/ d \in 1..depth
    OBVIOUS
  <2>2. \A d \in 0..depth : c[d] = IF d = 0 THEN start ELSE Layer(c[d - 1])
    BY <1>8, <2>1
  <2> QED
    BY <1>8, <2>2
<1>10. A = Body(A)
  <2> HIDE DEF Body
  <2> QED
    BY <1>9
<1> HIDE DEF A
<1>11. A[0] = start /\ \A d \in 1..depth : A[d] = Layer(A[d - 1])
  <2>1. \A d \in 0..depth : A[d] = Body(A)[d]
    <3> HIDE DEF Body
    <3> QED
      BY <1>10
  <2>2. 0 \in 0..depth /\ \A d \in 1..depth : d \in 0..depth /\ d # 0
    OBVIOUS
  <2> QED
    BY <2>1, <2>2
<1> HIDE DEF Body
<1> DEFINE T == {d \in 0..depth : A[d] \in S}
<1>12. \A d \in 0..depth : d \in T
  <2>1. 0 \in T
    BY <1>2, <1>11
  <2>2. ASSUME NEW d \in 0..depth, d < depth, d \in T
        PROVE  d + 1 \in T
    <3>1. d + 1 \in 1..depth /\ d + 1 - 1 = d /\ d + 1 \in 0..depth
      BY <2>2
    <3> QED
      BY <1>3, <1>11, <2>2, <3>1
  <2> HIDE DEF T
  <2> QED
    BY <2>1, <2>2, BoundedInduction
<1> DEFINE w == [d \in 0..depth |-> A[d].order]
<1>13. ASSUME NEW d \in 1..depth
       PROVE  Grown(w[d - 1], w[d])
  <2>1. d - 1 \in 0..depth /\ d \in 0..depth
    OBVIOUS
  <2>2. A[d - 1] \in S /\ A[d] = Layer(A[d - 1])
    BY <1>11, <1>12, <2>1
  <2>3. Grown(A[d - 1].order, A[d].order)
    BY <1>3, <2>2
  <2> QED
    BY <2>1, <2>3
<1>14. w[0] = <<entry>> /\ w[depth] = Search(entry, depth)
  BY <1>1, <1>5, <1>11
<1>15. \A d \in 0..depth : w[d] \in Seq(FileIndex) /\ NoRepeat(w[d]) /\ Len(w[d]) >= 1 /\ w[d][1] = entry
  BY <1>4, <1>12
<1>16. DOMAIN w = 0..depth
  OBVIOUS
<1>17. IsSearch(w, entry, depth)
  <2> HIDE DEF w
  <2> QED
    BY <1>13, <1>14, <1>15, <1>16 DEF IsSearch
<1> QED
  BY <1>14, <1>17

-----------------------------------------------------------------------------
(* What the imports of a file lead to, step by step.                        *)
Entries(f) == UNION {LocalPath(item) : item \in Range(parsedFiles[f].imports)}

IsReach(c, f) ==
  /\ DOMAIN c = 0..MaxDepth /\ c[0] = Entries(f)
  /\ \A k \in 1..MaxDepth : c[k] = c[k - 1] \cup Reexported(c[k - 1])
  /\ \A k \in 0..MaxDepth : c[k] \subseteq Barrels(f)
  /\ Barrels(f) = c[MaxDepth]

LEMMA LocalPathIsAFile ==
  ASSUME NEW item
  PROVE  LocalPath(item) \subseteq FileIndex
BY DEF LocalPath, FirstIn

LEMMA BarrelsTell ==
  ASSUME ForwardsAreFiles, MaxDepth \in Nat, NEW f
  PROVE  Barrels(f) \subseteq FileIndex /\ \E c : IsReach(c, f)
<1> DEFINE S == SUBSET FileIndex
           F == [s \in S |-> s \cup Reexported(s)]
           Body(w) == [k \in 0..MaxDepth |-> IF k = 0 THEN Entries(f) ELSE w[k - 1] \cup Reexported(w[k - 1])]
           A == CHOOSE w : w = Body(w)
<1>1. Barrels(f) = A[MaxDepth]
  BY DEF Barrels, Entries, Reexported
<1>2. Entries(f) \in S
  BY LocalPathIsAFile DEF Entries
<1>3. \A s \in S : s \cup Reexported(s) \in S
  <2>1. ASSUME NEW s \in S, NEW g \in s
        PROVE  Range(forwards[g]) \subseteq FileIndex
    <3>1. forwards[g] \in Seq(FileIndex)
      BY DEF ForwardsAreFiles
    <3> QED
      BY <3>1 DEF Range
  <2> QED
    BY <2>1 DEF Reexported
<1> HIDE DEF S
<1>4. F \in [S -> S] /\ \A s \in S : F[s] = s \cup Reexported(s)
  BY <1>3
<1>5. PICK c : IsIteration(c, MaxDepth, S, Entries(f), F)
  <2> HIDE DEF F
  <2> QED
    BY <1>2, <1>4, IterationExists
<1>6. /\ c \in [0..MaxDepth -> S] /\ c[0] = Entries(f)
      /\ \A k \in 1..MaxDepth : c[k] = c[k - 1] \cup Reexported(c[k - 1])
  <2> HIDE DEF F
  <2>1. ASSUME NEW k \in 1..MaxDepth
        PROVE  c[k - 1] \in S /\ c[k] = F[c[k - 1]]
    <3>1. k - 1 \in 0..MaxDepth
      OBVIOUS
    <3> QED
      BY <1>5, <3>1 DEF IsIteration
  <2> QED
    BY <1>4, <1>5, <2>1 DEF IsIteration
<1> HIDE DEF F
<1>7. c = Body(c)
  <2>1. \A k \in 0..MaxDepth : k = 0 \/ k \in 1..MaxDepth
    OBVIOUS
  <2>2. \A k \in 0..MaxDepth : c[k] = IF k = 0 THEN Entries(f) ELSE c[k - 1] \cup Reexported(c[k - 1])
    BY <1>6, <2>1
  <2> QED
    BY <1>6, <2>2
<1>8. A = Body(A)
  <2> HIDE DEF Body
  <2> QED
    BY <1>7
<1> HIDE DEF A
<1>9. /\ DOMAIN A = 0..MaxDepth /\ A[0] = Entries(f)
      /\ \A k \in 1..MaxDepth : A[k] = A[k - 1] \cup Reexported(A[k - 1])
  <2>1. DOMAIN A = DOMAIN Body(A) /\ \A k \in 0..MaxDepth : A[k] = Body(A)[k]
    <3> HIDE DEF Body
    <3> QED
      BY <1>8
  <2>2. 0 \in 0..MaxDepth /\ \A k \in 1..MaxDepth : k \in 0..MaxDepth /\ k # 0
    OBVIOUS
  <2> QED
    BY <2>1, <2>2
<1> HIDE DEF Body
<1> DEFINE T == {k \in 0..MaxDepth : A[k] \in S}
           U == {k \in 0..MaxDepth : A[MaxDepth - k] \subseteq A[MaxDepth]}
<1>10. \A k \in 0..MaxDepth : k \in T
  <2>1. 0 \in T
    BY <1>2, <1>9
  <2>2. ASSUME NEW k \in 0..MaxDepth, k < MaxDepth, k \in T
        PROVE  k + 1 \in T
    <3>1. k + 1 \in 1..MaxDepth /\ k + 1 - 1 = k /\ k + 1 \in 0..MaxDepth
      BY <2>2
    <3> QED
      BY <1>3, <1>9, <2>2, <3>1
  <2> HIDE DEF T
  <2> QED
    BY <2>1, <2>2, BoundedInduction
<1>11. \A k \in 0..MaxDepth : k \in U
  <2>1. 0 \in U
    OBVIOUS
  <2>2. ASSUME NEW k \in 0..MaxDepth, k < MaxDepth, k \in U
        PROVE  k + 1 \in U
    <3>1. MaxDepth - k \in 1..MaxDepth /\ MaxDepth - k - 1 = MaxDepth - (k + 1) /\ k + 1 \in 0..MaxDepth
      BY <2>2
    <3>2. A[MaxDepth - (k + 1)] \subseteq A[MaxDepth - k]
      BY <1>9, <3>1
    <3> QED
      BY <2>2, <3>1, <3>2
  <2> HIDE DEF U
  <2> QED
    BY <2>1, <2>2, BoundedInduction
<1>12. ASSUME NEW k \in 0..MaxDepth
       PROVE  A[k] \subseteq Barrels(f)
  <2>1. MaxDepth - k \in 0..MaxDepth /\ MaxDepth - (MaxDepth - k) = k
    OBVIOUS
  <2>2. MaxDepth - k \in U
    <3> HIDE DEF U
    <3> QED
      BY <1>11, <2>1
  <2> QED
    BY <1>1, <2>1, <2>2
<1>13. IsReach(A, f)
  BY <1>1, <1>9, <1>12 DEF IsReach
<1>14. MaxDepth \in 0..MaxDepth /\ A[MaxDepth] \in S
  BY <1>10
<1> QED
  BY <1>1, <1>13, <1>14 DEF S

(* A search finds only what re-exports lead to...                           *)
LEMMA SearchIsSound ==
  ASSUME ForwardsAreFiles, MaxDepth \in Nat, NEW f, NEW c, IsReach(c, f),
         NEW entry \in Entries(f), NEW w, IsSearch(w, entry, MaxDepth)
  PROVE  \A d \in 0..MaxDepth : Range(w[d]) \subseteq c[d]
<1> DEFINE T == {d \in 0..MaxDepth : Range(w[d]) \subseteq c[d]}
<1>1. 0 \in T
  <2>1. Range(<<entry>>) = {entry}
    BY DEF Range
  <2>2. w[0] = <<entry>> /\ c[0] = Entries(f)
    BY DEF IsReach, IsSearch
  <2>3. Range(w[0]) \subseteq c[0]
    BY <2>1, <2>2
  <2> QED
    BY <2>3
<1>2. ASSUME NEW d \in 0..MaxDepth, d < MaxDepth, d \in T
      PROVE  d + 1 \in T
  <2>1. d + 1 \in 1..MaxDepth /\ d + 1 - 1 = d /\ d + 1 \in 0..MaxDepth
    BY <1>2
  <2>2. Grown(w[d], w[d + 1]) /\ c[d + 1] = c[d] \cup Reexported(c[d])
    BY <2>1 DEF IsSearch, IsReach
  <2>3. Reexported(Range(w[d])) \subseteq Reexported(c[d])
    BY <1>2 DEF Reexported
  <2> QED
    BY <1>2, <2>1, <2>2, <2>3 DEF Grown
<1>3. \A d \in 0..MaxDepth : d \in T
  <2> HIDE DEF T
  <2> QED
    BY <1>1, <1>2, BoundedInduction
<1> QED
  BY <1>3

LEMMA ForwardedIsSound ==
  ASSUME ForwardsAreFiles, MaxDepth \in Nat, NEW f, NEW item \in Range(parsedFiles[f].imports)
  PROVE  LocalPath(item) \subseteq Barrels(f) /\ Forwarded(item) \subseteq Barrels(f)
<1>1. PICK c : IsReach(c, f)
  BY BarrelsTell
<1>2. 0 \in 0..MaxDepth /\ MaxDepth \in 0..MaxDepth
  OBVIOUS
<1>3. LocalPath(item) \subseteq Entries(f)
  BY DEF Entries
<1>4. LocalPath(item) \subseteq Barrels(f)
  BY <1>1, <1>2, <1>3 DEF IsReach
<1>5. ASSUME NEW entry \in LocalPath(item)
      PROVE  Range(Search(entry, MaxDepth)) \subseteq Barrels(f)
  <2>1. entry \in FileIndex /\ entry \in Entries(f)
    BY <1>3, LocalPathIsAFile
  <2>2. PICK w : IsSearch(w, entry, MaxDepth) /\ Search(entry, MaxDepth) = w[MaxDepth]
    BY <2>1, SearchTells
  <2>3. Range(w[MaxDepth]) \subseteq c[MaxDepth]
    BY <1>1, <1>2, <2>1, <2>2, SearchIsSound
  <2> QED
    BY <1>1, <2>2, <2>3 DEF IsReach
<1>6. \A g \in Forwarded(item) : \E entry \in LocalPath(item) : g \in Range(Search(entry, MaxDepth))
  BY DEF Forwarded, Range
<1> QED
  BY <1>4, <1>5, <1>6

(* ...and all of it, unless there are too many.                             *)
LEMMA NoRepeatIsWhole ==
  ASSUME NEW list \in Seq(FileIndex), NoRepeat(list), NEW T, IsFiniteSet(T), T \subseteq FileIndex,
         Range(list) \subseteq T, Len(list) >= Cardinality(T)
  PROVE  T \subseteq Range(list)
<1> SUFFICES ASSUME NEW x \in T, x \notin Range(list)
             PROVE  FALSE
  OBVIOUS
<1> DEFINE more == Append(list, x)
<1>1. Pushed(list, x) = more
  BY DEF Pushed
<1>2. Extends(list, more, {x}) /\ x \in FileIndex
  BY <1>1, PushedExtends
<1>3. Len(more) = Len(list) + 1 /\ Len(list) \in Nat
  BY <1>2
<1> HIDE DEF more
<1>4. more \in Seq(FileIndex) /\ NoRepeat(more) /\ Range(more) \subseteq T
  BY <1>2 DEF Extends
<1>5. Len(more) <= Cardinality(T) /\ Cardinality(T) \in Nat
  BY <1>4, NoRepeatIsShort, FS_CardinalityType
<1> QED
  BY <1>3, <1>5

LEMMA ForwardedIsWhole ==
  ASSUME ForwardsAreFiles, MaxDepth \in Nat, MaxTargets \in Nat, IsFiniteSet(FileIndex),
         NEW f, Cardinality(Barrels(f)) <= MaxTargets + 1
  PROVE  \A g \in Barrels(f) : \E item \in Range(parsedFiles[f].imports) :
           g \in LocalPath(item) \cup Forwarded(item)
<1>1. PICK c : IsReach(c, f)
  BY BarrelsTell
<1>2. /\ Barrels(f) \subseteq FileIndex /\ IsFiniteSet(Barrels(f))
      /\ Cardinality(Barrels(f)) \in Nat
  BY BarrelsTell, FS_Subset, FS_CardinalityType
<1>3. 0 \in 0..MaxDepth /\ MaxDepth \in 0..MaxDepth
  OBVIOUS
<1> DEFINE W(entry) == CHOOSE w : IsSearch(w, entry, MaxDepth) /\ Search(entry, MaxDepth) = w[MaxDepth]
<1>4. ASSUME NEW entry \in Entries(f)
      PROVE  IsSearch(W(entry), entry, MaxDepth) /\ Search(entry, MaxDepth) = W(entry)[MaxDepth]
  <2>1. entry \in FileIndex
    BY LocalPathIsAFile DEF Entries
  <2>2. \E w : IsSearch(w, entry, MaxDepth) /\ Search(entry, MaxDepth) = w[MaxDepth]
    BY <2>1, SearchTells
  <2> QED
    BY <2>2
<1> HIDE DEF W
<1>5. ASSUME NEW entry \in Entries(f), NEW d \in 0..MaxDepth
      PROVE  /\ W(entry)[d] \in Seq(FileIndex) /\ NoRepeat(W(entry)[d])
             /\ Range(W(entry)[d]) \subseteq Barrels(f) /\ Len(W(entry)[d]) <= Cardinality(Barrels(f))
             /\ Len(W(entry)[d]) \in Nat
  <2>1. IsSearch(W(entry), entry, MaxDepth)
    BY <1>4
  <2>2. Range(W(entry)[d]) \subseteq c[d]
    BY <1>1, <2>1, SearchIsSound
  <2>3. W(entry)[d] \in Seq(FileIndex) /\ NoRepeat(W(entry)[d])
    BY <2>1 DEF IsSearch
  <2>4. Range(W(entry)[d]) \subseteq Barrels(f)
    BY <1>1, <2>2 DEF IsReach
  <2>5. Len(W(entry)[d]) <= Cardinality(Barrels(f))
    BY <1>2, <2>3, <2>4, NoRepeatIsShort
  <2> QED
    BY <2>3, <2>4, <2>5
<1> DEFINE T == {d \in 0..MaxDepth : \A g \in c[d] : \E entry \in Entries(f) : g \in Range(W(entry)[d])}
<1>6. 0 \in T
  <2>1. \A entry \in Entries(f) : W(entry)[0] = <<entry>>
    BY <1>4 DEF IsSearch
  <2>2. \A entry : entry \in Range(<<entry>>)
    BY DEF Range
  <2> QED
    BY <1>1, <1>3, <2>1, <2>2 DEF IsReach
<1>7. ASSUME NEW d \in 0..MaxDepth, d < MaxDepth, d \in T, NEW g \in c[d + 1]
      PROVE  \E entry \in Entries(f) : g \in Range(W(entry)[d + 1])
  <2>1. d + 1 \in 1..MaxDepth /\ d + 1 - 1 = d /\ d + 1 \in 0..MaxDepth
    BY <1>7
  <2>2. c[d + 1] = c[d] \cup Reexported(c[d]) /\ c[d + 1] \subseteq Barrels(f)
    BY <1>1, <2>1 DEF IsReach
  <2>3. \A entry \in Entries(f) : Grown(W(entry)[d], W(entry)[d + 1])
    BY <1>4, <2>1 DEF IsSearch
  <2>4. CASE g \in c[d]
    BY <1>7, <2>3, <2>4 DEF Grown
  <2>5. ASSUME NEW h \in c[d], g \in Range(forwards[h])
        PROVE  \E entry \in Entries(f) : g \in Range(W(entry)[d + 1])
    <3>1. PICK entry \in Entries(f) : h \in Range(W(entry)[d])
      BY <1>7
    <3>2. g \in Reexported(Range(W(entry)[d])) /\ g \in Barrels(f)
      BY <2>2, <2>5, <3>1 DEF Reexported
    <3>3. CASE Len(W(entry)[d]) > MaxTargets
      <4> DEFINE list == W(entry)[d]
      <4>1. /\ list \in Seq(FileIndex) /\ NoRepeat(list) /\ Range(list) \subseteq Barrels(f)
            /\ Len(list) >= Cardinality(Barrels(f))
        <5>1. /\ list \in Seq(FileIndex) /\ NoRepeat(list) /\ Range(list) \subseteq Barrels(f)
              /\ Len(list) \in Nat
          BY <1>5
        <5>2. \A m, n, t \in Nat : n > t /\ m <= t + 1 => n >= m
          OBVIOUS
        <5>3. Len(list) > MaxTargets /\ Cardinality(Barrels(f)) <= MaxTargets + 1
          BY <3>3
        <5> QED
          BY <1>2, <5>1, <5>2, <5>3
      <4>2. Range(list) \subseteq Range(W(entry)[d + 1])
        BY <2>3 DEF Grown
      <4> HIDE DEF list
      <4>3. Barrels(f) \subseteq Range(list)
        BY <1>2, <4>1, NoRepeatIsWhole
      <4> QED
        BY <3>2, <4>2, <4>3
    <3>4. CASE ~(Len(W(entry)[d]) > MaxTargets)
      BY <2>3, <3>2, <3>4 DEF Grown
    <3> QED
      BY <3>3, <3>4
  <2> QED
    BY <2>2, <2>4, <2>5 DEF Reexported
<1>8. \A d \in 0..MaxDepth : d \in T
  <2>1. ASSUME NEW d \in 0..MaxDepth, d < MaxDepth, d \in T
        PROVE  d + 1 \in T
    <3>1. d + 1 \in 0..MaxDepth
      BY <2>1
    <3> QED
      BY <1>7, <2>1, <3>1
  <2> HIDE DEF T
  <2> QED
    BY <1>6, <2>1, BoundedInduction
<1>9. SUFFICES ASSUME NEW g \in Barrels(f)
               PROVE  \E item \in Range(parsedFiles[f].imports) : g \in LocalPath(item) \cup Forwarded(item)
  OBVIOUS
<1>10. PICK entry \in Entries(f) : g \in Range(W(entry)[MaxDepth])
  BY <1>1, <1>3, <1>8 DEF IsReach
<1>11. PICK item \in Range(parsedFiles[f].imports) : entry \in LocalPath(item)
  BY DEF Entries
<1> DEFINE list == Search(entry, MaxDepth)
<1>12. list \in Seq(FileIndex) /\ g \in Range(list) /\ Len(list) <= MaxTargets + 1 /\ list[1] = entry
  <2>1. list = W(entry)[MaxDepth] /\ IsSearch(W(entry), entry, MaxDepth)
    BY <1>4
  <2> HIDE DEF list
  <2>2. list[1] = entry
    BY <1>3, <2>1 DEF IsSearch
  <2>3. /\ list \in Seq(FileIndex) /\ g \in Range(list)
        /\ Len(list) <= Cardinality(Barrels(f)) /\ Len(list) \in Nat
    BY <1>3, <1>5, <1>10, <2>1
  <2>4. \A m, n, t \in Nat : n <= m /\ m <= t + 1 => n <= t + 1
    OBVIOUS
  <2>5. Len(list) <= MaxTargets + 1
    BY <1>2, <2>3, <2>4
  <2> QED
    BY <2>2, <2>3, <2>5
<1>13. PICK j \in DOMAIN list : g = list[j]
  <2> HIDE DEF list
  <2> QED
    BY <1>12 DEF Range
<1>14. j = 1 \/ (1 < j /\ j <= MaxTargets + 1)
  <2> HIDE DEF list
  <2> QED
    BY <1>12, <1>13
<1>15. CASE j = 1
  BY <1>11, <1>12, <1>13, <1>15
<1>16. CASE 1 < j /\ j <= MaxTargets + 1
  <2>1. g \in Forwarded(item)
    BY <1>11, <1>13, <1>16 DEF Forwarded
  <2> QED
    BY <1>11, <2>1
<1> QED
  BY <1>14, <1>15, <1>16

-----------------------------------------------------------------------------
(* What holds of the names while they are resolved.                         *)
AllSymbols == UNION {{f} \X DOMAIN parsedFiles[f].symbols : f \in FileIndex}

(* What is left belongs to the step; a file of a language whose specifiers  *)
(* are typed re-exports only files of that language.                        *)
NamesTypes ==
  /\ parsedFiles \in Repositories /\ ForwardsAreFiles
  /\ DOMAIN visibleFiles = FileIndex /\ DOMAIN importBindings = FileIndex
  /\ resolving \in {"files", "reexports", "imports", "members", "references"}
  /\ resolving = "files" => pendingItems \subseteq FileIndex \X {0}
  /\ resolving = "reexports" => pendingItems \subseteq ReexportPlaces
  /\ resolving = "imports" => pendingItems \subseteq ImportPlaces
  /\ resolving = "members" => pendingItems = {}
  /\ resolving = "references" => pendingItems \subseteq ReferencePlaces
  /\ \A f \in FileIndex : Language(f) \in PathTyped =>
       \A g \in Range(forwards[f]) : Language(g) = Language(f)

(* Every symbol of a file that was integrated is in the index.              *)
SymbolsAreIndexed ==
  /\ symbolIndex \subseteq AllSymbols
  /\ \A f \in FileIndex : \/ {f} \X DOMAIN parsedFiles[f].symbols \subseteq symbolIndex
                          \/ resolving = "files" /\ <<f, 0>> \in pendingItems

(* A method is linked to the owner before it, or else to the only one.      *)
MethodIsLinked(from, f, k) ==
  IF OwnerBefore(f, k) # {} THEN from = <<f, Min(OwnerBefore(f, k))>>
  ELSE /\ resolving = "references" /\ Cardinality(Owners(<<f, k>>)) = 1
       /\ from = CHOOSE id \in Owners(<<f, k>>) : TRUE

MethodsAreLinked ==
  /\ \A m \in pendingMethods : \E f \in FileIndex : \E k \in Methods(f) : m = <<f, k>> /\ OwnerBefore(f, k) = {}
  /\ \A e \in resolvedEdges : e.kind = "method" =>
       \E f \in FileIndex : \E k \in Methods(f) : e.to = <<f, k>> /\ MethodIsLinked(e.from, f, k)

(* What a file sees is what its imports lead to, and its module.            *)
ImportsLead ==
  /\ resolving \in {"files", "reexports"} => \A f \in FileIndex : visibleFiles[f] = {} /\ importBindings[f] = {}
  /\ \A f \in FileIndex : visibleFiles[f] \subseteq Barrels(f) \cup Peers(f)
  /\ \A f \in FileIndex : \A c \in importBindings[f] : c.path \in Barrels(f) /\
       \E item \in Range(parsedFiles[f].imports) : \E b \in item.bindings : c.local = b.local /\ c.imported = b.imported
  /\ resolving \in {"members", "references"} => \A f \in FileIndex : Peers(f) \subseteq visibleFiles[f]

(* All that the imports taken so far lead to is seen.                       *)
ImportsAreSeen ==
  resolving \in {"imports", "members", "references"} =>
    \A f \in FileIndex : Language(f) \notin PathTyped =>
      \A k \in DOMAIN parsedFiles[f].imports :
        \/ resolving = "imports" /\ <<f, k>> \in pendingItems
        \/ LocalPath(parsedFiles[f].imports[k]) \cup Forwarded(parsedFiles[f].imports[k]) \subseteq visibleFiles[f]

EdgeEvidence(e) ==
  \E r \in Range(parsedFiles[e.from[1]].references) :
    /\ SourceOf(e.from[1], r) = e.from /\ Kind(r) = e.kind /\ e.to \in Meant(e.from[1], r)
    /\ e.to # e.from \/ r.calls
    /\ r.qualified /\ Language(e.from[1]) = "rust" => r.self /\ e.to[1] = e.from[1]
    /\ ~(r.qualified /\ Language(e.from[1]) \in Script)

(* The references taken so far, and only they, are edges.                   *)
ReferencesAreEdges ==
  /\ \A e \in resolvedEdges : e.kind \in {"calls", "uses"} => resolving = "references" /\ EdgeEvidence(e)
  /\ resolving = "references" => \A f \in FileIndex : \A k \in DOMAIN parsedFiles[f].references :
       \/ <<f, k>> \in pendingItems
       \/ \A id \in Resolved(f, parsedFiles[f].references[k]) :
            Edge(SourceOf(f, parsedFiles[f].references[k]), id, Kind(parsedFiles[f].references[k])) \in resolvedEdges

NamesInv ==
  /\ NamesTypes /\ SymbolsAreIndexed /\ MethodsAreLinked
  /\ ImportsLead /\ ImportsAreSeen /\ ReferencesAreEdges

LEMMA RepositoryTells ==
  ASSUME parsedFiles \in Repositories
  PROVE  /\ IsRepository(parsedFiles) /\ FileIndex = 1..Len(parsedFiles) /\ Len(parsedFiles) \in Nat
         /\ IsFiniteSet(FileIndex) /\ MaxDepth \in Nat /\ MaxTargets \in Nat
<1>1. NamesAssumption
  BY NamesAssumption
<1>2. IsRepository(parsedFiles) /\ MaxDepth \in Nat /\ MaxTargets \in Nat
  BY <1>1 DEF NamesAssumption
<1>3. FileIndex = 1..Len(parsedFiles) /\ Len(parsedFiles) \in Nat
  BY <1>2 DEF IsRepository, FileIndex
<1>4. IsFiniteSet(1..Len(parsedFiles))
  BY <1>3, FS_Interval
<1> QED
  BY <1>2, <1>3, <1>4

(* What is drawn from the files and their re-exports stays with them.       *)
LEMMA NamesStay ==
  ASSUME UNCHANGED parsedFiles
  PROVE  /\ FileIndex' = FileIndex /\ AllSymbols' = AllSymbols
         /\ ImportPlaces' = ImportPlaces /\ ReexportPlaces' = ReexportPlaces /\ ReferencePlaces' = ReferencePlaces
         /\ \A f : /\ Language(f)' = Language(f) /\ Methods(f)' = Methods(f) /\ Peers(f)' = Peers(f)
                   /\ \A k : OwnerBefore(f, k)' = OwnerBefore(f, k)
         /\ \A item : LocalPath(item)' = LocalPath(item)
<1>1. FileIndex' = FileIndex
  BY DEF FileIndex
<1>2. \A f : Language(f)' = Language(f)
  BY DEF Language
<1>3. AllSymbols' = AllSymbols
  BY <1>1 DEF AllSymbols
<1>4. ImportPlaces' = ImportPlaces
  BY <1>1 DEF ImportPlaces
<1>5. ReexportPlaces' = ReexportPlaces
  BY <1>1 DEF ReexportPlaces
<1>6. ReferencePlaces' = ReferencePlaces
  BY <1>1 DEF ReferencePlaces
<1>7. \A f : Methods(f)' = Methods(f)
  BY DEF Methods
<1>8. \A f : Peers(f)' = Peers(f)
  BY <1>1, <1>2 DEF Peers
<1>9. \A f : \A k : OwnerBefore(f, k)' = OwnerBefore(f, k)
  BY DEF OwnerBefore
<1>10. \A item : LocalPath(item)' = LocalPath(item)
  BY <1>1 DEF LocalPath
<1> QED
  BY <1>1, <1>2, <1>3, <1>4, <1>5, <1>6, <1>7, <1>8, <1>9, <1>10

LEMMA BarrelsStay ==
  ASSUME UNCHANGED <<parsedFiles, forwards>>
  PROVE  \A f : Barrels(f)' = Barrels(f)
<1> SUFFICES ASSUME NEW f
             PROVE  Barrels(f)' = Barrels(f)
  OBVIOUS
<1> DEFINE Body(entries, w) ==
             [k \in 0..MaxDepth |-> IF k = 0 THEN entries ELSE w[k - 1] \cup UNION {Range(forwards[g]) : g \in w[k - 1]}]
           B(entries) == (CHOOSE w : w = Body(entries, w))[MaxDepth]
<1>1. \A item : LocalPath(item)' = LocalPath(item)
  BY NamesStay
<1>2. Entries(f)' = Entries(f)
  BY <1>1 DEF Entries
<1>3. Barrels(f) = B(Entries(f)) /\ Barrels(f)' = B(Entries(f))'
  BY DEF Barrels, Entries
<1>4. B(Entries(f))' = B(Entries(f))
  BY <1>2
<1> QED
  BY <1>3, <1>4

LEMMA ForwardedStays ==
  ASSUME UNCHANGED <<parsedFiles, forwards>>
  PROVE  \A item : Forwarded(item)' = Forwarded(item)
<1>1. \A item : LocalPath(item)' = LocalPath(item)
  BY NamesStay
<1>2. \A order : \A done : Expanded(order, done)' = Expanded(order, done)
  BY DEF Expanded
<1>3. \A s : Layer(s)' = Layer(s)
  BY <1>2 DEF Layer
<1>4. \A entry : Search(entry, MaxDepth)' = Search(entry, MaxDepth)
  BY <1>3 DEF Search
<1> QED
  BY <1>1, <1>4 DEF Forwarded

LEMMA NamesStart ==
  ASSUME NamesInit
  PROVE  NamesInv
<1>1. NamesTypes
  <2>1. \A f \in FileIndex : forwards[f] = <<>> /\ Range(forwards[f]) = {}
    BY DEF NamesInit, Range
  <2>2. ForwardsAreFiles
    BY DEF NamesInit, ForwardsAreFiles
  <2> QED
    BY <2>1, <2>2 DEF NamesInit, NamesTypes
<1>2. SymbolsAreIndexed
  BY DEF NamesInit, SymbolsAreIndexed
<1>3. MethodsAreLinked
  BY DEF NamesInit, MethodsAreLinked
<1>4. ImportsLead
  BY DEF NamesInit, ImportsLead
<1>5. ImportsAreSeen
  BY DEF NamesInit, ImportsAreSeen
<1>6. ReferencesAreEdges
  BY DEF NamesInit, ReferencesAreEdges
<1> QED
  BY <1>1, <1>2, <1>3, <1>4, <1>5, <1>6 DEF NamesInv

(* A step takes one item, or all items are taken and it turns to the next.  *)
LEMMA StepsTell ==
  ASSUME NamesNext
  PROVE  /\ UNCHANGED parsedFiles
         /\ \/ UNCHANGED resolving /\ \E item \in pendingItems : pendingItems' = pendingItems \ {item}
            \/ StartReexports \/ StartImports \/ StartMembers \/ Members
BY Zenon DEF NamesNext, Integrate, Reexport, SkipInline, Local, Unresolved, Reference, TakeItem, Turn,
       StartReexports, StartImports, StartMembers, Members

LEMMA CandidateIsMeant ==
  ASSUME NEW candidates, NEW paths
  PROVE  FirstIn(candidates, paths) \subseteq Range(candidates) \cap paths
BY DEF FirstIn, Range

LEMMA TypesStep ==
  ASSUME NamesTypes, NamesNext
  PROVE  NamesTypes'
<1>1. UNCHANGED parsedFiles
  BY StepsTell
<1>2. /\ FileIndex' = FileIndex /\ ReexportPlaces' = ReexportPlaces /\ ImportPlaces' = ImportPlaces
      /\ ReferencePlaces' = ReferencePlaces /\ \A f : Language(f)' = Language(f)
  BY <1>1, NamesStay
<1>3. IsRepository(parsedFiles)
  BY RepositoryTells DEF NamesTypes
<1> DEFINE Typed == \A f \in FileIndex : Language(f) \in PathTyped =>
                      \A g \in Range(forwards[f]) : Language(g) = Language(f)
<1>4. ForwardsAreFiles' /\ Typed'
  <2>1. CASE UNCHANGED forwards
    BY <1>2, <2>1 DEF NamesTypes, ForwardsAreFiles
  <2>2. CASE Reexport
    <3>1. PICK item \in pendingItems :
            LET f == item[1]
                to == LocalPath(parsedFiles[f].reexports[item[2]]) \ {f}
            IN  /\ TakeItem("reexports", item)
                /\ \/ UNCHANGED forwards
                   \/ \E g \in to : forwards' = [forwards EXCEPT ![f] = Append(@, g)]
      BY <2>2 DEF Reexport
    <3>2. CASE UNCHANGED forwards
      BY <2>1, <3>2
    <3> DEFINE f == item[1]
               entry == parsedFiles[f].reexports[item[2]]
    <3>3. ASSUME NEW g \in LocalPath(entry), forwards' = [forwards EXCEPT ![f] = Append(@, g)]
          PROVE  ForwardsAreFiles' /\ Typed'
      <4>1. item \in ReexportPlaces
        BY <3>1 DEF NamesTypes, TakeItem
      <4>2. f \in FileIndex /\ item[2] \in DOMAIN parsedFiles[f].reexports
        BY <4>1 DEF ReexportPlaces
      <4>3. entry \in Range(parsedFiles[f].reexports)
        BY <4>2 DEF Range
      <4>4. g \in FileIndex /\ g \in Range(entry.candidates)
        BY CandidateIsMeant DEF LocalPath
      <4>5. Language(f) \in PathTyped => Language(g) = Language(f)
        BY <1>3, <4>2, <4>3, <4>4 DEF IsRepository, FileIndex, Language
      <4> HIDE DEF f, entry
      <4>6. forwards \in [FileIndex -> Seq(FileIndex)] /\ forwards[f] \in Seq(FileIndex)
        BY <4>2 DEF NamesTypes, ForwardsAreFiles
      <4>7. Append(forwards[f], g) \in Seq(FileIndex)
        BY <4>4, <4>6
      <4>8. forwards' \in [FileIndex -> Seq(FileIndex)]
        BY <3>3, <4>6, <4>7
      <4>9. \A h \in FileIndex : \A one \in Range(forwards'[h]) : one \in Range(forwards[h]) \/ (h = f /\ one = g)
        <5> SUFFICES ASSUME NEW h \in FileIndex, NEW one \in Range(forwards'[h])
                     PROVE  one \in Range(forwards[h]) \/ (h = f /\ one = g)
          OBVIOUS
        <5>1. CASE h = f
          <6> DEFINE old == forwards[f]
          <6>1. forwards'[f] = Append(old, g) /\ old \in Seq(FileIndex)
            BY <3>3, <4>2, <4>6
          <6> HIDE DEF old
          <6>2. PICK j \in DOMAIN Append(old, g) : one = Append(old, g)[j]
            BY <5>1, <6>1 DEF Range
          <6>3. \/ j \in DOMAIN old /\ one = old[j]
                \/ one = g
            BY <6>1, <6>2
          <6> QED
            BY <5>1, <6>3 DEF Range, old
        <5>2. CASE h # f
          BY <3>3, <4>6, <5>2
        <5> QED
          BY <5>1, <5>2
      <4>10. Typed'
        BY <1>2, <4>5, <4>9 DEF NamesTypes
      <4> QED
        BY <1>2, <4>8, <4>10 DEF ForwardsAreFiles
    <3> QED
      BY <3>1, <3>2, <3>3
  <2> QED
    BY <2>1, <2>2, Zenon DEF NamesNext, Integrate, StartReexports, StartImports, SkipInline, Local, Unresolved,
                      StartMembers, Members, Reference
<1>5. DOMAIN visibleFiles' = FileIndex /\ DOMAIN importBindings' = FileIndex
  BY Zenon DEF NamesNext, Integrate, StartReexports, StartImports, SkipInline, Local, Unresolved,
         StartMembers, Members, Reference, Reexport, NamesTypes
<1>6. /\ resolving' \in {"files", "reexports", "imports", "members", "references"}
      /\ resolving' = "files" => pendingItems' \subseteq FileIndex \X {0}
      /\ resolving' = "reexports" => pendingItems' \subseteq ReexportPlaces
      /\ resolving' = "imports" => pendingItems' \subseteq ImportPlaces
      /\ resolving' = "members" => pendingItems' = {}
      /\ resolving' = "references" => pendingItems' \subseteq ReferencePlaces
  <2>1. CASE UNCHANGED resolving /\ \E item \in pendingItems : pendingItems' = pendingItems \ {item}
    BY <2>1 DEF NamesTypes
  <2>2. CASE StartReexports
    BY <2>2 DEF StartReexports, Turn
  <2>3. CASE StartImports
    BY <2>3 DEF StartImports, Turn
  <2>4. CASE StartMembers
    BY <2>4 DEF StartMembers, Turn
  <2>5. CASE Members
    BY <2>5 DEF Members, Turn
  <2> QED
    BY <2>1, <2>2, <2>3, <2>4, <2>5, StepsTell
<1> QED
  BY <1>1, <1>2, <1>4, <1>5, <1>6 DEF NamesTypes

(* The step at which each action is taken.                                  *)
Import == SkipInline \/ Local \/ Unresolved

LEMMA StagesTell ==
  ASSUME NamesNext
  PROVE  \/ Integrate /\ resolving = "files" /\ UNCHANGED resolving
         \/ StartReexports /\ resolving = "files" /\ resolving' = "reexports" /\ pendingItems = {}
         \/ Reexport /\ resolving = "reexports" /\ UNCHANGED resolving
         \/ StartImports /\ resolving = "reexports" /\ resolving' = "imports" /\ pendingItems = {} /\ pendingItems' = ImportPlaces
         \/ Import /\ resolving = "imports" /\ UNCHANGED resolving
         \/ StartMembers /\ resolving = "imports" /\ resolving' = "members" /\ pendingItems = {}
         \/ Members /\ resolving = "members" /\ resolving' = "references" /\ pendingItems' = ReferencePlaces
         \/ Reference /\ resolving = "references" /\ UNCHANGED resolving
<1>1. /\ Integrate => resolving = "files" /\ UNCHANGED resolving
      /\ Reexport => resolving = "reexports" /\ UNCHANGED resolving
      /\ Reference => resolving = "references" /\ UNCHANGED resolving
  BY Zenon DEF Integrate, Reexport, Reference, TakeItem
<1>2. SkipInline \/ Local \/ Unresolved => resolving = "imports" /\ UNCHANGED resolving
  BY Zenon DEF SkipInline, Local, Unresolved, TakeItem
<1>3. /\ StartReexports => resolving = "files" /\ resolving' = "reexports" /\ pendingItems = {}
      /\ StartImports => resolving = "reexports" /\ resolving' = "imports" /\ pendingItems = {} /\ pendingItems' = ImportPlaces
      /\ StartMembers => resolving = "imports" /\ resolving' = "members" /\ pendingItems = {}
      /\ Members => resolving = "members" /\ resolving' = "references" /\ pendingItems' = ReferencePlaces
  BY DEF StartReexports, StartImports, StartMembers, Members, Turn
<1> QED
  BY <1>1, <1>2, <1>3 DEF NamesNext, Import

(* Imports and re-exports are no edges of symbols.                          *)
Quiet ==
  /\ UNCHANGED <<symbolIndex, pendingMethods>>
  /\ resolvedEdges \subseteq resolvedEdges'
  /\ \A e \in resolvedEdges' : e \in resolvedEdges \/ e.kind \in {"reexports", "imports"}

LEMMA QuietSteps ==
  ASSUME StartReexports \/ Reexport \/ StartImports \/ Import \/ StartMembers
  PROVE  Quiet
<1>1. CASE StartReexports \/ StartImports \/ StartMembers \/ SkipInline
  BY <1>1 DEF StartReexports, StartImports, StartMembers, SkipInline, Quiet
<1>2. ASSUME NEW from, NEW to, NEW kind \in {"reexports", "imports"},
             resolvedEdges' = resolvedEdges \cup {Edge(from, <<path, 0>>, kind) : path \in to},
             UNCHANGED <<symbolIndex, pendingMethods>>
      PROVE  Quiet
  <2>1. \A path : Edge(from, <<path, 0>>, kind).kind = kind
    BY DEF Edge
  <2>2. \A e \in resolvedEdges' : e \in resolvedEdges \/ \E path : e = Edge(from, <<path, 0>>, kind)
    BY <1>2
  <2>3. \A e \in resolvedEdges' : e \in resolvedEdges \/ e.kind = kind
    BY <2>1, <2>2
  <2> QED
    BY <1>2, <2>3 DEF Quiet
<1>3. CASE Reexport
  <2>1. PICK from, to : resolvedEdges' = resolvedEdges \/ \E g \in to : resolvedEdges' = resolvedEdges \cup {Edge(from, <<g, 0>>, "reexports")}
    BY <1>3 DEF Reexport
  <2>2. UNCHANGED <<symbolIndex, pendingMethods>>
    BY <1>3 DEF Reexport
  <2>3. CASE resolvedEdges' = resolvedEdges
    BY <2>2, <2>3 DEF Quiet
  <2>4. ASSUME NEW g \in to, resolvedEdges' = resolvedEdges \cup {Edge(from, <<g, 0>>, "reexports")}
        PROVE  Quiet
    <3>1. resolvedEdges' = resolvedEdges \cup {Edge(from, <<path, 0>>, "reexports") : path \in {g}}
      BY <2>4
    <3> QED
      BY <1>2, <2>2, <3>1
  <2> QED
    BY <2>1, <2>3, <2>4
<1>4. CASE Local
  <2>1. PICK place \in pendingItems :
          resolvedEdges' = resolvedEdges \cup
            {Edge(<<place[1], 0>>, <<g, 0>>, "imports") :
               g \in Targets(place[1], parsedFiles[place[1]].imports[place[2]])
                        \cup Forwarded(parsedFiles[place[1]].imports[place[2]])}
    BY <1>4 DEF Local
  <2>2. UNCHANGED <<symbolIndex, pendingMethods>>
    BY <1>4 DEF Local
  <2> QED
    BY <1>2, <2>1, <2>2
<1>5. CASE Unresolved
  <2>1. PICK place \in pendingItems : \E to :
          resolvedEdges' = resolvedEdges \cup {Edge(<<place[1], 0>>, <<path, 0>>, "imports") : path \in to}
    BY <1>5 DEF Unresolved
  <2>2. UNCHANGED <<symbolIndex, pendingMethods>>
    BY <1>5 DEF Unresolved
  <2> QED
    BY <1>2, <2>1, <2>2
<1> QED
  BY <1>1, <1>3, <1>4, <1>5 DEF Import

LEMMA SymbolsStep ==
  ASSUME NamesTypes, SymbolsAreIndexed, NamesNext
  PROVE  SymbolsAreIndexed'
<1>1. UNCHANGED parsedFiles
  BY StepsTell
<1>2. FileIndex' = FileIndex /\ AllSymbols' = AllSymbols
  BY <1>1, NamesStay
<1>3. CASE Integrate /\ resolving = "files"
  <2>1. PICK item \in pendingItems :
          /\ TakeItem("files", item)
          /\ symbolIndex' = symbolIndex \cup ({item[1]} \X DOMAIN parsedFiles[item[1]].symbols)
    BY <1>3 DEF Integrate
  <2>2. item \in FileIndex \X {0} /\ pendingItems' = pendingItems \ {item} /\ UNCHANGED resolving
    BY <1>3, <2>1 DEF NamesTypes, TakeItem
  <2>3. item[1] \in FileIndex /\ item = <<item[1], 0>>
    BY <2>2
  <2>4. symbolIndex' \subseteq AllSymbols
    BY <2>1, <2>3 DEF SymbolsAreIndexed, AllSymbols
  <2>5. ASSUME NEW f \in FileIndex
        PROVE  \/ {f} \X DOMAIN parsedFiles[f].symbols \subseteq symbolIndex'
               \/ resolving' = "files" /\ <<f, 0>> \in pendingItems'
    <3>1. CASE f = item[1]
      BY <2>1, <3>1
    <3>2. CASE f # item[1]
      <4>1. <<f, 0>> # item
        BY <2>3, <3>2
      <4> QED
        BY <1>3, <2>1, <2>2, <4>1 DEF SymbolsAreIndexed
    <3> QED
      BY <3>1, <3>2
  <2> QED
    BY <1>1, <1>2, <2>4, <2>5 DEF SymbolsAreIndexed
<1>4. CASE UNCHANGED symbolIndex /\ (resolving # "files" \/ pendingItems = {})
  BY <1>1, <1>2, <1>4 DEF SymbolsAreIndexed
<1>5. Members \/ Reference => UNCHANGED symbolIndex
  BY DEF Members, Reference
<1> QED
  BY <1>3, <1>4, <1>5, StagesTell, QuietSteps DEF Quiet

LEMMA SymbolsAreAll ==
  ASSUME NamesTypes, SymbolsAreIndexed, resolving # "files" \/ pendingItems = {}
  PROVE  symbolIndex = AllSymbols
BY DEF SymbolsAreIndexed, AllSymbols

-----------------------------------------------------------------------------
(* Methods and their owners.                                                *)
LEMMA MethodsStep ==
  ASSUME NamesTypes, MethodsAreLinked, ReferencesAreEdges, NamesNext
  PROVE  MethodsAreLinked'
<1>1. UNCHANGED parsedFiles
  BY StepsTell
<1>2. FileIndex' = FileIndex /\ \A f : Methods(f)' = Methods(f) /\ \A k : OwnerBefore(f, k)' = OwnerBefore(f, k)
  BY <1>1, NamesStay
<1>3. \A from, to, kind : Edge(from, to, kind).kind = kind /\ Edge(from, to, kind).from = from /\ Edge(from, to, kind).to = to
  BY DEF Edge
<1>4. ASSUME NEW f \in FileIndex, NEW k \in Methods(f), NEW from, MethodIsLinked(from, f, k),
             resolving = "references" => resolving' = "references" /\ UNCHANGED symbolIndex
      PROVE  MethodIsLinked(from, f, k)'
  <2>1. UNCHANGED symbolIndex => Owners(<<f, k>>)' = Owners(<<f, k>>)
    BY <1>1 DEF Owners, Language, Symbol
  <2>2. CASE OwnerBefore(f, k) # {}
    BY <1>2, <1>4, <2>2 DEF MethodIsLinked
  <2>3. CASE OwnerBefore(f, k) = {}
    BY <1>2, <1>4, <2>1, <2>3 DEF MethodIsLinked
  <2> QED
    BY <2>2, <2>3
<1>5. ASSUME resolving = "references" => resolving' = "references" /\ UNCHANGED symbolIndex,
             NEW e \in resolvedEdges, e.kind = "method"
      PROVE  \E f \in FileIndex' : \E k \in Methods(f)' : e.to = <<f, k>> /\ MethodIsLinked(e.from, f, k)'
  <2>1. PICK f \in FileIndex : \E k \in Methods(f) : e.to = <<f, k>> /\ MethodIsLinked(e.from, f, k)
    BY <1>5 DEF MethodsAreLinked
  <2>2. PICK k \in Methods(f) : e.to = <<f, k>> /\ MethodIsLinked(e.from, f, k)
    BY <2>1
  <2>3. MethodIsLinked(e.from, f, k)'
    BY <1>4, <1>5, <2>2
  <2> QED
    BY <1>2, <2>2, <2>3
<1>6. CASE Integrate /\ resolving = "files" /\ UNCHANGED resolving
  <2>1. PICK item \in pendingItems :
          LET f == item[1]
              linked == {k \in Methods(f) : OwnerBefore(f, k) # {}}
          IN  /\ TakeItem("files", item)
              /\ pendingMethods' = pendingMethods \cup ({f} \X (Methods(f) \ linked))
              /\ resolvedEdges' = resolvedEdges \cup
                   {Edge(<<f, Min(OwnerBefore(f, k))>>, <<f, k>>, "method") : k \in linked}
    BY <1>6 DEF Integrate
  <2> DEFINE f == item[1]
  <2>2. f \in FileIndex
    BY <1>6 DEF NamesTypes
  <2>3. ASSUME NEW m \in pendingMethods'
        PROVE  \E g \in FileIndex' : \E k \in Methods(g)' : m = <<g, k>> /\ OwnerBefore(g, k)' = {}
    <3>1. CASE m \in pendingMethods
      BY <1>2, <3>1 DEF MethodsAreLinked
    <3>2. CASE m \in {f} \X (Methods(f) \ {k \in Methods(f) : OwnerBefore(f, k) # {}})
      BY <1>2, <2>2, <3>2
    <3> QED
      BY <2>1, <3>1, <3>2
  <2>4. ASSUME NEW e \in resolvedEdges', e.kind = "method"
        PROVE  \E g \in FileIndex' : \E k \in Methods(g)' : e.to = <<g, k>> /\ MethodIsLinked(e.from, g, k)'
    <3>1. CASE e \in resolvedEdges
      BY <1>5, <1>6, <2>4, <3>1
    <3>2. ASSUME NEW k \in Methods(f), OwnerBefore(f, k) # {},
                 e = Edge(<<f, Min(OwnerBefore(f, k))>>, <<f, k>>, "method")
          PROVE  \E g \in FileIndex' : \E j \in Methods(g)' : e.to = <<g, j>> /\ MethodIsLinked(e.from, g, j)'
      <4>1. MethodIsLinked(e.from, f, k)' /\ e.to = <<f, k>>
        BY <1>2, <1>3, <3>2 DEF MethodIsLinked
      <4> QED
        BY <1>2, <2>2, <4>1
    <3> QED
      BY <2>1, <3>1, <3>2
  <2> QED
    BY <2>3, <2>4 DEF MethodsAreLinked
<1>7. CASE Quiet /\ resolving # "references"
  <2>1. \A e \in resolvedEdges' : e.kind = "method" => e \in resolvedEdges
    BY <1>7 DEF Quiet
  <2>2. \A m \in pendingMethods' : \E f \in FileIndex' : \E k \in Methods(f)' : m = <<f, k>> /\ OwnerBefore(f, k)' = {}
    BY <1>2, <1>7 DEF Quiet, MethodsAreLinked
  <2> QED
    BY <1>5, <1>7, <2>1, <2>2 DEF MethodsAreLinked
<1>8. CASE Members /\ resolving = "members" /\ resolving' = "references"
  <2> DEFINE only == {m \in pendingMethods : Cardinality(Owners(m)) = 1 /\ m \notin Owners(m)}
  <2>1. /\ pendingMethods' = {} /\ UNCHANGED symbolIndex
        /\ resolvedEdges' = resolvedEdges \cup {Edge(CHOOSE id \in Owners(m) : TRUE, m, "method") : m \in only}
    BY <1>8 DEF Members
  <2>2. ASSUME NEW e \in resolvedEdges', e.kind = "method"
        PROVE  \E g \in FileIndex' : \E k \in Methods(g)' : e.to = <<g, k>> /\ MethodIsLinked(e.from, g, k)'
    <3>1. CASE e \in resolvedEdges
      BY <1>5, <1>8, <2>2, <3>1
    <3>2. ASSUME NEW m \in only, e = Edge(CHOOSE id \in Owners(m) : TRUE, m, "method")
          PROVE  \E g \in FileIndex' : \E j \in Methods(g)' : e.to = <<g, j>> /\ MethodIsLinked(e.from, g, j)'
      <4>1. m \in pendingMethods /\ Cardinality(Owners(m)) = 1
        OBVIOUS
      <4>2. PICK f \in FileIndex : \E k \in Methods(f) : m = <<f, k>> /\ OwnerBefore(f, k) = {}
        BY <4>1 DEF MethodsAreLinked
      <4>3. PICK k \in Methods(f) : m = <<f, k>> /\ OwnerBefore(f, k) = {}
        BY <4>2
      <4>4. Owners(<<f, k>>)' = Owners(<<f, k>>)
        BY <1>1, <2>1, Zenon DEF Owners, Language, Symbol
      <4>5. MethodIsLinked(e.from, f, k)'
        BY <1>2, <1>3, <1>8, <3>2, <4>1, <4>3, <4>4 DEF MethodIsLinked
      <4>6. e.to = <<f, k>>
        BY <1>3, <3>2, <4>3
      <4> QED
        BY <1>2, <4>5, <4>6
    <3> HIDE DEF only
    <3> QED
      BY <2>1, <3>1, <3>2
  <2>3. \A m \in pendingMethods' : FALSE
    BY <2>1
  <2> QED
    BY <2>2, <2>3 DEF MethodsAreLinked
<1>9. CASE Reference /\ UNCHANGED resolving
  <2>1. UNCHANGED <<symbolIndex, pendingMethods>>
    BY <1>9 DEF Reference
  <2>2. \A e \in resolvedEdges' : e.kind = "method" => e \in resolvedEdges
    <3>1. PICK from, to, kind : kind \in {"calls", "uses"} /\ resolvedEdges' = resolvedEdges \cup {Edge(from, id, kind) : id \in to}
      <4>1. \A r : Kind(r) \in {"calls", "uses"}
        BY DEF Kind
      <4> QED
        BY <1>9, <4>1 DEF Reference
    <3> QED
      BY <1>3, <3>1
  <2>3. \A m \in pendingMethods' : \E f \in FileIndex' : \E k \in Methods(f)' : m = <<f, k>> /\ OwnerBefore(f, k)' = {}
    BY <1>2, <2>1 DEF MethodsAreLinked
  <2> QED
    BY <1>5, <1>9, <2>1, <2>2, <2>3 DEF MethodsAreLinked
<1> QED
  BY <1>6, <1>7, <1>8, <1>9, StagesTell, QuietSteps

-----------------------------------------------------------------------------
(* What a file sees.                                                        *)
LEMMA ImportPlaceTells ==
  ASSUME NamesTypes, NEW place \in pendingItems, TakeItem("imports", place)
  PROVE  /\ place[1] \in FileIndex /\ place[2] \in DOMAIN parsedFiles[place[1]].imports
         /\ place = <<place[1], place[2]>> /\ pendingItems' = pendingItems \ {place}
         /\ parsedFiles[place[1]].imports[place[2]] \in Range(parsedFiles[place[1]].imports)
<1>1. place \in ImportPlaces /\ pendingItems' = pendingItems \ {place}
  BY DEF NamesTypes, TakeItem
<1>2. place[1] \in FileIndex /\ place[2] \in DOMAIN parsedFiles[place[1]].imports /\ place = <<place[1], place[2]>>
  BY <1>1 DEF ImportPlaces
<1> QED
  BY <1>1, <1>2 DEF Range

(* What one import adds.                                                    *)
ImportedNames(item) ==
  (UNION {BoundNames(item, g, FALSE) : g \in LocalPath(item)}) \cup (UNION {BoundNames(item, g, TRUE) : g \in Forwarded(item)})

LEMMA LocalTells ==
  ASSUME Local
  PROVE  \E place \in pendingItems :
           LET f == place[1]
               item == parsedFiles[f].imports[place[2]]
           IN  /\ TakeItem("imports", place) /\ UNCHANGED forwards
               /\ visibleFiles' = [visibleFiles EXCEPT ![f] = @ \cup (LocalPath(item) \cup Forwarded(item))]
               /\ importBindings' = [importBindings EXCEPT ![f] = @ \cup ImportedNames(item)]
<1> DEFINE item(p) == parsedFiles[p[1]].imports[p[2]]
           direct(p) == UNION {BoundNames(item(p), g, FALSE) : g \in LocalPath(item(p))}
           through(p) == UNION {BoundNames(item(p), g, TRUE) : g \in Forwarded(item(p))}
<1>1. PICK place \in pendingItems :
        /\ TakeItem("imports", place)
        /\ visibleFiles' = [visibleFiles EXCEPT ![place[1]] = @ \cup LocalPath(item(place)) \cup Forwarded(item(place))]
        /\ importBindings' = [importBindings EXCEPT ![place[1]] = @ \cup direct(place) \cup through(place)]
  BY Zenon DEF Local
<1>2. UNCHANGED forwards
  BY DEF Local
<1>3. ImportedNames(item(place)) = direct(place) \cup through(place)
  BY DEF ImportedNames
<1> HIDE DEF direct, through
<1>4. \A A, B, C : A \cup B \cup C = A \cup (B \cup C)
  OBVIOUS
<1>5. visibleFiles' = [visibleFiles EXCEPT ![place[1]] = @ \cup (LocalPath(item(place)) \cup Forwarded(item(place)))]
  BY <1>1, <1>4
<1>6. importBindings' = [importBindings EXCEPT ![place[1]] = @ \cup ImportedNames(item(place))]
  BY <1>1, <1>3, <1>4
<1> QED
  BY <1>1, <1>2, <1>5, <1>6, Zenon

LEMMA UnseenTells ==
  ASSUME SkipInline \/ Unresolved
  PROVE  /\ UNCHANGED <<forwards, visibleFiles, importBindings>>
         /\ \E place \in pendingItems :
              /\ TakeItem("imports", place)
              /\ \/ Inline(place[1], parsedFiles[place[1]].imports[place[2]])
                 \/ Targets(place[1], parsedFiles[place[1]].imports[place[2]]) = {}
<1>1. CASE SkipInline
  BY <1>1 DEF SkipInline
<1>2. CASE Unresolved
  BY <1>2, Zenon DEF Unresolved
<1> QED
  BY <1>1, <1>2

(* All re-exports are known before the first import is taken.               *)
LEMMA ForwardsAreMade ==
  ASSUME NamesNext, resolving \in {"imports", "members", "references"}
  PROVE  UNCHANGED forwards
<1>1. Local => UNCHANGED forwards
  BY DEF Local
<1>2. SkipInline \/ Unresolved => UNCHANGED forwards
  BY UnseenTells
<1>3. StartMembers \/ Members \/ Reference => UNCHANGED forwards
  BY DEF StartMembers, Members, Reference
<1> QED
  BY <1>1, <1>2, <1>3, StagesTell DEF Import

BindingsLead(bindings, f) ==
  \A c \in bindings : c.path \in Barrels(f) /\
    \E item \in Range(parsedFiles[f].imports) : \E b \in item.bindings : c.local = b.local /\ c.imported = b.imported

LEMMA BoundNamesLead ==
  ASSUME NEW f, NEW item \in Range(parsedFiles[f].imports), NEW g \in Barrels(f), NEW way
  PROVE  BindingsLead(BoundNames(item, g, way), f)
BY DEF BoundNames, BindingsLead

LEMMA ImportedNamesLead ==
  ASSUME NEW f, NEW item \in Range(parsedFiles[f].imports),
         LocalPath(item) \subseteq Barrels(f), Forwarded(item) \subseteq Barrels(f)
  PROVE  BindingsLead(ImportedNames(item), f)
<1> DEFINE direct(g) == BoundNames(item, g, FALSE)
           through(g) == BoundNames(item, g, TRUE)
           D == UNION {direct(g) : g \in LocalPath(item)}
           T == UNION {through(g) : g \in Forwarded(item)}
<1>1. ASSUME NEW g \in Barrels(f)
      PROVE  BindingsLead(direct(g), f) /\ BindingsLead(through(g), f)
  BY BoundNamesLead
<1>2. ImportedNames(item) = D \cup T
  BY DEF ImportedNames
<1> HIDE DEF direct, through
<1>3. \A c \in D : \E g \in LocalPath(item) : c \in direct(g)
  OBVIOUS
<1>4. \A c \in T : \E g \in Forwarded(item) : c \in through(g)
  OBVIOUS
<1> HIDE DEF D, T
<1> QED
  BY <1>1, <1>2, <1>3, <1>4 DEF BindingsLead

LEMMA ImportsLeadStep ==
  ASSUME NamesTypes, ImportsLead, NamesNext
  PROVE  ImportsLead'
<1>1. UNCHANGED parsedFiles
  BY StepsTell
<1>2. FileIndex' = FileIndex /\ \A f : Peers(f)' = Peers(f)
  BY <1>1, NamesStay
<1>3. /\ DOMAIN visibleFiles = FileIndex /\ DOMAIN importBindings = FileIndex /\ ForwardsAreFiles
      /\ MaxDepth \in Nat
  BY RepositoryTells DEF NamesTypes
<1>4. CASE resolving \in {"files", "reexports"}
  <2>1. UNCHANGED <<visibleFiles, importBindings>>
    BY <1>4, StagesTell DEF Integrate, StartReexports, Reexport, StartImports
  <2>2. \A f \in FileIndex : visibleFiles'[f] = {} /\ importBindings'[f] = {}
    BY <1>4, <2>1 DEF ImportsLead
  <2>3. resolving' \notin {"members", "references"}
    BY <1>4, StagesTell
  <2> QED
    BY <1>2, <2>2, <2>3 DEF ImportsLead
<1>5. CASE resolving \in {"imports", "members", "references"} /\ UNCHANGED forwards
  <2>1. \A f : Barrels(f)' = Barrels(f)
    BY <1>1, <1>5, BarrelsStay
  <2>2. resolving' \notin {"files", "reexports"}
    BY <1>5, StagesTell
  <2>3. SUFFICES ASSUME NEW f \in FileIndex
                 PROVE  /\ visibleFiles'[f] \subseteq Barrels(f) \cup Peers(f)
                        /\ BindingsLead(importBindings'[f], f)
                        /\ resolving' \in {"members", "references"} => Peers(f) \subseteq visibleFiles'[f]
    BY <1>1, <1>2, <2>1, <2>2 DEF ImportsLead, BindingsLead
  <2>4. /\ visibleFiles[f] \subseteq Barrels(f) \cup Peers(f)
        /\ BindingsLead(importBindings[f], f)
        /\ resolving \in {"members", "references"} => Peers(f) \subseteq visibleFiles[f]
    BY DEF ImportsLead, BindingsLead
  <2>5. CASE Local
    <3> DEFINE new(p) == parsedFiles[p[1]].imports[p[2]]
    <3>1. PICK place \in pendingItems :
            /\ TakeItem("imports", place)
            /\ visibleFiles' = [visibleFiles EXCEPT ![place[1]] = @ \cup (LocalPath(new(place)) \cup Forwarded(new(place)))]
            /\ importBindings' = [importBindings EXCEPT ![place[1]] = @ \cup ImportedNames(new(place))]
      BY <2>5, LocalTells
    <3> DEFINE item == new(place)
    <3>2. place[1] \in FileIndex /\ item \in Range(parsedFiles[place[1]].imports)
      BY <3>1, ImportPlaceTells
    <3>3. resolving' \notin {"members", "references"}
      BY <3>1 DEF TakeItem
    <3>4. CASE f # place[1]
      BY <1>3, <2>4, <3>1, <3>3, <3>4
    <3>5. CASE f = place[1]
      <4>1. LocalPath(item) \subseteq Barrels(f) /\ Forwarded(item) \subseteq Barrels(f)
        BY <1>3, <3>2, <3>5, ForwardedIsSound
      <4>2. visibleFiles'[f] = visibleFiles[f] \cup (LocalPath(item) \cup Forwarded(item))
        BY <1>3, <3>1, <3>5
      <4>3. importBindings'[f] = importBindings[f] \cup ImportedNames(item)
        BY <1>3, <3>1, <3>5
      <4> HIDE DEF item
      <4>4. BindingsLead(ImportedNames(item), f)
        BY <3>2, <3>5, <4>1, ImportedNamesLead
      <4>5. BindingsLead(importBindings'[f], f)
        BY <2>4, <4>3, <4>4 DEF BindingsLead
      <4> QED
        BY <2>4, <3>3, <4>1, <4>2, <4>5
    <3> QED
      BY <3>4, <3>5
  <2>6. CASE SkipInline \/ Unresolved
    <3>1. UNCHANGED <<visibleFiles, importBindings>> /\ resolving' = "imports"
      BY <2>6, UnseenTells DEF TakeItem
    <3> QED
      BY <2>4, <3>1
  <2>7. CASE StartMembers
    BY <1>2, <2>4, <2>7 DEF StartMembers
  <2>8. CASE (Members \/ Reference) /\ resolving \in {"members", "references"}
    <3>1. UNCHANGED <<visibleFiles, importBindings>>
      BY <2>8 DEF Members, Reference
    <3> QED
      BY <2>4, <2>8, <3>1
  <2> QED
    BY <1>5, <2>5, <2>6, <2>7, <2>8, StagesTell DEF Import
<1>6. resolving \in {"imports", "members", "references"} => UNCHANGED forwards
  BY ForwardsAreMade
<1> QED
  BY <1>4, <1>5, <1>6 DEF NamesTypes

LEMMA ImportsAreSeenStep ==
  ASSUME NamesTypes, ImportsAreSeen, NamesNext
  PROVE  ImportsAreSeen'
<1>1. UNCHANGED parsedFiles
  BY StepsTell
<1>2. /\ FileIndex' = FileIndex /\ \A f : Language(f)' = Language(f)
      /\ \A item : LocalPath(item)' = LocalPath(item)
  BY <1>1, NamesStay
<1>3. DOMAIN visibleFiles = FileIndex
  BY DEF NamesTypes
<1> DEFINE at(f, k) == parsedFiles[f].imports[k]
<1>4. CASE resolving \in {"files", "reexports"}
  <2>1. resolving' \in {"imports", "members", "references"} => resolving' = "imports" /\ pendingItems' = ImportPlaces
    BY <1>4, StagesTell
  <2>2. \A f \in FileIndex : \A k \in DOMAIN parsedFiles[f].imports : <<f, k>> \in ImportPlaces
    BY DEF ImportPlaces
  <2> QED
    BY <1>1, <1>2, <2>1, <2>2 DEF ImportsAreSeen
<1>5. CASE resolving \in {"imports", "members", "references"} /\ UNCHANGED forwards
  <2>1. \A item : Forwarded(item)' = Forwarded(item)
    BY <1>1, <1>5, ForwardedStays
  <2>2. SUFFICES ASSUME NEW f \in FileIndex, Language(f) \notin PathTyped, NEW k \in DOMAIN parsedFiles[f].imports
                 PROVE  \/ resolving' = "imports" /\ <<f, k>> \in pendingItems'
                        \/ LocalPath(at(f, k)) \cup Forwarded(at(f, k)) \subseteq visibleFiles'[f]
    BY <1>1, <1>2, <2>1 DEF ImportsAreSeen
  <2>3. \/ resolving = "imports" /\ <<f, k>> \in pendingItems
        \/ LocalPath(at(f, k)) \cup Forwarded(at(f, k)) \subseteq visibleFiles[f]
    BY <1>5, <2>2 DEF ImportsAreSeen
  <2>4. CASE Local
    <3>1. PICK place \in pendingItems :
            /\ TakeItem("imports", place)
            /\ visibleFiles' = [visibleFiles EXCEPT
                  ![place[1]] = @ \cup (LocalPath(at(place[1], place[2])) \cup Forwarded(at(place[1], place[2])))]
      BY <2>4, LocalTells
    <3>2. place[1] \in FileIndex /\ place = <<place[1], place[2]>> /\ pendingItems' = pendingItems \ {place}
      BY <3>1, ImportPlaceTells
    <3>3. visibleFiles[f] \subseteq visibleFiles'[f]
      BY <1>3, <3>1
    <3>4. CASE place = <<f, k>>
      BY <1>3, <3>1, <3>4
    <3>5. CASE place # <<f, k>>
      <4>1. resolving' = resolving
        BY <3>1 DEF TakeItem
      <4> HIDE DEF at
      <4> QED
        BY <2>3, <3>2, <3>3, <3>5, <4>1
    <3> QED
      BY <3>4, <3>5
  <2>5. CASE SkipInline \/ Unresolved
    <3>1. PICK place \in pendingItems :
            /\ TakeItem("imports", place)
            /\ Inline(place[1], at(place[1], place[2])) \/ Targets(place[1], at(place[1], place[2])) = {}
      BY <2>5, UnseenTells
    <3>2. UNCHANGED visibleFiles /\ resolving' = resolving /\ pendingItems' = pendingItems \ {place}
      BY <2>5, <3>1, UnseenTells DEF TakeItem
    <3>3. CASE place = <<f, k>>
      <4>1. ~Inline(f, at(f, k)) /\ Targets(f, at(f, k)) = LocalPath(at(f, k))
        BY <2>2 DEF Inline, Targets, PathTyped
      <4>2. Inline(f, at(f, k)) \/ Targets(f, at(f, k)) = {}
        BY <3>1, <3>3
      <4>3. LocalPath(at(f, k)) = {}
        BY <4>1, <4>2
      <4>4. Forwarded(at(f, k)) = {}
        <5> HIDE DEF at
        <5> QED
          BY <4>3 DEF Forwarded
      <4> QED
        BY <4>3, <4>4
    <3>4. CASE place # <<f, k>>
      <4> HIDE DEF at
      <4> QED
        BY <2>3, <3>2, <3>4
    <3> QED
      BY <3>3, <3>4
  <2>6. CASE StartMembers /\ pendingItems = {}
    <3>1. visibleFiles[f] \subseteq visibleFiles'[f]
      BY <2>6 DEF StartMembers
    <3> HIDE DEF at
    <3> QED
      BY <2>3, <2>6, <3>1
  <2>7. CASE (Members \/ Reference) /\ resolving \in {"members", "references"}
    <3>1. UNCHANGED visibleFiles
      BY <2>7 DEF Members, Reference
    <3> HIDE DEF at
    <3> QED
      BY <2>3, <2>7, <3>1
  <2> QED
    BY <1>5, <2>4, <2>5, <2>6, <2>7, StagesTell DEF Import
<1>6. resolving \in {"imports", "members", "references"} => UNCHANGED forwards
  BY ForwardsAreMade
<1> QED
  BY <1>4, <1>5, <1>6 DEF NamesTypes

-----------------------------------------------------------------------------
(* What a reference resolves to.                                            *)
LEMMA OnlyIsOfThem ==
  ASSUME NEW S
  PROVE  Only(S) \subseteq S
BY DEF Only

LEMMA UniqueIsDefined ==
  ASSUME NEW f, NEW name, NEW called
  PROVE  Unique(f, name, called) \subseteq Defined(f, name)
<1> DEFINE D == Defined(f, name)
           C == {id \in D : Callable(id)}
<1>1. Only(D) \subseteq D /\ Only(C) \subseteq D
  <2>1. C \subseteq D
    OBVIOUS
  <2>2. Only(D) \subseteq D /\ Only(C) \subseteq C
    <3> HIDE DEF D, C
    <3> QED
      BY OnlyIsOfThem
  <2> QED
    BY <2>1, <2>2
<1>2. Unique(f, name, called) = Only(D) \/ Unique(f, name, called) = Only(C)
  BY Zenon DEF Unique
<1> QED
  BY <1>1, <1>2

LEMMA DefinedIsIndexed ==
  ASSUME symbolIndex = AllSymbols, NEW f \in FileIndex, NEW name
  PROVE  Defined(f, name) = {id \in symbolIndex : id[1] = f /\ Symbol(id).name = name}
<1>1. ASSUME NEW id \in Defined(f, name)
      PROVE  id \in symbolIndex /\ id[1] = f /\ Symbol(id).name = name
  <2>1. PICK k \in DOMAIN parsedFiles[f].symbols : id = <<f, k>> /\ parsedFiles[f].symbols[k].name = name
    BY DEF Defined
  <2>2. id \in AllSymbols
    BY <2>1 DEF AllSymbols
  <2> QED
    BY <2>1, <2>2 DEF Symbol
<1>2. ASSUME NEW id \in symbolIndex, id[1] = f, Symbol(id).name = name
      PROVE  id \in Defined(f, name)
  <2>1. PICK g \in FileIndex : id \in {g} \X DOMAIN parsedFiles[g].symbols
    BY DEF AllSymbols
  <2>2. id = <<f, id[2]>> /\ id[2] \in DOMAIN parsedFiles[f].symbols
    BY <1>2, <2>1
  <2> QED
    BY <1>2, <2>2 DEF Defined, Symbol
<1> QED
  BY <1>1, <1>2

(* The first scope that has the name is one of the four.                    *)
LEMMA ScopedIsOne ==
  ASSUME NEW f, NEW r
  PROVE  Scoped(f, r) \subseteq Own(f, r) \cup Imported(f, r) \cup InImportedFiles(f, r) \cup RepositoryWide(f, r)
<1>1. \A k \in 1..4 : k = 1 \/ k = 2 \/ k = 3 \/ k = 4
  OBVIOUS
<1>2. /\ Scopes(f, r)[1] = Own(f, r) /\ Scopes(f, r)[2] = Imported(f, r)
      /\ Scopes(f, r)[3] = InImportedFiles(f, r) /\ Scopes(f, r)[4] = RepositoryWide(f, r)
  BY DEF Scopes
<1>3. \A id \in Scoped(f, r) : \E k \in 1..4 : id \in Scopes(f, r)[k]
  BY DEF Scoped
<1> QED
  BY <1>1, <1>2, <1>3

(* If they have at most one symbol it is found.                             *)
LEMMA ScopedFinds ==
  ASSUME NEW f, NEW r, NEW id, Own(f, r) \subseteq {id}, Imported(f, r) \subseteq {id},
         InImportedFiles(f, r) \subseteq {id}, RepositoryWide(f, r) \subseteq {id},
         id \in Own(f, r) \/ id \in InImportedFiles(f, r) \/ id \in RepositoryWide(f, r)
  PROVE  id \in Scoped(f, r)
<1> DEFINE in(k) == Scopes(f, r)[k]
           T == {k \in 1..4 : in(k) # {}}
<1>1. in(1) = Own(f, r) /\ in(2) = Imported(f, r) /\ in(3) = InImportedFiles(f, r) /\ in(4) = RepositoryWide(f, r)
  BY DEF Scopes
<1>2. Scoped(f, r) = UNION {in(k) : k \in {j \in 1..4 : \A i \in 1..(j - 1) : in(i) = {}}}
  BY DEF Scoped
<1> HIDE DEF in
<1>3. T # {} /\ T \subseteq Nat
  BY <1>1
<1>4. PICK k \in T : \A j \in T : k <= j
  <2> HIDE DEF T
  <2> QED
    BY <1>3, SmallestOfNumbers
<1>5. k \in 1..4 /\ in(k) # {} /\ \A i \in 1..(k - 1) : in(i) = {}
  BY <1>4
<1>6. k = 1 \/ k = 2 \/ k = 3 \/ k = 4
  BY <1>5
<1>7. in(k) \subseteq {id}
  BY <1>1, <1>6
<1>8. id \in in(k)
  BY <1>5, <1>7
<1> QED
  BY <1>2, <1>5, <1>8

LEMMA ResolvedIsEvidence ==
  ASSUME NamesTypes, symbolIndex = AllSymbols, ImportsLead, NEW f \in FileIndex,
         NEW r \in Range(parsedFiles[f].references), NEW id \in Resolved(f, r)
  PROVE  EdgeEvidence(Edge(SourceOf(f, r), id, Kind(r)))
<1> DEFINE source == SourceOf(f, r)
           name == r.name
<1>1. source[1] = f
  BY DEF SourceOf
<1>2. IsRepository(parsedFiles) /\ ForwardsAreFiles /\ MaxDepth \in Nat
  BY RepositoryTells DEF NamesTypes
<1>3. Barrels(f) \subseteq FileIndex /\ Peers(f) \subseteq FileIndex
  BY <1>2, BarrelsTell DEF Peers
<1>4. \A g \in FileIndex : \A n, called : \A x \in Unique(g, n, called) : x \in symbolIndex /\ x[1] = g /\ Symbol(x).name = n
  BY UniqueIsDefined, DefinedIsIndexed
<1>5. /\ id \in Meant(f, r) /\ (id # source \/ r.calls)
      /\ (r.qualified /\ Language(f) = "rust" => r.self /\ id[1] = f)
      /\ ~(r.qualified /\ Language(f) \in Script)
  <2>1. CASE r.qualified /\ Language(f) \in Script
    BY <2>1 DEF Resolved, Script
  <2>2. CASE r.qualified /\ Language(f) = "rust" /\ ~(Language(f) \in Script)
    <3>1. id \in SelfMethod(f, r)
      BY <2>2 DEF Resolved
    <3>2. r.self /\ id \in {x \in Defined(f, name) : Symbol(x).kind = "method"}
      BY <3>1, OnlyIsOfThem DEF SelfMethod
    <3>3. id \in symbolIndex /\ id[1] = f /\ Symbol(id).name = name
      BY <3>2, DefinedIsIndexed
    <3>4. r.calls
      <4>1. PICK k \in DOMAIN parsedFiles[f].references : r = parsedFiles[f].references[k]
        BY DEF Range
      <4> QED
        BY <1>2, <3>2, <4>1 DEF IsRepository, FileIndex
    <3>5. id \in Meant(f, r)
      BY <3>3 DEF Meant
    <3> QED
      BY <2>2, <3>2, <3>3, <3>4, <3>5
  <2>3. CASE ~(r.qualified /\ Language(f) \in Script) /\ ~(r.qualified /\ Language(f) = "rust")
    <3>1. id \in Scoped(f, r)
      BY <2>3 DEF Resolved
    <3>2. CASE id \in Own(f, r)
      <4>1. id \in Unique(f, name, r.calls) /\ (id # source \/ r.calls)
        BY <3>2 DEF Own
      <4>2. id \in symbolIndex /\ id[1] = f /\ Symbol(id).name = name
        BY <1>4, <4>1
      <4>3. id \in Meant(f, r)
        BY <4>2 DEF Meant
      <4> QED
        BY <2>3, <4>1, <4>3
    <3>3. CASE id \in Imported(f, r)
      <4>1. id \in BindingTargets(f, r, FALSE) \/ id \in BindingTargets(f, r, TRUE)
        BY <3>3, OnlyIsOfThem, Zenon DEF Imported
      <4>2. ASSUME NEW way, id \in BindingTargets(f, r, way)
            PROVE  id \in Meant(f, r) /\ id # source
        <5>1. PICK c \in importBindings[f] : c.local = name /\ id \in Unique(c.path, c.imported, r.calls)
          BY <4>2 DEF BindingTargets
        <5>2. id # source
          BY <4>2 DEF BindingTargets
        <5>3. c.path \in Barrels(f) /\ \E item \in Range(parsedFiles[f].imports) : \E b \in item.bindings :
                c.local = b.local /\ c.imported = b.imported
          BY DEF ImportsLead
        <5>4. id \in symbolIndex /\ id[1] = c.path /\ Symbol(id).name = c.imported
          BY <1>3, <1>4, <5>1, <5>3
        <5>5. id \in Meant(f, r)
          BY <5>1, <5>3, <5>4 DEF Meant
        <5> QED
          BY <5>2, <5>5
      <4> QED
        BY <2>3, <4>1, <4>2
    <3>4. CASE id \in InImportedFiles(f, r)
      <4>1. id \in (UNION {Unique(g, name, r.calls) : g \in visibleFiles[f]}) \ {source}
        BY <3>4, OnlyIsOfThem DEF InImportedFiles
      <4>2. PICK g \in visibleFiles[f] : id \in Unique(g, name, r.calls)
        BY <4>1
      <4>3. g \in Barrels(f) \cup Peers(f)
        BY DEF ImportsLead
      <4>4. id \in symbolIndex /\ id[1] = g /\ Symbol(id).name = name
        BY <1>3, <1>4, <4>2, <4>3
      <4>5. id \in Meant(f, r)
        BY <4>3, <4>4 DEF Meant
      <4> QED
        BY <2>3, <4>1, <4>5
    <3>5. CASE id \in RepositoryWide(f, r)
      <4> DEFINE all == {x \in symbolIndex : /\ Language(x[1]) = Language(f) /\ Symbol(x).name = name
                                             /\ x # source \/ r.calls}
      <4>1. Language(f) \notin Script /\ id \in Only(all)
        BY <3>5 DEF RepositoryWide
      <4>2. id \in all
        <5> HIDE DEF all
        <5> QED
          BY <4>1, OnlyIsOfThem
      <4>3. all = {x \in {y \in symbolIndex : Symbol(y).name = name} :
                     /\ Language(x[1]) = Language(f)
                     /\ x # source \/ r.calls}
        OBVIOUS
      <4>4. id \in Meant(f, r)
        BY <4>1, <4>3 DEF Meant
      <4> QED
        BY <2>3, <4>2, <4>4
    <3> QED
      BY <3>1, <3>2, <3>3, <3>4, <3>5, ScopedIsOne
  <2> QED
    BY <2>1, <2>2, <2>3
<1> DEFINE e == Edge(source, id, Kind(r))
<1>6. e.from = source /\ e.to = id /\ e.kind = Kind(r)
  BY DEF Edge
<1> HIDE DEF source, e
<1>7. SourceOf(f, r) = source
  BY DEF source
<1> QED
  BY <1>1, <1>5, <1>6, <1>7 DEF EdgeEvidence, e

(* What a reference means stays while references are resolved.              *)
LEMMA MeaningStays ==
  ASSUME UNCHANGED <<parsedFiles, symbolIndex, forwards, visibleFiles, importBindings>>
  PROVE  /\ \A f, r : Resolved(f, r)' = Resolved(f, r)
         /\ \A e : EdgeEvidence(e)' <=> EdgeEvidence(e)
<1>1. \A f : Language(f)' = Language(f) /\ Peers(f)' = Peers(f)
  BY NamesStay
<1>2. \A f : Barrels(f)' = Barrels(f)
  BY BarrelsStay
<1>3. \A id : Symbol(id)' = Symbol(id)
  BY DEF Symbol
<1>4. \A f, name : Defined(f, name)' = Defined(f, name)
  BY DEF Defined
<1>5. \A id : Callable(id)' <=> Callable(id)
  BY <1>3 DEF Callable
<1>6. \A f, name, called : Unique(f, name, called)' = Unique(f, name, called)
  BY <1>4, <1>5 DEF Unique
<1>7. \A f, r : Own(f, r)' = Own(f, r)
  BY <1>6 DEF Own
<1>8. \A f, r : SelfMethod(f, r)' = SelfMethod(f, r)
  BY <1>3, <1>4 DEF SelfMethod
<1>9. \A f, r, way : BindingTargets(f, r, way)' = BindingTargets(f, r, way)
  BY <1>6 DEF BindingTargets
<1>10. \A f, r : Imported(f, r)' = Imported(f, r)
  BY <1>9 DEF Imported
<1>11. \A f, r : InImportedFiles(f, r)' = InImportedFiles(f, r)
  BY <1>6 DEF InImportedFiles
<1>12. \A f, r : RepositoryWide(f, r)' = RepositoryWide(f, r)
  BY <1>1, <1>3 DEF RepositoryWide
<1>13. \A f, r : Scopes(f, r)' = Scopes(f, r)
  BY <1>7, <1>10, <1>11, <1>12 DEF Scopes
<1>14. \A f, r : Scoped(f, r)' = Scoped(f, r)
  BY <1>13 DEF Scoped
<1>15. \A f, r : Resolved(f, r)' = Resolved(f, r)
  BY <1>1, <1>8, <1>14 DEF Resolved
<1>16. ASSUME NEW f, NEW r
       PROVE  Meant(f, r)' = Meant(f, r)
  <2> DEFINE named == {id \in symbolIndex : Symbol(id).name = r.name}
             renamed == {id \in symbolIndex : \E item \in Range(parsedFiles[f].imports) : \E b \in item.bindings :
                           b.local = r.name /\ b.imported = Symbol(id).name}
             same == {id \in named : /\ Language(id[1]) = Language(f)
                                     /\ id # SourceOf(f, r) \/ r.calls}
             far == IF Language(f) \in Script THEN {} ELSE Only(same)
  <2>1. Meant(f, r) = {id \in named : id[1] \in {f} \cup Barrels(f) \cup Peers(f)}
                        \cup {id \in renamed : id[1] \in Barrels(f)} \cup far
    BY DEF Meant
  <2>2. Meant(f, r)' = ({id \in named : id[1] \in {f} \cup Barrels(f) \cup Peers(f)}
                        \cup {id \in renamed : id[1] \in Barrels(f)} \cup far)'
    BY DEF Meant
  <2>3. named' = named /\ renamed' = renamed
    BY <1>3
  <2> HIDE DEF named, renamed
  <2>4. SourceOf(f, r)' = SourceOf(f, r)
    BY DEF SourceOf
  <2>5. same' = same
    BY <1>1, <2>3, <2>4
  <2> HIDE DEF same
  <2>6. far' = far
    BY <1>1, <2>5 DEF Only
  <2> HIDE DEF far
  <2> QED
    BY <1>1, <1>2, <2>1, <2>2, <2>3, <2>6
<1>17. \A e : EdgeEvidence(e)' <=> EdgeEvidence(e)
  BY <1>1, <1>16 DEF EdgeEvidence
<1> QED
  BY <1>15, <1>17

LEMMA ReferencesStep ==
  ASSUME NamesTypes, SymbolsAreIndexed, ImportsLead, ReferencesAreEdges, NamesNext
  PROVE  ReferencesAreEdges'
<1>1. UNCHANGED parsedFiles
  BY StepsTell
<1>2. FileIndex' = FileIndex /\ ReferencePlaces' = ReferencePlaces
  BY <1>1, NamesStay
<1> DEFINE at(f, k) == parsedFiles[f].references[k]
           edge(f, k, id) == Edge(SourceOf(f, at(f, k)), id, Kind(at(f, k)))
<1>3. CASE resolving # "references" /\ resolving' # "references"
  <2>1. \A from, to : Edge(from, to, "method").kind = "method"
    BY DEF Edge
  <2>2. \A e \in resolvedEdges' : e \in resolvedEdges \/ e.kind \in {"method", "reexports", "imports"}
    <3>1. CASE Integrate
      <4>1. PICK item \in pendingItems :
              LET f == item[1]
                  linked == {k \in Methods(f) : OwnerBefore(f, k) # {}}
              IN  resolvedEdges' = resolvedEdges \cup
                    {Edge(<<f, Min(OwnerBefore(f, k))>>, <<f, k>>, "method") : k \in linked}
        BY <3>1 DEF Integrate
      <4> QED
        BY <2>1, <4>1
    <3> QED
      BY <1>3, <3>1, StagesTell, QuietSteps DEF Quiet
  <2>3. \A e \in resolvedEdges : e.kind \notin {"calls", "uses"}
    BY <1>3 DEF ReferencesAreEdges
  <2> QED
    BY <1>3, <2>2, <2>3 DEF ReferencesAreEdges
<1>4. CASE Members /\ resolving = "members" /\ resolving' = "references" /\ pendingItems' = ReferencePlaces
  <2>1. \A from, to : Edge(from, to, "method").kind = "method"
    BY DEF Edge
  <2>2. \A e \in resolvedEdges' : e \in resolvedEdges \/ e.kind = "method"
    BY <1>4, <2>1 DEF Members
  <2>3. \A e \in resolvedEdges : e.kind \notin {"calls", "uses"}
    BY <1>4 DEF ReferencesAreEdges
  <2>4. \A f \in FileIndex : \A k \in DOMAIN parsedFiles[f].references : <<f, k>> \in pendingItems'
    BY <1>4 DEF ReferencePlaces
  <2> QED
    BY <1>1, <1>2, <2>2, <2>3, <2>4 DEF ReferencesAreEdges
<1>5. CASE Reference /\ resolving = "references" /\ UNCHANGED resolving
  <2>1. PICK item \in pendingItems :
          /\ TakeItem("references", item)
          /\ resolvedEdges' = resolvedEdges \cup {edge(item[1], item[2], id) : id \in Resolved(item[1], at(item[1], item[2]))}
    BY <1>5 DEF Reference
  <2>2. UNCHANGED <<parsedFiles, symbolIndex, forwards, visibleFiles, importBindings>>
    BY <1>1, <1>5 DEF Reference
  <2>3. /\ \A f, r : Resolved(f, r)' = Resolved(f, r)
        /\ \A e : EdgeEvidence(e)' <=> EdgeEvidence(e)
    BY <2>2, MeaningStays
  <2>4. item \in ReferencePlaces /\ pendingItems' = pendingItems \ {item}
    BY <1>5, <2>1 DEF NamesTypes, TakeItem
  <2>5. item[1] \in FileIndex /\ item[2] \in DOMAIN parsedFiles[item[1]].references /\ item = <<item[1], item[2]>>
    BY <2>4 DEF ReferencePlaces
  <2>6. at(item[1], item[2]) \in Range(parsedFiles[item[1]].references)
    BY <2>5 DEF Range
  <2>7. symbolIndex = AllSymbols
    BY <1>5, SymbolsAreAll
  <2>8. ASSUME NEW id \in Resolved(item[1], at(item[1], item[2]))
        PROVE  EdgeEvidence(edge(item[1], item[2], id))
    <3> HIDE DEF at
    <3> QED
      BY <2>5, <2>6, <2>7, <2>8, ResolvedIsEvidence
  <2>9. \A e \in resolvedEdges' : e.kind \in {"calls", "uses"} => EdgeEvidence(e)
    <3> HIDE DEF at, edge
    <3> QED
      BY <2>1, <2>8 DEF ReferencesAreEdges
  <2>10. ASSUME NEW f \in FileIndex, NEW k \in DOMAIN parsedFiles[f].references
         PROVE  \/ <<f, k>> \in pendingItems'
                \/ \A id \in Resolved(f, at(f, k)) : edge(f, k, id) \in resolvedEdges'
    <3>1. CASE item = <<f, k>>
      <4> HIDE DEF at, edge
      <4>1. item[1] = f /\ item[2] = k
        BY <3>1
      <4> QED
        BY <2>1, <4>1
    <3>2. CASE item # <<f, k>>
      <4>1. <<f, k>> \in pendingItems \/ \A id \in Resolved(f, at(f, k)) : edge(f, k, id) \in resolvedEdges
        BY <1>5 DEF ReferencesAreEdges
      <4> HIDE DEF at, edge
      <4> QED
        BY <2>1, <2>4, <3>2, <4>1
    <3> QED
      BY <3>1, <3>2
  <2>11. /\ \A r : Kind(r)' = Kind(r)
         /\ \A f, r : SourceOf(f, r)' = SourceOf(f, r)
    BY DEF Kind, SourceOf
  <2> QED
    BY <1>1, <1>2, <1>5, <2>3, <2>9, <2>10 DEF ReferencesAreEdges
<1> QED
  BY <1>3, <1>4, <1>5, StagesTell

-----------------------------------------------------------------------------
(* What the invariant says of the edges.                                    *)
LEMMA EvidenceIsThere ==
  ASSUME NamesInv
  PROVE  EdgesHaveEvidence
<1> USE DEF NamesInv
<1>1. \A e \in resolvedEdges : e.kind \in {"calls", "uses"} => EdgeEvidence(e)
  BY DEF ReferencesAreEdges
<1>2. ASSUME NEW d \in resolvedEdges, NEW e \in resolvedEdges, d.kind = "method", e.kind = "method", d.to = e.to
      PROVE  d.from = e.from /\ Symbol(d.from).name = Symbol(d.to).owner
  <2>1. PICK f \in FileIndex : \E k \in Methods(f) : d.to = <<f, k>> /\ MethodIsLinked(d.from, f, k)
    BY <1>2 DEF MethodsAreLinked
  <2>2. PICK k \in Methods(f) : d.to = <<f, k>> /\ MethodIsLinked(d.from, f, k)
    BY <2>1
  <2>3. PICK g \in FileIndex : \E j \in Methods(g) : e.to = <<g, j>> /\ MethodIsLinked(e.from, g, j)
    BY <1>2 DEF MethodsAreLinked
  <2>4. PICK j \in Methods(g) : e.to = <<g, j>> /\ MethodIsLinked(e.from, g, j)
    BY <2>3
  <2>5. g = f /\ j = k
    <3>1. <<f, k>> = <<g, j>>
      BY <1>2, <2>2, <2>4
    <3> QED
      BY <3>1
  <2>6. d.from = e.from
    <3>1. CASE OwnerBefore(f, k) # {}
      BY <2>2, <2>4, <2>5, <3>1 DEF MethodIsLinked
    <3>2. CASE OwnerBefore(f, k) = {}
      BY <2>2, <2>4, <2>5, <3>2 DEF MethodIsLinked
    <3> QED
      BY <3>1, <3>2
  <2>7. Symbol(d.to).owner = parsedFiles[f].symbols[k].owner
    BY <2>2 DEF Symbol
  <2>8. CASE OwnerBefore(f, k) # {}
    <3> DEFINE S == OwnerBefore(f, k)
               m == Min(S)
    <3>1. S \subseteq Nat /\ S # {}
      BY <2>8 DEF OwnerBefore
    <3>2. m \in S
      <4> HIDE DEF S
      <4>1. \E x \in S : \A y \in S : x <= y
        BY <3>1, SmallestOfNumbers
      <4> QED
        BY <4>1 DEF Min
    <3>3. d.from = <<f, m>>
      BY <2>2, <2>8 DEF MethodIsLinked
    <3>4. parsedFiles[f].symbols[m].name = parsedFiles[f].symbols[k].owner
      <4> HIDE DEF m
      <4> QED
        BY <3>2 DEF OwnerBefore
    <3> HIDE DEF m
    <3> QED
      BY <2>6, <2>7, <3>3, <3>4 DEF Symbol
  <2>9. CASE OwnerBefore(f, k) = {}
    <3> DEFINE S == Owners(<<f, k>>)
    <3>1. Cardinality(S) = 1 /\ d.from = CHOOSE id \in S : TRUE
      BY <2>2, <2>9 DEF MethodIsLinked
    <3>2. S # {}
      <4> HIDE DEF S
      <4> QED
        BY <3>1, FS_EmptySet
    <3>3. d.from \in S
      <4> HIDE DEF S
      <4> QED
        BY <3>1, <3>2
    <3>4. Symbol(d.from).name = Symbol(<<f, k>>).owner
      BY <3>3 DEF Owners
    <3> QED
      BY <2>2, <2>6, <3>4
  <2> QED
    BY <2>8, <2>9
<1> QED
  BY <1>1, <1>2 DEF EdgesHaveEvidence, EdgeEvidence

(* Go and Rust files lead only to files of their language.                  *)
LEMMA BarrelsAreTyped ==
  ASSUME NamesTypes, NEW f \in FileIndex, Language(f) \in PathTyped
  PROVE  \A g \in Barrels(f) : Language(g) = Language(f)
<1>1. IsRepository(parsedFiles) /\ ForwardsAreFiles /\ MaxDepth \in Nat
  BY RepositoryTells DEF NamesTypes
<1>2. PICK c : IsReach(c, f)
  BY <1>1, BarrelsTell
<1> DEFINE S == {g \in FileIndex : Language(g) = Language(f)}
           T == {k \in 0..MaxDepth : c[k] \subseteq S}
<1>3. 0 \in T
  <2>1. ASSUME NEW item \in Range(parsedFiles[f].imports), NEW g \in LocalPath(item)
        PROVE  g \in S
    <3>1. g \in FileIndex /\ g \in Range(item.candidates)
      BY CandidateIsMeant DEF LocalPath
    <3>2. Language(g) = Language(f)
      BY <1>1, <3>1 DEF IsRepository, FileIndex, Language
    <3> QED
      BY <3>1, <3>2
  <2>2. Entries(f) \subseteq S
    <3> HIDE DEF S
    <3> QED
      BY <2>1 DEF Entries
  <2> QED
    BY <1>1, <1>2, <2>2 DEF IsReach
<1>4. ASSUME NEW k \in 0..MaxDepth, k < MaxDepth, k \in T
      PROVE  k + 1 \in T
  <2>1. k + 1 \in 1..MaxDepth /\ k + 1 - 1 = k /\ k + 1 \in 0..MaxDepth
    BY <1>1, <1>4
  <2>2. c[k + 1] = c[k] \cup Reexported(c[k])
    BY <1>2, <2>1 DEF IsReach
  <2>3. ASSUME NEW g \in c[k], NEW h \in Range(forwards[g])
        PROVE  h \in S
    <3>1. g \in FileIndex /\ Language(g) = Language(f)
      BY <1>4, <2>3
    <3>2. Language(h) = Language(g)
      BY <2>3, <3>1 DEF NamesTypes
    <3>3. forwards[g] \in Seq(FileIndex)
      BY <1>1, <3>1 DEF ForwardsAreFiles
    <3>4. h \in FileIndex
      BY <2>3, <3>3 DEF Range
    <3> QED
      BY <3>1, <3>2, <3>4
  <2>4. c[k] \subseteq S
    BY <1>4
  <2> HIDE DEF S
  <2>5. Reexported(c[k]) \subseteq S
    BY <2>3 DEF Reexported
  <2> QED
    BY <2>1, <2>2, <2>4, <2>5
<1>5. \A k \in 0..MaxDepth : k \in T
  <2> HIDE DEF T
  <2> QED
    BY <1>1, <1>3, <1>4, BoundedInduction
<1>6. MaxDepth \in 0..MaxDepth
  BY <1>1
<1>7. c[MaxDepth] \subseteq S
  BY <1>5, <1>6
<1> QED
  BY <1>2, <1>7 DEF IsReach

(* A name that one symbol has is that one in its file.                      *)
LEMMA UniqueIsIt ==
  ASSUME symbolIndex = AllSymbols, NEW f \in FileIndex, NEW name, NEW called, NEW id,
         id[1] = f, {x \in symbolIndex : Symbol(x).name = name} = {id}
  PROVE  Unique(f, name, called) = {id}
<1>1. Defined(f, name) = {x \in symbolIndex : x[1] = f /\ Symbol(x).name = name}
  BY DefinedIsIndexed
<1>2. id \in symbolIndex /\ Symbol(id).name = name
  OBVIOUS
<1>3. Defined(f, name) = {id}
  BY <1>1, <1>2
<1>4. Cardinality(Defined(f, name)) = 1
  BY <1>3, FS_Singleton
<1>5. Unique(f, name, called) = Only(Defined(f, name))
  BY <1>4 DEF Unique
<1> QED
  BY <1>3, <1>4, <1>5 DEF Only

LEMMA OneIsResolved ==
  ASSUME NamesInv, resolving = "references", symbolIndex = AllSymbols, NEW f \in FileIndex,
         NEW r \in Range(parsedFiles[f].references), NEW id \in symbolIndex,
         {x \in symbolIndex : Symbol(x).name = r.name} = {id}, id \in Meant(f, r), id # SourceOf(f, r), ~r.qualified,
         ~(\E item \in Range(parsedFiles[f].imports) : \E b \in item.bindings :
             b.local = r.name /\ b.imported # r.name),
         Cardinality(Barrels(f)) <= MaxTargets + 1
  PROVE  id \in Resolved(f, r)
<1> USE DEF NamesInv
<1> DEFINE name == r.name
           named == {x \in symbolIndex : Symbol(x).name = name}
           source == SourceOf(f, r)
           same == {x \in symbolIndex : /\ Language(x[1]) = Language(f) /\ Symbol(x).name = name
                                        /\ x # source \/ r.calls}
           peers == {x \in named : /\ Language(x[1]) = Language(f)
                                   /\ x # source \/ r.calls}
<1>1. /\ IsRepository(parsedFiles) /\ ForwardsAreFiles /\ MaxDepth \in Nat /\ MaxTargets \in Nat
      /\ IsFiniteSet(FileIndex)
  BY RepositoryTells DEF NamesTypes
<1>2. Barrels(f) \subseteq FileIndex /\ Peers(f) \subseteq FileIndex
  BY <1>1, BarrelsTell DEF Peers
<1>3. named = {id} /\ Symbol(id).name = name
  OBVIOUS
<1>4. ASSUME NEW g \in FileIndex, NEW called
      PROVE  Unique(g, name, called) \subseteq {id}
  BY <1>3, <1>4, UniqueIsDefined, DefinedIsIndexed
<1>5. Own(f, r) \subseteq {id}
  BY <1>4 DEF Own
<1>6. ASSUME NEW way
      PROVE  BindingTargets(f, r, way) \subseteq {id}
  <2>1. ASSUME NEW c \in importBindings[f], c.local = name
        PROVE  Unique(c.path, c.imported, r.calls) \subseteq {id}
    <3>1. c.path \in FileIndex /\ c.imported = name
      BY <1>2, <2>1 DEF ImportsLead
    <3> QED
      BY <1>4, <3>1
  <2> QED
    BY <2>1 DEF BindingTargets
<1>7. Imported(f, r) \subseteq {id}
  <2>1. Imported(f, r) \subseteq BindingTargets(f, r, FALSE) \/ Imported(f, r) \subseteq BindingTargets(f, r, TRUE)
    BY OnlyIsOfThem, Zenon DEF Imported
  <2> QED
    BY <1>6, <2>1
<1>8. visibleFiles[f] \subseteq FileIndex
  BY <1>2 DEF ImportsLead
<1> DEFINE seen == (UNION {Unique(g, name, r.calls) : g \in visibleFiles[f]}) \ {source}
<1>9. seen \subseteq {id} /\ InImportedFiles(f, r) = Only(seen)
  BY <1>4, <1>8 DEF InImportedFiles
<1>10. InImportedFiles(f, r) \subseteq {id}
  BY <1>9, OnlyIsOfThem
<1>11. same \subseteq {id}
  BY <1>3
<1>12. RepositoryWide(f, r) = IF Language(f) \in Script THEN {} ELSE Only(same)
  BY DEF RepositoryWide
<1>13. RepositoryWide(f, r) \subseteq {id}
  BY <1>11, <1>12, OnlyIsOfThem
<1>14. Only({id}) = {id}
  BY FS_Singleton DEF Only
<1>15. id \in Own(f, r) \/ id \in InImportedFiles(f, r) \/ id \in RepositoryWide(f, r)
  <2>1. CASE id[1] = f
    <3>1. Unique(f, name, r.calls) = {id}
      BY <1>3, <2>1, UniqueIsIt
    <3> QED
      BY <3>1 DEF Own
  <2>2. ASSUME id[1] \in Barrels(f) \cup Peers(f), Language(f) \notin PathTyped
        PROVE  id \in InImportedFiles(f, r)
    <3> DEFINE g == id[1]
    <3>1. g \in FileIndex
      BY <1>2, <2>2
    <3>2. Unique(g, name, r.calls) = {id}
      BY <1>3, <3>1, UniqueIsIt
    <3>3. g \in visibleFiles[f]
      <4>1. CASE g \in Peers(f)
        BY <4>1 DEF ImportsLead
      <4>2. CASE g \in Barrels(f)
        <5>1. PICK item \in Range(parsedFiles[f].imports) : g \in LocalPath(item) \cup Forwarded(item)
          <6> HIDE DEF g
          <6> QED
            BY <1>1, <4>2, ForwardedIsWhole
        <5>2. PICK k \in DOMAIN parsedFiles[f].imports : item = parsedFiles[f].imports[k]
          BY DEF Range
        <5>3. LocalPath(item) \cup Forwarded(item) \subseteq visibleFiles[f]
          BY <2>2, <5>2 DEF ImportsAreSeen
        <5> QED
          BY <5>1, <5>3
      <4> QED
        BY <2>2, <4>1, <4>2
    <3> HIDE DEF g
    <3>4. id \in seen
      BY <3>2, <3>3
    <3>5. seen = {id}
      BY <1>9, <3>4
    <3> QED
      BY <1>9, <1>14, <3>5
  <2>3. ASSUME id[1] \in Barrels(f) \cup Peers(f), Language(f) \in PathTyped
        PROVE  id \in RepositoryWide(f, r)
    <3>1. Peers(f) = {} /\ Language(f) \notin Script
      BY <2>3 DEF Peers, PathTyped, Script
    <3>2. Language(id[1]) = Language(f)
      BY <2>3, <3>1, BarrelsAreTyped
    <3>3. id \in same
      BY <1>3, <3>2
    <3>4. same = {id}
      BY <1>11, <3>3
    <3> HIDE DEF same
    <3> QED
      BY <1>12, <1>14, <3>1, <3>4
  <2>4. ASSUME Language(f) \notin Script, id \in Only(peers)
        PROVE  id \in RepositoryWide(f, r)
    <3>1. same = peers
      OBVIOUS
    <3> HIDE DEF same, peers
    <3> QED
      BY <1>12, <2>4, <3>1
  <2>5. \/ id[1] = f
        \/ id[1] \in Barrels(f) \cup Peers(f)
        \/ Language(f) \notin Script /\ id \in Only(peers)
    BY DEF Meant
  <2> QED
    BY <2>1, <2>2, <2>3, <2>4, <2>5
<1>16. id \in Scoped(f, r)
  BY <1>5, <1>7, <1>10, <1>13, <1>15, ScopedFinds
<1> QED
  BY <1>16 DEF Resolved

LEMMA NothingIsMissed ==
  ASSUME NamesInv
  PROVE  UnambiguousIsFound
<1> USE DEF NamesInv
<1> SUFFICES ASSUME resolving = "references", pendingItems = {}, NEW f \in FileIndex,
                    NEW r \in Range(parsedFiles[f].references),
                    {x \in symbolIndex : Symbol(x).name = r.name} \subseteq Meant(f, r),
                    ~(\E item \in Range(parsedFiles[f].imports) : \E b \in item.bindings :
                       b.local = r.name /\ b.imported # r.name),
                    ~r.qualified, Cardinality(Barrels(f)) <= MaxTargets + 1,
                    NEW id \in {x \in symbolIndex : Symbol(x).name = r.name},
                    {x \in symbolIndex : Symbol(x).name = r.name} = {id}, id # SourceOf(f, r)
             PROVE  Edge(SourceOf(f, r), id, Kind(r)) \in resolvedEdges
  BY DEF UnambiguousIsFound
<1>1. symbolIndex = AllSymbols
  BY SymbolsAreAll
<1>2. id \in Resolved(f, r)
  <2>1. id \in symbolIndex /\ id \in Meant(f, r)
    OBVIOUS
  <2> QED
    BY <1>1, <2>1, OneIsResolved
<1>3. PICK k \in DOMAIN parsedFiles[f].references : r = parsedFiles[f].references[k]
  BY DEF Range
<1> QED
  BY <1>2, <1>3 DEF ReferencesAreEdges

LEMMA NamesInvStays ==
  ASSUME NamesInv, [NamesNext]_nameVars
  PROVE  NamesInv'
<1> USE DEF NamesInv
<1>1. CASE NamesNext
  <2>1. NamesTypes'
    BY <1>1, TypesStep
  <2>2. SymbolsAreIndexed'
    BY <1>1, SymbolsStep
  <2>3. MethodsAreLinked'
    BY <1>1, MethodsStep
  <2>4. ImportsLead'
    BY <1>1, ImportsLeadStep
  <2>5. ImportsAreSeen'
    BY <1>1, ImportsAreSeenStep
  <2>6. ReferencesAreEdges'
    BY <1>1, ReferencesStep
  <2> QED
    BY <2>1, <2>2, <2>3, <2>4, <2>5, <2>6
<1>2. CASE UNCHANGED nameVars
  <2> USE <1>2 DEF nameVars
  <2>1. /\ FileIndex' = FileIndex /\ ImportPlaces' = ImportPlaces /\ ReexportPlaces' = ReexportPlaces
        /\ ReferencePlaces' = ReferencePlaces /\ AllSymbols' = AllSymbols
        /\ \A f : /\ Language(f)' = Language(f) /\ Methods(f)' = Methods(f) /\ Peers(f)' = Peers(f)
                  /\ \A k : OwnerBefore(f, k)' = OwnerBefore(f, k)
        /\ \A item : LocalPath(item)' = LocalPath(item)
    BY NamesStay
  <2>2. (\A f : Barrels(f)' = Barrels(f)) /\ \A item : Forwarded(item)' = Forwarded(item)
    BY BarrelsStay, ForwardedStays
  <2>3. (\A f, r : Resolved(f, r)' = Resolved(f, r)) /\ \A e : EdgeEvidence(e)' <=> EdgeEvidence(e)
    BY MeaningStays
  <2>4. NamesTypes'
    BY <2>1 DEF NamesTypes, ForwardsAreFiles
  <2>5. SymbolsAreIndexed'
    BY <2>1 DEF SymbolsAreIndexed
  <2>6. MethodsAreLinked'
    <3>1. \A m : Owners(m)' = Owners(m)
      BY <2>1 DEF Owners, Symbol
    <3>2. \A from, f, k : MethodIsLinked(from, f, k)' <=> MethodIsLinked(from, f, k)
      BY <2>1, <3>1 DEF MethodIsLinked
    <3> QED
      BY <2>1, <3>2 DEF MethodsAreLinked
  <2>7. ImportsLead'
    BY <2>1, <2>2 DEF ImportsLead
  <2>8. ImportsAreSeen'
    BY <2>1, <2>2 DEF ImportsAreSeen
  <2>9. ReferencesAreEdges'
    BY <2>1, <2>3 DEF ReferencesAreEdges
  <2> QED
    BY <2>4, <2>5, <2>6, <2>7, <2>8, <2>9
<1> QED
  BY <1>1, <1>2

(* A reference becomes an edge on evidence, and does where there is some:   *)
(* for every repository, however its files import and re-export each other, *)
(* no order of the files, the barrels and the scopes makes an edge without  *)
(* evidence or loses the only symbol of a name that a file sees.            *)
THEOREM NamesResolve == NamesSpec => []NamesAreResolved
<1>1. NamesInit => NamesInv
  BY NamesStart
<1>2. NamesInv /\ [NamesNext]_nameVars => NamesInv'
  BY NamesInvStays
<1>3. NamesInv => NamesAreResolved
  BY EvidenceIsThere, NothingIsMissed DEF NamesAreResolved
<1> QED
  BY <1>1, <1>2, <1>3, PTL DEF NamesSpec
=============================================================================
