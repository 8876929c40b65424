--------------------------- MODULE DataInduction ---------------------------
(* Induction over numbers without an operator as a parameter: what holds of *)
(* a set that contains 0 and with each number the next one, and what a      *)
(* recursive function over 0..N is; that a finite set can be listed in any  *)
(* order of its members; and what taking from a queue or adding to it does  *)
(* to its places. The proofs about components cite these.                   *)
EXTENDS Integers, Sequences, FiniteSetTheorems, TLAPS

Less == {pair \in Nat \X Nat : pair[1] < pair[2]}

(* Numbers that satisfy something have a smallest one.                      *)
LEMMA SmallestOfNumbers ==
  ASSUME NEW S, S \subseteq Nat, S # {}
  PROVE  \E n \in S : \A m \in S : n <= m
<1>1. IsWellFoundedOn(Less, Nat)
  BY NatLessThanWellFounded DEF OpToRel, Less
<1>2. PICK n \in S : \A m \in S : <<m, n>> \notin Less
  BY <1>1, WFMin
<1>3. ASSUME NEW m \in S
      PROVE  n <= m
  <2>1. m \in Nat /\ n \in Nat
    OBVIOUS
  <2>2. m < n => <<m, n>> \in Less
    BY <2>1 DEF Less
  <2> QED
    BY <2>1, <2>2, <1>2
<1> QED
  BY <1>3

(* Induction: the step is a fact about a set.                               *)
LEMMA SetInduction ==
  ASSUME NEW S, 0 \in S, \A n \in Nat : n \in S => n + 1 \in S
  PROVE  \A n \in Nat : n \in S
<1> DEFINE Missing == {n \in Nat : n \notin S}
<1> SUFFICES ASSUME Missing # {}
             PROVE  FALSE
  OBVIOUS
<1>1. PICK n \in Missing : \A m \in Missing : n <= m
  BY SmallestOfNumbers
<1>2. n # 0 /\ n - 1 \in Nat
  BY <1>1
<1>3. n - 1 \in Missing
  BY <1>1, <1>2
<1> QED
  BY <1>1, <1>2, <1>3

(* The same up to a bound.                                                  *)
LEMMA BoundedInduction ==
  ASSUME NEW N \in Nat, NEW S, 0 \in S, \A n \in 0..N : n < N /\ n \in S => n + 1 \in S
  PROVE  \A n \in 0..N : n \in S
<1> DEFINE T == {n \in Nat : n <= N => n \in S}
<1>1. 0 \in T
  OBVIOUS
<1>2. \A n \in Nat : n \in T => n + 1 \in T
  OBVIOUS
<1> HIDE DEF T
<1>3. \A n \in Nat : n \in T
  BY <1>1, <1>2, SetInduction
<1> QED
  BY <1>3 DEF T

(* A bounded set of numbers has a largest one.                              *)
LEMMA LargestOfNumbers ==
  ASSUME NEW N \in Nat, NEW S, S \subseteq 0..N, S # {}
  PROVE  \E n \in S : \A m \in S : m <= n
<1> DEFINE T == {k \in Nat : N - k \in S}
<1>1. \A n \in S : N - n \in T
  OBVIOUS
<1>2. PICK k \in T : \A j \in T : k <= j
  BY <1>1, SmallestOfNumbers
<1>3. N - k \in S /\ \A m \in S : m <= N - k
  BY <1>1, <1>2
<1> QED
  BY <1>3

(* Growing with every step inside a range of its own length leaves no room. *)
LEMMA GrowingIsCounting ==
  ASSUME NEW n \in Nat, NEW f \in [1..n -> 0..(n - 1)],
         \A j, k \in 1..n : j < k => f[j] < f[k]
  PROVE  \A k \in 1..n : f[k] = k - 1
<1> DEFINE Up == {k \in Nat : k + 1 \in 1..n => f[k + 1] >= k}
           Down == {d \in Nat : n - d \in 1..n => f[n - d] <= n - d - 1}
<1>1. \A k \in Nat : k \in Up
  <2>1. 0 \in Up
    OBVIOUS
  <2>2. ASSUME NEW k \in Nat, k \in Up, k + 2 \in 1..n
        PROVE  f[k + 2] >= k + 1
    <3>1. k + 1 \in 1..n /\ f[k + 1] < f[k + 2]
      BY <2>2
    <3> QED
      BY <2>2, <3>1
  <2>3. \A k \in Nat : k \in Up => k + 1 \in Up
    BY <2>2
  <2> HIDE DEF Up
  <2> QED
    BY <2>1, <2>3, SetInduction
<1>2. \A d \in Nat : d \in Down
  <2>1. 0 \in Down
    OBVIOUS
  <2>2. ASSUME NEW d \in Nat, d \in Down, n - (d + 1) \in 1..n
        PROVE  f[n - (d + 1)] <= n - (d + 1) - 1
    <3>1. n - d \in 1..n /\ f[n - (d + 1)] < f[n - d]
      BY <2>2
    <3> QED
      BY <2>2, <3>1
  <2>3. \A d \in Nat : d \in Down => d + 1 \in Down
    BY <2>2
  <2> HIDE DEF Down
  <2> QED
    BY <2>1, <2>3, SetInduction
<1>3. ASSUME NEW k \in 1..n
      PROVE  f[k] = k - 1
  <2>1. k - 1 \in Nat /\ n - k \in Nat /\ n - (n - k) = k /\ k - 1 + 1 = k
    OBVIOUS
  <2>2. k - 1 \in Up /\ n - k \in Down
    <3> HIDE DEF Up, Down
    <3> QED
      BY <2>1, <1>1, <1>2
  <2> QED
    BY <2>1, <2>2
<1> QED
  BY <1>3

(* What a recursive function over 0..N computes that applies F again and    *)
(* again.                                                                   *)
IsIteration(c, N, S, start, F) ==
  c \in [0..N -> S] /\ c[0] = start /\ \A k \in 1..N : c[k] = F[c[k - 1]]

(* There is such a function.                                                *)
LEMMA IterationExists ==
  ASSUME NEW N \in Nat, NEW S, NEW start \in S, NEW F \in [S -> S]
  PROVE  \E c : IsIteration(c, N, S, start, F)
<1> DEFINE Good(n, c) == c[0] = start /\ \A k \in 1..n : c[k] = F[c[k - 1]]
           T == {n \in Nat : \E c \in [0..n -> S] : Good(n, c)}
<1>1. 0 \in T
  <2>1. Good(0, [k \in 0..0 |-> start]) /\ [k \in 0..0 |-> start] \in [0..0 -> S]
    OBVIOUS
  <2> QED
    BY <2>1
<1>2. ASSUME NEW n \in Nat, n \in T
      PROVE  n + 1 \in T
  <2>1. PICK c \in [0..n -> S] : Good(n, c)
    BY <1>2
  <2> DEFINE d == [k \in 0..(n + 1) |-> IF k <= n THEN c[k] ELSE F[c[n]]]
  <2>2. d \in [0..(n + 1) -> S]
    <3> SUFFICES ASSUME NEW k \in 0..(n + 1)
                 PROVE  (IF k <= n THEN c[k] ELSE F[c[n]]) \in S
      OBVIOUS
    <3>1. n \in 0..n /\ (k <= n => k \in 0..n)
      OBVIOUS
    <3> QED
      BY <3>1
  <2>3. d[0] = start
    BY <2>1
  <2>4. ASSUME NEW k \in 1..(n + 1)
        PROVE  d[k] = F[d[k - 1]]
    <3>1. CASE k <= n
      BY <2>1, <3>1
    <3>2. CASE k = n + 1
      BY <3>2
    <3> QED
      BY <3>1, <3>2
  <2>5. Good(n + 1, d)
    BY <2>3, <2>4
  <2> HIDE DEF d, Good
  <2> QED
    BY <2>2, <2>5
<1> HIDE DEF T
<1>3. N \in T
  BY <1>1, <1>2, SetInduction
<1>4. \E c \in [0..N -> S] : Good(N, c)
  BY <1>3 DEF T
<1> QED
  BY <1>4 DEF IsIteration

(* One whose steps differ: the k-th applies F[k].                           *)
IsIndexedIteration(c, N, S, start, F) ==
  c \in [0..N -> S] /\ c[0] = start /\ \A k \in 1..N : c[k] = F[k][c[k - 1]]

LEMMA IndexedIterationExists ==
  ASSUME NEW N \in Nat, NEW S, NEW start \in S, NEW F \in [1..N -> [S -> S]]
  PROVE  \E c : IsIndexedIteration(c, N, S, start, F)
<1> DEFINE P == Nat \X S
           G == [p \in P |-> <<p[1] + 1, IF p[1] + 1 \in 1..N THEN F[p[1] + 1][p[2]] ELSE p[2]>>]
           first == <<0, start>>
<1>1. first \in P
  OBVIOUS
<1>2. G \in [P -> P]
  OBVIOUS
<1>3. PICK c : IsIteration(c, N, P, first, G)
  <2> HIDE DEF P, G, first
  <2> QED
    BY <1>1, <1>2, IterationExists
<1>4. c[0] = first /\ \A k \in 0..N : c[k] \in P
  BY <1>3 DEF IsIteration
<1>5. \A k \in 1..N : c[k] = G[c[k - 1]]
  BY <1>3 DEF IsIteration
<1>6. ASSUME NEW k \in 1..N
      PROVE  /\ c[k][1] = c[k - 1][1] + 1
             /\ c[k][2] = IF c[k - 1][1] + 1 \in 1..N THEN F[c[k - 1][1] + 1][c[k - 1][2]]
                          ELSE c[k - 1][2]
  <2>1. k - 1 \in 0..N
    OBVIOUS
  <2>2. c[k - 1] \in P
    BY <1>4, <2>1
  <2>3. \A p \in P : /\ G[p][1] = p[1] + 1
                     /\ G[p][2] = IF p[1] + 1 \in 1..N THEN F[p[1] + 1][p[2]] ELSE p[2]
    OBVIOUS
  <2> HIDE DEF G, P
  <2> QED
    BY <1>5, <2>2, <2>3
<1> DEFINE T == {k \in 0..N : c[k][1] = k}
<1>7. \A k \in 0..N : k \in T
  <2>1. 0 \in T
    BY <1>4
  <2>2. ASSUME NEW k \in 0..N, k < N, k \in T
        PROVE  k + 1 \in T
    <3>1. k + 1 \in 1..N /\ k + 1 - 1 = k
      BY <2>2
    <3>2. c[k + 1][1] = c[k][1] + 1
      BY <1>6, <3>1
    <3> QED
      BY <2>2, <3>1, <3>2
  <2> HIDE DEF T
  <2> QED
    BY <2>1, <2>2, BoundedInduction
<1>8. ASSUME NEW k \in 1..N
      PROVE  c[k][2] = F[k][c[k - 1][2]]
  <2>1. k - 1 \in 0..N /\ k - 1 + 1 = k
    OBVIOUS
  <2>2. c[k - 1][1] = k - 1
    BY <1>7, <2>1
  <2> QED
    BY <1>6, <2>1, <2>2
<1> DEFINE d == [k \in 0..N |-> c[k][2]]
<1>9. d \in [0..N -> S]
  BY <1>4
<1>10. d[0] = start
  BY <1>4
<1>11. \A k \in 1..N : d[k] = F[k][d[k - 1]]
  BY <1>8
<1> HIDE DEF d
<1> QED
  BY <1>9, <1>10, <1>11 DEF IsIndexedIteration

(* A shorter iteration is the beginning of a longer one.                    *)
LEMMA IterationsAgree ==
  ASSUME NEW h \in Nat, NEW k \in 0..h, NEW S, NEW start, NEW F, NEW b, NEW c,
         IsIteration(b, k, S, start, F), IsIteration(c, h, S, start, F)
  PROVE  \A j \in 0..k : b[j] = c[j]
<1> DEFINE T == {j \in 0..k : b[j] = c[j]}
<1>1. 0 \in T
  BY DEF IsIteration
<1>2. ASSUME NEW j \in 0..k, j < k, j \in T
      PROVE  j + 1 \in T
  <2>1. j + 1 \in 1..k /\ j + 1 \in 1..h /\ j + 1 - 1 = j /\ j + 1 \in 0..k
    BY <1>2
  <2>2. b[j + 1] = F[b[j]] /\ c[j + 1] = F[c[j]]
    BY <2>1 DEF IsIteration
  <2> QED
    BY <1>2, <2>1, <2>2
<1>3. \A j \in 0..k : j \in T
  <2> HIDE DEF T
  <2> QED
    BY <1>1, <1>2, BoundedInduction
<1> QED
  BY <1>3

-----------------------------------------------------------------------------
(* A total order of the members of a set, no member before itself.          *)
IsOrderOn(order, S) ==
  /\ \A x \in S : <<x, x>> \notin order
  /\ \A x, y \in S : x # y => <<x, y>> \in order \/ <<y, x>> \in order
  /\ \A x, y, z \in S : <<x, y>> \in order /\ <<y, z>> \in order => <<x, z>> \in order

(* A set as a list: before every item are those that `order` puts there.    *)
InOrder(S, order) ==
  [k \in 1..Cardinality(S) |->
     CHOOSE x \in S : Cardinality({y \in S : <<y, x>> \in order}) = k - 1]

(* A finite set is listed once and in its order: the number of items before *)
(* it takes every item to a place of its own.                               *)
LEMMA ListedInOrder ==
  ASSUME NEW S, IsFiniteSet(S), NEW order, IsOrderOn(order, S)
  PROVE  /\ InOrder(S, order) \in [1..Cardinality(S) -> S]
         /\ Range(InOrder(S, order)) = S
         /\ \A j, k \in 1..Cardinality(S) :
              j < k => <<InOrder(S, order)[j], InOrder(S, order)[k]>> \in order
<1> DEFINE n == Cardinality(S)
           Before(x) == {y \in S : <<y, x>> \in order}
           place == [x \in S |-> Cardinality(Before(x)) + 1]
           list == InOrder(S, order)
<1>1. n \in Nat
  BY FS_CardinalityType
<1>2. \A x \in S : IsFiniteSet(Before(x)) /\ Cardinality(Before(x)) \in Nat
  BY FS_Subset, FS_CardinalityType
<1>3. ASSUME NEW x \in S, NEW T \in SUBSET S, Before(x) \cup {x} \subseteq T
      PROVE  Cardinality(Before(x)) + 1 <= Cardinality(T)
  <2>1. x \notin Before(x)
    BY DEF IsOrderOn
  <2>2. IsFiniteSet(Before(x) \cup {x}) /\ Cardinality(Before(x) \cup {x}) = Cardinality(Before(x)) + 1
    BY <1>2, <2>1, FS_AddElement
  <2>3. IsFiniteSet(T) /\ Before(x) \cup {x} \in SUBSET T
    BY <1>3, FS_Subset
  <2> HIDE DEF Before
  <2>4. Cardinality(Before(x) \cup {x}) <= Cardinality(T)
    BY <2>3, FS_Subset
  <2> QED
    BY <2>2, <2>4
<1>4. place \in [S -> 1..n]
  <2> SUFFICES ASSUME NEW x \in S
               PROVE  Cardinality(Before(x)) + 1 \in 1..n
    OBVIOUS
  <2>1. Cardinality(Before(x)) + 1 <= n
    BY <1>3
  <2> QED
    BY <1>1, <1>2, <2>1
<1>5. ASSUME NEW x \in S, NEW y \in S, <<x, y>> \in order
      PROVE  place[x] < place[y]
  <2>1. Before(x) \cup {x} \subseteq Before(y) /\ Before(y) \in SUBSET S
    BY <1>5 DEF IsOrderOn
  <2>2. Cardinality(Before(x)) + 1 <= Cardinality(Before(y))
    <3> HIDE DEF Before
    <3> QED
      BY <1>3, <2>1
  <2> QED
    <3> HIDE DEF Before
    <3>1. place[x] = Cardinality(Before(x)) + 1 /\ place[y] = Cardinality(Before(y)) + 1
      OBVIOUS
    <3>2. Cardinality(Before(x)) \in Nat /\ Cardinality(Before(y)) \in Nat
      BY <1>2
    <3> QED
      BY <2>2, <3>1, <3>2
<1> HIDE DEF place, Before
<1>6. \A x, y \in S : place[x] = place[y] => x = y
  <2> SUFFICES ASSUME NEW x \in S, NEW y \in S, x # y
               PROVE  place[x] # place[y]
    OBVIOUS
  <2>1. <<x, y>> \in order \/ <<y, x>> \in order
    BY DEF IsOrderOn
  <2>2. place[x] \in Nat /\ place[y] \in Nat
    BY <1>4
  <2> QED
    BY <1>5, <2>1, <2>2
<1>7. place \in Injection(S, 1..n)
  BY <1>4, <1>6 DEF Injection, IsInjective
<1>8. place \in Surjection(S, 1..n)
  <2>1. IsFiniteSet(1..n) /\ Cardinality(1..n) = n
    <3>1. 1 \in Int /\ n \in Int
      BY <1>1
    <3>2. IsFiniteSet(1..n) /\ Cardinality(1..n) = IF 1 > n THEN 0 ELSE n - 1 + 1
      BY <3>1, FS_Interval
    <3> QED
      BY <1>1, <3>2
  <2>2. Cardinality(S) = Cardinality(1..n)
    BY <2>1
  <2> HIDE DEF n
  <2> QED
    BY <1>7, <2>1, <2>2, FS_Injection
<1>9. \A k \in 1..n : \E x \in S : place[x] = k
  BY <1>8 DEF Surjection
<1>10. \A k \in 1..n : list[k] \in S /\ place[list[k]] = k
  <2> TAKE k \in 1..n
  <2>1. list[k] = CHOOSE x \in S : Cardinality(Before(x)) = k - 1
    BY DEF InOrder, Before
  <2>2. \E x \in S : Cardinality(Before(x)) = k - 1
    <3>1. PICK x \in S : place[x] = k
      BY <1>9
    <3>2. Cardinality(Before(x)) + 1 = k
      BY <3>1 DEF place
    <3> QED
      BY <1>2, <3>2
  <2>3. list[k] \in S /\ Cardinality(Before(list[k])) = k - 1
    BY <2>1, <2>2
  <2>4. place[list[k]] = Cardinality(Before(list[k])) + 1
    BY <2>3 DEF place
  <2> QED
    BY <2>3, <2>4
<1>11. list \in [1..n -> S]
  BY <1>10 DEF InOrder
<1> HIDE DEF list, n
<1>12. Range(list) = S
  <2>1. \A x \in S : place[x] \in 1..n /\ list[place[x]] = x
    BY <1>4, <1>6, <1>10
  <2> QED
    BY <1>11, <2>1 DEF Range
<1>13. \A j, k \in 1..n : j < k => <<list[j], list[k]>> \in order
  <2> SUFFICES ASSUME NEW j \in 1..n, NEW k \in 1..n, j < k
               PROVE  <<list[j], list[k]>> \in order
    OBVIOUS
  <2>1. list[j] # list[k] /\ list[j] \in S /\ list[k] \in S
    BY <1>10
  <2>2. <<list[k], list[j]>> \notin order
    <3>1. ~(place[list[k]] < place[list[j]])
      BY <1>1, <1>10
    <3> QED
      BY <1>5, <2>1, <3>1
  <2> QED
    BY <2>1, <2>2 DEF IsOrderOn
<1> QED
  BY <1>11, <1>12, <1>13 DEF list, n

-----------------------------------------------------------------------------
(* The places of a queue whose head is taken.                               *)
LEMMA TailPlaces ==
  ASSUME NEW S, NEW q \in Seq(S), q # <<>>
  PROVE  /\ Tail(q) \in Seq(S)
         /\ 1 \in DOMAIN q /\ Head(q) = q[1] /\ Head(q) \in S
         /\ \A k \in DOMAIN Tail(q) : k + 1 \in DOMAIN q /\ Tail(q)[k] = q[k + 1]
         /\ \A k \in DOMAIN q : k # 1 => k - 1 \in DOMAIN Tail(q) /\ Tail(q)[k - 1] = q[k]
         /\ Tail(q) # <<>> => 1 \in DOMAIN Tail(q) /\ 2 \in DOMAIN q /\ Head(Tail(q)) = q[2]
OBVIOUS

(* The places of a queue to which an item is added.                         *)
LEMMA AppendPlaces ==
  ASSUME NEW S, NEW q \in Seq(S), NEW item \in S
  PROVE  /\ Append(q, item) \in Seq(S)
         /\ DOMAIN q \subseteq DOMAIN Append(q, item)
         /\ Len(q) + 1 \in DOMAIN Append(q, item) /\ Append(q, item)[Len(q) + 1] = item
         /\ \A k \in DOMAIN Append(q, item) :
              \/ k \in DOMAIN q /\ k < Len(q) + 1 /\ Append(q, item)[k] = q[k]
              \/ k = Len(q) + 1
         /\ Append(q, item) # <<>>
         /\ Head(Append(q, item)) = IF q = <<>> THEN item ELSE Head(q)
OBVIOUS

(* The places of two lists put one behind the other.                        *)
LEMMA JoinedPlaces ==
  ASSUME NEW S, NEW p \in Seq(S), NEW q \in Seq(S)
  PROVE  /\ p \o q \in Seq(S)
         /\ \A k \in DOMAIN p : k \in DOMAIN (p \o q) /\ (p \o q)[k] = p[k]
         /\ \A k \in DOMAIN q : Len(p) + k \in DOMAIN (p \o q) /\ (p \o q)[Len(p) + k] = q[k]
         /\ \A k \in DOMAIN (p \o q) :
              \/ k \in DOMAIN p
              \/ k > Len(p) /\ k - Len(p) \in DOMAIN q /\ (p \o q)[k] = q[k - Len(p)]
OBVIOUS
=============================================================================
