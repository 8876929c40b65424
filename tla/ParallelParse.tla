--------------------------- MODULE ParallelParse ---------------------------
(***************************************************************************)
(* parse_parallel of src/analyzer/pipeline.rs: the worker threads that read *)
(* and parse the scanned files of a refresh.  They share a cursor, which    *)
(* hands out indices, and a locked vector, which collects the results in    *)
(* whatever order they are finished; the vector is sorted before the first  *)
(* error, or all the parsed sources in file order, are returned.            *)
(***************************************************************************)
EXTENDS Integers, Sequences, FiniteSets, Functions

CONSTANTS
  Count,   \* number of scanned files
  Cores    \* what available_parallelism reports

ASSUME ParallelParseAssumption == Count \in Nat /\ Cores \in Nat \ {0}

VARIABLES
  outcome,  \* what reading and parsing each file does
  cursor,   \* the shared AtomicUsize
  pc,       \* where each worker is
  index,    \* the index each worker claimed last
  results,  \* the locked vector of (index, result)
  answer    \* what parse_parallel returns

vars == <<outcome, cursor, pc, index, results, answer>>

Files == 0..(Count - 1)

(* available_parallelism().min(count).max(1) *)
NumWorkers == IF Count = 0 THEN 1 ELSE IF Cores <= Count THEN Cores ELSE Count

Workers == 1..NumWorkers

(* A file that cannot be read or parsed fails; a parser may also panic.     *)
Outcomes == {"parsed", "failed", "panics"}

Unanswered == [kind |-> "none"]
Parsed(order) == [kind |-> "parsed", order |-> order]
Failed(file) == [kind |-> "failed", file |-> file]
Panicked == [kind |-> "panicked"]

Init ==
  /\ outcome \in [Files -> Outcomes]
  /\ cursor = 0
  /\ pc = [w \in Workers |-> "claim"]
  /\ index = [w \in Workers |-> 0]
  /\ results = <<>>
  /\ answer = Unanswered

-----------------------------------------------------------------------------
Trouble == {i \in Files : outcome[i] # "parsed"}

First(files) == CHOOSE i \in files : \A j \in files : i <= j

(* One worker: (0..count).map(fetch).collect() on the calling thread, which *)
(* reads nothing after the first file that does not parse.                  *)
Sequential ==
  /\ NumWorkers = 1 /\ answer = Unanswered
  /\ answer' = IF Trouble = {} THEN Parsed([k \in 1..Count |-> k - 1])
               ELSE IF outcome[First(Trouble)] = "panics" THEN Panicked
               ELSE Failed(First(Trouble))
  /\ UNCHANGED <<outcome, cursor, pc, index, results>>

(* Mutant of Claim: the next index follows the worker's own last one.       *)
ClaimAfterOwn(w) ==
  /\ NumWorkers > 1 /\ pc[w] = "claim"
  /\ index' = [index EXCEPT ![w] = cursor]
  /\ cursor' = index[w] + 1
  /\ pc' = [pc EXCEPT ![w] = IF cursor >= Count THEN "done" ELSE "fetch"]
  /\ UNCHANGED <<outcome, results, answer>>

(* Mutant of Claim: no break once the files have run out.                   *)
ClaimForever(w) ==
  /\ NumWorkers > 1 /\ pc[w] = "claim"
  /\ cursor < Count
  /\ index' = [index EXCEPT ![w] = cursor]
  /\ cursor' = cursor + 1
  /\ pc' = [pc EXCEPT ![w] = "fetch"]
  /\ UNCHANGED <<outcome, results, answer>>

(* cursor.fetch_add(1): the index is the worker's, or the files ran out.    *)
Claim(w) ==
  /\ NumWorkers > 1 /\ pc[w] = "claim"
  /\ index' = [index EXCEPT ![w] = cursor]
  /\ cursor' = cursor + 1
  /\ pc' = [pc EXCEPT ![w] = IF cursor >= Count THEN "done" ELSE "fetch"]
  /\ UNCHANGED <<outcome, results, answer>>

(* fetch(index), outside the lock; a panic ends the thread.                 *)
Fetch(w) ==
  /\ pc[w] = "fetch"
  /\ pc' = [pc EXCEPT ![w] = IF outcome[index[w]] = "panics" THEN "dead" ELSE "push"]
  /\ UNCHANGED <<outcome, cursor, index, results, answer>>

(* The result is pushed under the lock; an error does not stop the others.  *)
Push(w) ==
  /\ pc[w] = "push"
  /\ results' = Append(results, [index |-> index[w],
                                 parsed |-> outcome[index[w]] = "parsed"])
  /\ pc' = [pc EXCEPT ![w] = "claim"]
  /\ UNCHANGED <<outcome, cursor, index, answer>>

Joined == NumWorkers > 1 /\ \A w \in Workers : pc[w] \in {"done", "dead"}

(* Mutant of Sorted: the results are taken in the order of completion.      *)
SortedByArrival(items) == items

(* The items in every order. *)
Orders(items) ==
  {[k \in DOMAIN items |-> items[place[k]]] : place \in Bijection(DOMAIN items, DOMAIN items)}

(* sort_unstable_by_key(index): an order in which no index falls. *)
Sorted(items) ==
  CHOOSE order \in Orders(items) :
    \A j, k \in DOMAIN items : j < k => order[j].index <= order[k].index

(* collect(): the first error in the vector, or all of it. *)
Collected(items) ==
  LET failed == {k \in DOMAIN items : ~items[k].parsed}
  IN  IF failed = {} THEN Parsed([k \in DOMAIN items |-> items[k].index])
      ELSE Failed(items[First(failed)].index)

(* The scope joins the workers, and panics if one of them did.              *)
Collect ==
  /\ Joined /\ answer = Unanswered
  /\ answer' = IF \E w \in Workers : pc[w] = "dead" THEN Panicked
               ELSE Collected(Sorted(results))
  /\ UNCHANGED <<outcome, cursor, pc, index, results>>

Worker(w) == Claim(w) \/ Fetch(w) \/ Push(w)

Next == Sequential \/ Collect \/ \E w \in Workers : Worker(w)

Spec == Init /\ [][Next]_vars

(* The operating system runs every thread that can run. *)
FairSpec ==
  /\ Spec
  /\ WF_vars(Sequential \/ Collect)
  /\ \A w \in Workers : WF_vars(Worker(w))

-----------------------------------------------------------------------------
(* Properties *)

(* The types of the variables. *)
TypeOK ==
  /\ outcome \in [Files -> Outcomes]
  /\ cursor \in Nat
  /\ pc \in [Workers -> {"claim", "fetch", "push", "done", "dead"}]
  /\ index \in [Workers -> Nat]
  /\ results \in Seq([index : Files, parsed : BOOLEAN])
  /\ answer.kind \in {"none", "parsed", "failed", "panicked"}

(* Who has the file: the workers that hold its index, the results of it.    *)
Holders(i) == {w \in Workers : pc[w] \in {"fetch", "push", "dead"} /\ index[w] = i}
ResultsOf(i) == {k \in DOMAIN results : results[k].index = i}

(* However the threads interleave, when they have all been joined every     *)
(* scanned file has exactly one result, which is its own, or has killed the *)
(* one thread that parsed it: none is skipped by the shared cursor, none    *)
(* parsed twice, none lost at the lock.                                     *)
EachFileOnce ==
  Joined =>
    \A i \in Files :
      \/ \E k \in DOMAIN results :
           /\ ResultsOf(i) = {k} /\ Holders(i) = {}
           /\ results[k].parsed = (outcome[i] = "parsed")
      \/ \E w \in Workers : Holders(i) = {w} /\ ResultsOf(i) = {}
      \/ \A w \in Workers : pc[w] = "dead"

(* The answer does not depend on the schedule or on the number of cores: it *)
(* is the one a single thread gives, the sources in file order or the error *)
(* of the first file that fails, unless some parser panicked, when nothing  *)
(* that leaves out the panicking file is returned.                          *)
AnswerIsDeterministic ==
  answer # Unanswered =>
    LET panics == {i \in Files : outcome[i] = "panics"}
    IN  \/ /\ panics = {}
           /\ answer = IF Trouble = {} THEN Parsed([k \in 1..Count |-> k - 1])
                       ELSE Failed(First(Trouble))
        \/ /\ panics # {}
           /\ answer = Panicked \/ answer = Failed(First(Trouble))

(* parse_parallel returns: no worker waits for another, so every schedule   *)
(* that runs them all ends with an answer.                                  *)
Returns == <>(answer # Unanswered)
=============================================================================
