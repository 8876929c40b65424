-------------------------- MODULE MCAnalyzerParse --------------------------
(* The two ways the analyzer reads files, on small instances: the parallel  *)
(* re-read of a refresh on several threads and on one core (ParallelParse), *)
(* and the scan that parses as it goes (OnePassParse).  They share no state *)
(* in the program either; `mode` says which of them a behaviour is about,   *)
(* and the variables of the other stand still.                              *)
EXTENDS OnePassParse

VARIABLE mode

mcVars == <<mode, vars, scan>>

OneCore == INSTANCE ParallelParse WITH Cores <- 1

NoScan ==
  /\ status = <<>> /\ length = <<>> /\ next = 1 /\ file = <<>> /\ sent = <<>>
  /\ bytes = <<>> /\ batch = <<>> /\ dropped = {} /\ sink = <<>> /\ built = Unanswered

(* The refresh before the scan has answered. *)
Refreshed ==
  /\ outcome = [i \in Files |-> "parsed"] /\ cursor = 0
  /\ pc = [w \in Workers |-> "claim"] /\ index = [w \in Workers |-> 0]
  /\ results = <<>> /\ answer = Parsed([k \in 1..Count |-> k - 1])

MCInit ==
  \/ mode = "threads" /\ Init /\ NoScan
  \/ mode = "one core" /\ OneCore!Init /\ NoScan
  \/ mode = "one pass" /\ Refreshed /\ BuildInit

Threads(action) == mode = "threads" /\ action /\ UNCHANGED <<mode, scan>>

InSequence == mode = "one core" /\ OneCore!Sequential /\ UNCHANGED <<mode, scan>>

MCNext ==
  \/ Threads(Collect)
  \/ \E w \in Workers : Threads(Worker(w))
  \/ InSequence
  \/ mode = "one pass" /\ BuildNext /\ UNCHANGED <<mode, vars>>

MCFairSpec ==
  /\ MCInit /\ [][MCNext]_mcVars
  /\ WF_mcVars(Threads(Collect)) /\ WF_mcVars(InSequence)
  /\ \A w \in Workers : WF_mcVars(Threads(Worker(w)))
=============================================================================
