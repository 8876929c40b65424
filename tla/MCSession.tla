----------------------------- MODULE MCSession -----------------------------
(* Small instances of Session for TLC. *)
EXTENDS Session, TLC

CONSTANTS a, b, v1, v2, k1, k2

(* The roots share a folder name, as two checkouts of one project do. *)
MCFolder == [r \in Roots |-> "project"]

AB == [selectors |-> <<a, b>>, runtime |-> FALSE]
BA == [selectors |-> <<b, a>>, runtime |-> FALSE]
ABRuntime == [selectors |-> <<a, b>>, runtime |-> TRUE]

MCNoTraces == {}
MCTraceOne == {AB}
MCTraces == {AB, BA, ABRuntime}

Symmetric == Permutations(Sources) \cup Permutations(Configs)

(* Sources and configurations are interchangeable, so one disk is as good   *)
(* as any to begin with.  (Liveness runs cannot use Symmetric.)             *)
MCInit == Init /\ disk = [r \in Roots |-> [source |-> v1, config |-> k1]]

MCFairSpec == MCInit /\ [][Next]_vars /\ Fairness
=============================================================================
