---------------------------- MODULE AnswerCache ----------------------------
(***************************************************************************)
(* What the answer cache of an engine session promises, without saying how: *)
(* graphs of some repositories are loaded, answers about loaded graphs are  *)
(* remembered, and no remembered answer outlives a change of those graphs.  *)
(* Session implements it.                                                   *)
(***************************************************************************)
CONSTANTS
  Roots,   \* repositories, at least one
  Graphs   \* what a repository's graph can be, at least one thing

VARIABLES
  loaded,  \* the graph of every loaded repository
  answers  \* of every remembered answer, the graphs it is about

cacheVars == <<loaded, answers>>

Maps(D) == [D -> Graphs]

(* The graphs an answer is about are the loaded ones. *)
AboutLoaded(answer) ==
  \A r \in DOMAIN answer : r \in DOMAIN loaded /\ answer[r] = loaded[r]

Init ==
  /\ \E r \in Roots, g \in Graphs : loaded = [k \in {r} |-> g]
  /\ answers = {}

(* A repository that was not loaded is: what is known stays true. *)
Load ==
  /\ \E r \in Roots \ DOMAIN loaded, g \in Graphs :
       loaded' = [k \in DOMAIN loaded \cup {r} |-> IF k = r THEN g ELSE loaded[k]]
  /\ UNCHANGED answers

(* Any other change of what is loaded forgets every answer. *)
Change ==
  /\ \E D \in SUBSET Roots : loaded' \in Maps(D)
  /\ answers' = {}

(* An answer about loaded repositories is remembered, perhaps instead of    *)
(* all others.                                                              *)
Learn ==
  /\ \E D \in SUBSET DOMAIN loaded :
       LET answer == [r \in D |-> loaded[r]]
       IN  answers' \in {{answer}, answers \cup {answer}}
  /\ UNCHANGED loaded

Next == Load \/ Change \/ Learn

Spec == Init /\ [][Next]_cacheVars

(* Remembered answers are about the graphs loaded now. *)
AnswersAreCurrent == \A answer \in answers : AboutLoaded(answer)
=============================================================================
