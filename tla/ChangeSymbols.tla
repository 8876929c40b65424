--------------------------- MODULE ChangeSymbols ---------------------------
(* How change_impact names what changed                                     *)
(* (src/operations/workflow/change/symbols.rs): the declarations of the     *)
(* changed files in two revisions are paired one by one, each pair is       *)
(* classified, and what is left is removed or added. The classes that may   *)
(* have changed behaviour are the seeds of the impact walk.                 *)
(*                                                                          *)
(* A declaration stands at a slot, which has a place in a file; its id is   *)
(* made of its place and its name, its fingerprint of its text.             *)
EXTENDS Integers, FiniteSets, Functions

CONSTANTS
  Slots,         \* places of declarations in the changed files, in their order
  FileAt,        \* the file of each slot
  Declarations,  \* [label, exported, code, comment] a slot can hold
  Absent,        \* no declaration at the slot
  Empty          \* changed files that exist without declarations

Revision == [Slots -> Declarations \cup {Absent}]

ChangedFiles == Range(FileAt) \cup Empty

ASSUME SymbolsAssumption ==
  /\ Slots \subseteq Nat \ {0} /\ IsFiniteSet(Slots) /\ DOMAIN FileAt = Slots
  /\ \A d \in Declarations : DOMAIN d = {"label", "exported", "code", "comment"}
  /\ Absent \notin Declarations

VARIABLES
  available,  \* whether the base revision could be read
  before, after,
  todo,       \* declarations of the base that are not paired yet
  paired,     \* declarations of the base to those of the candidate
  changes,    \* the answer
  progress

changeVars == <<available, before, after, todo, paired, changes, progress>>

Declared(revision) == {s \in Slots : revision[s] # Absent}

(* The files of a revision: those with declarations, and the empty ones.    *)
FilesIn(revision) == {FileAt[s] : s \in Declared(revision)} \cup Empty

ChangeInit ==
  /\ available \in BOOLEAN
  /\ before \in Revision /\ after \in Revision
  /\ ~available => Declared(before) = {}
  /\ todo = Declared(before)
  /\ paired = [s \in {} |-> 0] /\ changes = {} /\ progress = "pairing"

Text(d) == <<d.label, d.code, d.comment>>

Free == Declared(after) \ Range(paired)

Only(S) == IF Cardinality(S) = 1 THEN S ELSE {}

SameId(s) == {t \in Free : t = s /\ after[t].label = before[s].label}

SameName(s) == {t \in Free : FileAt[t] = FileAt[s] /\ after[t].label = before[s].label}

SameText(s) == {t \in Free : Text(after[t]) = Text(before[s])}

(* The one declaration a declaration of the base is paired with: of the     *)
(* same id, or else the only one of its name in the file, or else the only  *)
(* one of its text.                                                         *)
Match(s) ==
  IF SameId(s) # {} THEN SameId(s)
  ELSE IF Only(SameName(s)) # {} THEN Only(SameName(s))
  ELSE Only(SameText(s))

(* Mutant of Classify: the export is not compared. *)
ClassifyText(s, t) ==
  CASE Text(before[s]) = Text(after[t]) /\ FileAt[s] # FileAt[t] -> {"relocated"}
    [] Text(before[s]) = Text(after[t]) /\ FileAt[s] = FileAt[t] ->
         IF s # t THEN {"line_shift"} ELSE {}
    [] Text(before[s]) # Text(after[t]) ->
         IF before[s].code = after[t].code THEN {"doc_only"} ELSE {"body"}

(* What changed between the two declarations of a pair, if anything. Names  *)
(* and kinds are part of the text, so that pairs agree on them.             *)
Classify(s, t) ==
  IF before[s].exported # after[t].exported THEN {"export"}
  ELSE CASE Text(before[s]) = Text(after[t]) /\ FileAt[s] # FileAt[t] -> {"relocated"}
         [] Text(before[s]) = Text(after[t]) /\ FileAt[s] = FileAt[t] ->
              IF s # t THEN {"line_shift"} ELSE {}
         [] Text(before[s]) # Text(after[t]) ->
              IF before[s].code = after[t].code THEN {"doc_only"} ELSE {"body"}

(* Changes the impact walk starts from. *)
Walked == {"added", "removed", "body", "export", "relocated", "file_level"}

Record(s, change, revision) ==
  [path |-> FileAt[s], slot |-> s, change |-> change, revision |-> revision]

(* A changed file as a whole. *)
Whole(file) == [path |-> file, slot |-> 0, change |-> "file_level", revision |-> "candidate"]

Pair ==
  /\ progress = "pairing" /\ available /\ todo # {}
  /\ LET s == CHOOSE u \in todo : \A v \in todo : u <= v
     IN  /\ todo' = todo \ {s}
         /\ \/ \E t \in Match(s) :
                 /\ paired' = [u \in DOMAIN paired \cup {s} |-> IF u = s THEN t ELSE paired[u]]
                 /\ changes' = changes \cup {Record(t, c, "candidate") : c \in Classify(s, t)}
            \/ /\ Match(s) = {}
               /\ changes' = changes \cup {Record(s, "removed", "base")} /\ UNCHANGED paired
  /\ UNCHANGED <<available, before, after, progress>>

(* What was not paired is new; a changed file that has nothing to show for  *)
(* it, and no declarations, is a seed as a whole.                           *)
AddRest ==
  /\ progress = "pairing" /\ available /\ todo = {}
  /\ LET named == changes \cup {Record(t, "added", "candidate") : t \in Free}
         behavioural == {c.path : c \in {d \in named : d.change \in Walked}}
         mapped == {FileAt[t] : t \in Declared(after)}
     IN  changes' = named \cup {Whole(f) : f \in FilesIn(after) \ (behavioural \cup mapped)}
  /\ progress' = "done"
  /\ UNCHANGED <<available, before, after, todo, paired>>

(* Without a base every changed file is a seed as a whole. *)
FileSeeds ==
  /\ progress = "pairing" /\ ~available
  /\ changes' = {Whole(f) : f \in FilesIn(after)}
  /\ progress' = "done"
  /\ UNCHANGED <<available, before, after, todo, paired>>

ChangeNext == Pair \/ AddRest \/ FileSeeds

ChangeSpec == ChangeInit /\ [][ChangeNext]_changeVars

-----------------------------------------------------------------------------
(* Properties *)

Done == progress = "done"

Seeds == {c \in changes : c.change \in Walked}

(* What the program does, as far as a declaration has a part in it. *)
Behaviour(revision, s) == <<FileAt[s], revision[s].label, revision[s].exported, revision[s].code>>

Times(revision, behaviour) ==
  Cardinality({s \in Declared(revision) : Behaviour(revision, s) = behaviour})

SameBehaviour ==
  \A s \in Declared(before) \cup Declared(after) : \A revision \in {before, after} :
    s \in Declared(revision) =>
      LET b == Behaviour(revision, s) IN Times(before, b) = Times(after, b)

NamesAreUnique(revision) ==
  \A s, t \in Declared(revision) :
    revision[s].label = revision[t].label /\ FileAt[s] = FileAt[t] => s = t

(* No declaration of the candidate answers for two of the base, and each    *)
(* is either paired or reported as added: none is lost, none is counted     *)
(* twice, in whatever order ids, names and texts claimed them.              *)
EachDeclarationOnce ==
  Done /\ available =>
    /\ \A s, t \in DOMAIN paired : paired[s] = paired[t] => s = t
    /\ \A t \in Declared(after) :
         (t \in Range(paired)) # (Record(t, "added", "candidate") \in changes)
    /\ \A s \in Declared(before) :
         (s \in DOMAIN paired) # (Record(s, "removed", "base") \in changes)

(* An edit that changes behaviour never goes without a seed: when nothing   *)
(* is walked, both revisions declare the same names, exports and code in    *)
(* the same files, as often as before.                                      *)
EditsAreWalked == Done /\ available /\ Seeds = {} => SameBehaviour

(* Comments and moved lines are no seeds where names are unique in a file:  *)
(* "a comment-only edit is not a proven body change" (CHANGELOG.md).        *)
CommentsAreNotWalked ==
  Done /\ available /\ SameBehaviour /\ NamesAreUnique(before) /\ NamesAreUnique(after)
    => \A c \in Seeds : c.change = "file_level"

(* What changed between the revisions is told exactly: every declaration is *)
(* accounted for once, every edit of behaviour is walked, and nothing that  *)
(* only moved or had its comments edited is.                                *)
ChangesAreExact == EachDeclarationOnce /\ EditsAreWalked /\ CommentsAreNotWalked

(* Declarations in both revisions at the same place with the same text. *)
Untouched == {s \in Declared(before) \cap Declared(after) : before[s] = after[s]}

(* Declarations of the base of which the candidate has no trace: all that   *)
(* still bears their name was there before, untouched, with other code.     *)
Deleted ==
  {s \in Declared(before) :
     \A t \in Declared(after) :
       after[t].label = before[s].label =>
         t \in Untouched \ {s} /\ after[t].code # before[s].code}

(* "baseline callers must survive a deletion"                               *)
(* (tests/repo/git_graph_diff_detail.rs) and "a deletion keeps callers from *)
(* the base graph" (CHANGELOG.md): what was deleted is walked in the base.  *)
DeletionKeepsBaseCallers ==
  Done /\ available => \A s \in Deleted : Record(s, "removed", "base") \in changes
=============================================================================
