---------------------------- MODULE OnePassParse ----------------------------
(***************************************************************************)
(* The one-pass build of src/analyzer/pipeline.rs: the scanner streams the  *)
(* bytes of every file it reads to one visitor per scanner thread, and the  *)
(* visitor parses a selected file the moment it ends.  A visitor keeps one  *)
(* byte buffer for all its files and a batch of results that only reaches   *)
(* the shared list when the visitor is dropped.  The build then sorts and   *)
(* collects as the refresh does (ParallelParse).                            *)
(*                                                                         *)
(* The scanner itself is an external crate.  It gives every file to one     *)
(* visitor as FileStart, Chunk..., FileEnd, and a file it turns out not to  *)
(* select (a read error, a binary, a changed file) may end after some       *)
(* chunks.                                                                  *)
(***************************************************************************)
EXTENDS ParallelParse

CONSTANTS
  Scanned,    \* number of files the scanner visits, numbered by sequence
  Visitors,   \* scanner threads
  MaxChunks   \* bound on the chunks of a file

ASSUME OnePassAssumption ==
  Scanned \in Nat /\ Visitors # {} /\ IsFiniteSet(Visitors) /\ MaxChunks \in Nat

VARIABLES
  status,   \* how each file ends: selected and parsed, selected and failed, not selected
  length,   \* how many chunks each file has
  next,     \* the first file not given to a visitor
  file,     \* the file each visitor is in, 0 when it is in none
  sent,     \* how many chunks of it the visitor has got
  bytes,    \* the visitor's buffer, a chunk being <<file, number>>
  batch,    \* the visitor's batch of results
  dropped,  \* the visitors dropped
  sink,     \* the shared list, the batches one after the other
  built     \* what the analysis goes on with

scan == <<status, length, next, file, sent, bytes, batch, dropped, sink, built>>

Visited == 1..Scanned

ScanFailed == [kind |-> "scan"]

(* The bytes of a file. *)
Content(f) == [k \in 1..length[f] |-> <<f, k>>]

BuildInit ==
  /\ status \in [Visited -> {"parsed", "failed", "skipped"}]
  /\ length \in [Visited -> 0..MaxChunks]
  /\ next = 1
  /\ file = [v \in Visitors |-> 0] /\ sent = [v \in Visitors |-> 0]
  /\ bytes = [v \in Visitors |-> <<>>] /\ batch = [v \in Visitors |-> <<>>]
  /\ dropped = {} /\ sink = <<>>
  /\ built = Unanswered

Visiting(v) == built = Unanswered /\ v \notin dropped

(* Mutant of FileStart: the buffer is not cleared. *)
FileStartAppending(v) ==
  /\ Visiting(v) /\ file[v] = 0 /\ next <= Scanned
  /\ file' = [file EXCEPT ![v] = next] /\ next' = next + 1
  /\ sent' = [sent EXCEPT ![v] = 0]
  /\ UNCHANGED <<status, length, bytes, batch, dropped, sink, built>>

(* ContentVisitEvent::FileStart *)
FileStart(v) ==
  /\ Visiting(v) /\ file[v] = 0 /\ next <= Scanned
  /\ file' = [file EXCEPT ![v] = next] /\ next' = next + 1
  /\ sent' = [sent EXCEPT ![v] = 0]
  /\ bytes' = [bytes EXCEPT ![v] = <<>>]
  /\ UNCHANGED <<status, length, batch, dropped, sink, built>>

(* ContentVisitEvent::Chunk *)
Chunk(v) ==
  /\ Visiting(v) /\ file[v] # 0 /\ sent[v] < length[file[v]]
  /\ sent' = [sent EXCEPT ![v] = sent[v] + 1]
  /\ bytes' = [bytes EXCEPT ![v] = Append(bytes[v], <<file[v], sent[v] + 1>>)]
  /\ UNCHANGED <<status, length, next, file, batch, dropped, sink, built>>

(* ContentVisitEvent::FileEnd, Selected: parse what the buffer holds.       *)
FileEndSelected(v) ==
  /\ Visiting(v) /\ file[v] # 0
  /\ status[file[v]] # "skipped" /\ sent[v] = length[file[v]]
  /\ batch' = [batch EXCEPT ![v] =
       Append(batch[v], [index |-> file[v], source |-> bytes[v],
                         parsed |-> status[file[v]] = "parsed"])]
  /\ file' = [file EXCEPT ![v] = 0]
  /\ UNCHANGED <<status, length, next, sent, bytes, dropped, sink, built>>

(* ContentVisitEvent::FileEnd of a file that is not selected after all.     *)
FileEndSkipped(v) ==
  /\ Visiting(v) /\ file[v] # 0 /\ status[file[v]] = "skipped"
  /\ bytes' = [bytes EXCEPT ![v] = <<>>]
  /\ file' = [file EXCEPT ![v] = 0]
  /\ UNCHANGED <<status, length, next, sent, batch, dropped, sink, built>>

(* The visitor's thread is out of files: <ParseBatch as Drop>::drop.        *)
DropVisitor(v) ==
  /\ Visiting(v) /\ file[v] = 0 /\ next > Scanned
  /\ dropped' = dropped \cup {v}
  /\ sink' = sink \o batch[v] /\ batch' = [batch EXCEPT ![v] = <<>>]
  /\ UNCHANGED <<status, length, next, file, sent, bytes, built>>

(* The scan itself fails: visit_content_manifest(...)?                      *)
FailScan ==
  /\ built = Unanswered /\ dropped # Visitors
  /\ built' = ScanFailed
  /\ UNCHANGED <<status, length, next, file, sent, bytes, batch, dropped, sink>>

(* collect(): the first error in the list, or all of it. *)
CollectedSources(items) ==
  LET failed == {k \in DOMAIN items : ~items[k].parsed}
  IN  IF failed = {} THEN Parsed([k \in DOMAIN items |-> [index |-> items[k].index,
                                                          source |-> items[k].source]])
      ELSE Failed(items[First(failed)].index)

(* Flatten, sort by sequence, collect. *)
CollectBuild ==
  /\ dropped = Visitors /\ built = Unanswered
  /\ built' = CollectedSources(Sorted(sink))
  /\ UNCHANGED <<status, length, next, file, sent, bytes, batch, dropped, sink>>

Visitor(v) ==
  FileStart(v) \/ Chunk(v) \/ FileEndSelected(v) \/ FileEndSkipped(v) \/ DropVisitor(v)

BuildNext == FailScan \/ CollectBuild \/ \E v \in Visitors : Visitor(v)

BuildSpec == BuildInit /\ [][BuildNext]_scan

-----------------------------------------------------------------------------
(* Properties *)

(* Whichever visitor got which file, and in whichever order the visitors    *)
(* were dropped, the analysis goes on with all the selected files in scan   *)
(* order, each parsed from its own bytes, or with the error of the first    *)
(* one that failed.                                                         *)
BuildIsDeterministic ==
  built.kind \in {"parsed", "failed"} =>
    LET selected == {f \in Visited : status[f] # "skipped"}
        failed == {f \in Visited : status[f] = "failed"}
    IN  IF failed # {} THEN built = Failed(First(failed))
        ELSE /\ built.kind = "parsed"
             /\ Len(built.order) = Cardinality(selected)
             /\ \A k \in DOMAIN built.order :
                  /\ built.order[k].index \in selected
                  /\ built.order[k].source = Content(built.order[k].index)
                  /\ k > 1 => built.order[k - 1].index < built.order[k].index
=============================================================================
