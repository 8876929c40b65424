----------------------------- MODULE AbiImpact -----------------------------
(* web3_impact (src/operations/web3/impact.rs) with what it reads: the      *)
(* members of ABI artifacts and the calls of client sources                 *)
(* (src/language/web3/), bound to the members by import                     *)
(* (src/analyzer/state/web3.rs). What changed between two artifacts, and    *)
(* who calls it?                                                            *)
(*                                                                          *)
(* A path is the sequence of its segments, a place in a source a number, a  *)
(* selector the signature it is the hash of. An artifact holds one contract.*)
EXTENDS Integers, Sequences, FiniteSets, SequencesExt, FiniteSetsExt

CONSTANTS
  Questions,   \* artifacts and sources, and the two paths compared
  Apis,        \* the client functions looked for, in the order of their list
  MaxMembers,  \* the most members an artifact may have
  Nothing      \* an absent part, no answer

VARIABLES
  given,  \* the files and the arguments
  state   \* the calls, members and bindings found, the documents, the rows

vars == <<given, state>>

Init ==
  /\ given \in Questions
  /\ state = [at |-> "scan", sources |-> given.sources, from |-> 0, calls |-> <<>>,
              artifacts |-> given.artifacts, files |-> {}, members |-> <<>>, binds |-> {},
              old |-> <<>>, new |-> <<>>, rows |-> <<>>, answer |-> Nothing]

-----------------------------------------------------------------------------
(* clients.rs: the calls of a source, one after another.                    *)

FirstCall(calls, api, from) ==
  LET found == {c \in calls : c.api = api /\ c.at >= from}
  IN  IF found = {} THEN Nothing ELSE CHOOSE c \in found : \A d \in found : c.at <= d.at

(* next_api(): the place of a hit is counted from where the search began,   *)
(* the best so far from the beginning of the source.                        *)
NextCall(calls, from) ==
  FoldLeft(LAMBDA best, api :
             LET hit == FirstCall(calls, api, from)
             IN  IF hit # Nothing /\ (best = Nothing \/ hit.at - from < best.at) THEN hit ELSE best,
           Nothing, Apis)

(* object_after(): the first braces behind the name, its own or later ones. *)
Braces(calls, call) ==
  LET found == {c \in calls : c.at >= call.at /\ c.object}
  IN  IF found = {} THEN Nothing ELSE CHOOSE c \in found : \A d \in found : c.at <= d.at

EventApis == {"watchContractEvent", "getContractEvents", "decodeEventLog", "parseEventLogs"}

Import(source, local) == IF local \in DOMAIN source.imports THEN source.imports[local] ELSE Nothing

Occurrence(source, call, object) ==
  [source |-> source.path, at |-> call.at, kind |-> IF call.api \in EventApis THEN "event" ELSE "function",
   member |-> object.member, import |-> IF object.spread THEN Nothing ELSE Import(source, object.abi)]

Scan ==
  /\ state.at = "scan" /\ state.sources # <<>>
  /\ LET source == Head(state.sources)
         calls == Range(source.calls)
         call == IF source.library THEN NextCall(calls, state.from) ELSE Nothing
         object == IF call = Nothing THEN Nothing ELSE Braces(calls, call)
     IN  \/ /\ call = Nothing
            /\ state' = [state EXCEPT !.sources = Tail(@), !.from = 0]
         \/ /\ call # Nothing /\ object = Nothing
            /\ state' = [state EXCEPT !.from = call.at + 1]
         \/ /\ call # Nothing /\ object # Nothing
            /\ state' = [state EXCEPT !.from = object.end, !.calls = Append(@, Occurrence(source, call, object))]
  /\ UNCHANGED given

-----------------------------------------------------------------------------
(* abi/decode.rs, fingerprints.rs, types.rs: what is kept of a member.      *)

Alias(type) == CASE type = "uint" -> "uint256" [] type = "int" -> "int256" [] OTHER -> type

Canonical(param) ==
  IF param.components = <<>> THEN <<Alias(param.type)>>
  ELSE <<"(">> \o [k \in DOMAIN param.components |-> Alias(param.components[k].type)] \o <<")", param.type>>

Types(params) == [k \in DOMAIN params |-> Canonical(params[k])]

(* is_supported() cuts the digits off the end of a type before it looks it  *)
(* up, so no uintN or intN of its list is ever found.                       *)
Supported(param) ==
  \A type \in IF param.components = <<>> THEN {param.type} ELSE {c.type : c \in Range(param.components)} :
    type \in {"address", "bool", "string", "bytes", "bytes32"}

Signature(m) ==
  [name |-> IF m.kind \in {"function", "event", "error"} THEN m.name ELSE m.kind, inputs |-> Types(m.inputs)]

Layout(m) ==
  IF m.kind # "event" THEN Nothing
  ELSE [signature |-> Signature(m), mask |-> {k \in DOMAIN m.inputs : m.inputs[k].indexed},
        anonymous |-> m.anonymous]

Surface(m) ==
  LET params == m.inputs \o m.outputs
      name(p) == <<p.name, [k \in DOMAIN p.components |-> p.components[k].name]>>
  IN  [kind |-> m.kind, signature |-> Signature(m), names |-> [k \in DOMAIN params |-> name(params[k])],
       mutability |-> m.mutability]

Selector(m) ==
  IF /\ \A p \in Range(m.inputs \o m.outputs) : Supported(p)
     /\ m.kind = "function" \/ (m.kind = "event" /\ ~m.anonymous)
  THEN Signature(m) ELSE Nothing

Member(path, m) ==
  [file |-> path, kind |-> m.kind, signature |-> Signature(m), returns |-> Types(m.outputs),
   layout |-> Layout(m), surface |-> Surface(m), selector |-> Selector(m)]

(* decode_array(): all of an artifact, or nothing of it.                    *)
Decoded(artifact) == artifact.whole /\ Len(artifact.members) \in 1..MaxMembers

Decode ==
  /\ state.at = "scan" /\ state.sources = <<>> /\ state.artifacts # <<>>
  /\ LET artifact == Head(state.artifacts)
         rest == [state EXCEPT !.artifacts = Tail(@)]
     IN  state' = IF ~Decoded(artifact) THEN rest
                  ELSE [rest EXCEPT
                          !.files = @ \cup {artifact.path},
                          !.members = @ \o [k \in DOMAIN artifact.members |->
                                              Member(artifact.path, artifact.members[k])]]
  /\ UNCHANGED given

(* resolve_web3_bindings(): a call is bound to the member it names in the   *)
(* artifact it imports, if there is one of its name.                        *)
Targets(call) ==
  {m \in Range(state.members) : m.file = call.import /\ m.kind = call.kind /\ m.signature.name = call.member}

Bind ==
  /\ state.at = "scan" /\ state.sources = <<>> /\ state.artifacts = <<>>
  /\ state' = [state EXCEPT
                 !.at = "load",
                 !.binds = UNION {[call : {c}, member : Targets(c)] :
                                    c \in {d \in Range(state.calls) : Cardinality(Targets(d)) = 1}}]
  /\ UNCHANGED given

-----------------------------------------------------------------------------
(* impact.rs and abi/diff.rs                                                *)

FileMatches(file, path) == IsSuffix(path, file)

Present(path) == \E file \in state.files : FileMatches(file, path)

Document(path) ==
  SelectSeq(state.members, LAMBDA m : FileMatches(m.file, path) /\ m.kind \in {"function", "event", "error"})

(* members_named() and consumers_of() *)
Consumers(signature) ==
  {b.call : b \in {b \in state.binds :
                     /\ b.member.signature = signature
                     /\ \E path \in {given.baseline, given.candidate} : FileMatches(b.member.file, path)}}

Row(kind, signature, topic, misdecode) ==
  [kind |-> kind, member |-> signature, topic |-> topic, misdecode |-> misdecode,
   consumers |-> Consumers(signature)]

Load ==
  /\ state.at = "load"
  /\ state' =
       IF Present(given.baseline) /\ Present(given.candidate)
       THEN [state EXCEPT !.at = "old", !.old = Document(given.baseline), !.new = Document(given.candidate)]
       ELSE [state EXCEPT !.at = "rows", !.rows = <<[kind |-> "missing_input"]>>]
  /\ UNCHANGED given

(* match_member(): the same signature, or else the only one of its name.    *)
Match(members, wanted) ==
  LET exact == SelectSeq(members, LAMBDA m : m.kind = wanted.kind /\ m.signature = wanted.signature)
      named == SelectSeq(members, LAMBDA m : m.kind = wanted.kind /\ m.signature.name = wanted.signature.name)
  IN  CASE exact # <<>> -> Head(exact)
        [] exact = <<>> /\ wanted.signature.name # "" /\ Len(named) = 1 -> Head(named)
        [] OTHER -> Nothing

Exposed(m) == m.kind \in {"function", "event"}

When(holds, row) == IF holds THEN <<row>> ELSE <<>>

(* push_member_changes(); a member read from the graph is not anonymous, so *)
(* only the signatures decide whether the topic is the same.                *)
MemberChanges(old, new) ==
  LET same == old.signature = new.signature
  IN  When(~same, Row("INPUT_CHANGED", old.signature, FALSE, FALSE))
        \o When(old.returns # new.returns,
                Row("OUTPUT_CHANGED", old.signature, old.selector = new.selector, FALSE))
        \o When(old.kind = "event" /\ old.layout # new.layout,
                Row("EVENT_LAYOUT_CHANGED", old.signature, same, same))
        \o When(old.surface # new.surface /\ old.layout = new.layout,
                Row("CLIENT_SURFACE_CHANGED", old.signature, TRUE, FALSE))

CompareOld ==
  /\ state.at = "old" /\ state.old # <<>>
  /\ LET old == Head(state.old)
         new == Match(state.new, old)
     IN  state' = [state EXCEPT
                     !.old = Tail(@),
                     !.rows = @ \o (IF new # Nothing THEN MemberChanges(old, new)
                                    ELSE When(Exposed(old), Row("MEMBER_REMOVED", old.signature, FALSE, FALSE)))]
  /\ UNCHANGED given

CompareNew ==
  /\ state.at = "old" /\ state.old = <<>> /\ state.new # <<>>
  /\ LET new == Head(state.new)
     IN  state' = [state EXCEPT
                     !.new = Tail(@),
                     !.rows = @ \o When(Match(Document(given.baseline), new) = Nothing /\ Exposed(new),
                                        Row("MEMBER_ADDED", new.signature, FALSE, FALSE))]
  /\ UNCHANGED given

Answer ==
  /\ \/ state.at = "rows"
     \/ state.at = "old" /\ state.old = <<>> /\ state.new = <<>>
  /\ state' = [state EXCEPT
                 !.at = "answered",
                 !.answer = [changes |-> SubSeq(state.rows, 1, Min({given.max, Len(state.rows)})),
                             truncated |-> Len(state.rows) > given.max]]
  /\ UNCHANGED given

Next == Scan \/ Decode \/ Bind \/ Load \/ CompareOld \/ CompareNew \/ Answer

-----------------------------------------------------------------------------
(* Properties *)

Rows(kind, signature) ==
  {r \in Range(state.rows) : r.kind = kind /\ (kind # "missing_input" => r.member = signature)}

OneFile(path) == Cardinality({f \in state.files : FileMatches(f, path)}) = 1

(* What the artifacts themselves say, not what the graph kept of them.      *)
Written(path) ==
  UNION {Range(a.members) : a \in {a \in Range(given.artifacts) : Decoded(a) /\ FileMatches(a.path, path)}}

Mask(m) == {k \in DOMAIN m.inputs : m.inputs[k].indexed}

MemberIsCompared(old, news) ==
  LET signature == Signature(old)
      same == {n \in news : n.kind = old.kind /\ Signature(n) = signature}
  IN  IF same = {}
      THEN Rows("MEMBER_REMOVED", signature) \cup Rows("INPUT_CHANGED", signature) # {}
      ELSE \A new \in same :
             /\ Types(old.outputs) # Types(new.outputs) => Rows("OUTPUT_CHANGED", signature) # {}
             /\ old.kind = "event" /\ (Mask(old) # Mask(new) \/ old.anonymous # new.anonymous) =>
                  \E r \in Rows("EVENT_LAYOUT_CHANGED", signature) :
                    Mask(old) # Mask(new) /\ old.anonymous = new.anonymous => r.misdecode
             /\ old = new => \A r \in Range(state.rows) : r.kind # "missing_input" => r.member # signature

(* The calls that import a compared artifact and name the one member of it  *)
(* that the row is about.                                                   *)
Callers(row) ==
  {c \in Range(state.calls) :
     \E a \in Range(given.artifacts) :
       /\ Decoded(a) /\ c.import = a.path
       /\ FileMatches(a.path, given.baseline) \/ FileMatches(a.path, given.candidate)
       /\ {Signature(m) : m \in {m \in Range(a.members) : m.kind = c.kind /\ m.name = c.member}} = {row.member}}

(* Sources that call one function of the list, with an object each time.    *)
Regular(source) ==
  source.library /\ Cardinality({c.api : c \in Range(source.calls)}) = 1 /\ \A c \in Range(source.calls) : c.object

(* An artifact that is missing is not compared. Otherwise every function    *)
(* and event whose wire form the candidate lost or changed has a row, a     *)
(* layout that an old decoder reads without an error is called so, a member *)
(* that is the same has no row, what is new is added unless it overloads a  *)
(* name, and the consumers of a row are the calls that import a compared    *)
(* artifact and name its member, of which none is lost in a source that     *)
(* calls one function.                                                      *)
ChangesAreReal ==
  state.at = "answered" =>
    /\ \A source \in Range(given.sources) : Regular(source) =>
         \A call \in Range(source.calls) : \E c \in Range(state.calls) : c.source = source.path /\ c.at = call.at
    /\ IF ~Present(given.baseline) \/ ~Present(given.candidate)
       THEN {r.kind : r \in Range(state.rows)} = {"missing_input"}
       ELSE OneFile(given.baseline) /\ OneFile(given.candidate) =>
         LET olds == {m \in Written(given.baseline) : m.kind \in {"function", "event"}}
             news == {m \in Written(given.candidate) : m.kind \in {"function", "event"}}
         IN  /\ \A old \in olds : \/ MemberIsCompared(old, news)
                                  \/ \E other \in olds \ {old} : Signature(other) = Signature(old)
             /\ \A new \in news : \/ \E old \in olds : old.kind = new.kind /\ old.name = new.name
                                  \/ Rows("MEMBER_ADDED", Signature(new)) # {}
             /\ \A row \in Range(state.rows) : row.consumers = Callers(row)
=============================================================================
