------------------------- MODULE TransportContracts -------------------------
(* The event contracts of a backend and its clients                         *)
(* (src/operations/transport_contracts): the source files are scanned one   *)
(* by one under two limits, the graphs and the runtime reports add what     *)
(* they know, and producers are matched to consumers. A place is a file     *)
(* and a line; a routing key is a sequence of words.                        *)
EXTENDS Integers, Sequences, FiniteSets, SequencesExt, FiniteSetsExt

CONSTANTS
  Estates,  \* repositories (the backend first) with the limits of the question
  NoName   \* no resource, exchange, routing key or answer

VARIABLES
  estate,   \* what is asked about
  scan      \* where the scan stands, what it has found, and the answer

scanVars == <<estate, scan>>

Families == {"kafka", "amqp", "jms", "sns", "sqs", "nats"}
Systems == Families \cup {"rabbitmq"}

(* The sides of contracts: nothing is confirmed by a run until one is read. *)
SideFields == {"repository", "place", "transport", "entity", "role", "resource", "exchange", "key",
               "certainty", "origin", "observed"}
IsKey(key) == key = NoName \/ (Len(key) \in Nat \ {0} /\ DOMAIN key = 1..Len(key))
IsSide(o) == DOMAIN o = SideFields /\ o.repository \in Nat /\ o.place \in Nat /\ IsKey(o.key)

IsList(s) == s \in Seq(Range(s))
AreUnseen(s) == IsList(s) /\ \A o \in Range(s) : IsSide(o) /\ ~o.observed

IsEstate(e) ==
  /\ e.maxFiles \in Nat \ {0} /\ e.maxObservations \in Nat \ {0} /\ e.maxContracts \in Nat \ {0}
  /\ IsList(e.repositories) /\ e.repositories # <<>>
  /\ \A r \in Range(e.repositories) :
       /\ IsList(r.files) /\ AreUnseen(r.edges)
       /\ \A f \in Range(r.files) : f.candidate \in BOOLEAN /\ (f.outcome = "found" => AreUnseen(f.found))
       /\ IsList(r.runtime.observed)
       /\ \A raw \in Range(r.runtime.observed) : raw.place \in Nat /\ IsKey(raw.key)

EstatesAssumption == \A e \in Estates : IsEstate(e)

ASSUME EstatesAssumption

RepositoryIds == DOMAIN estate.repositories
RepositoryAt(r) == estate.repositories[r]

(* contract_family() *)
Family(transport) == IF transport = "rabbitmq" THEN "amqp" ELSE transport
OnAmqp(o) == Family(o.transport) = "amqp"

KeyOf(o) == [family |-> Family(o.transport), entity |-> o.entity, resource |-> o.resource]

IdentityOf(o) == <<o.repository, o.place, o.role, o.resource>>

ScanInit ==
  /\ estate \in Estates
  /\ scan = [step |-> "repository", repository |-> 1, todo |-> <<>>, considered |-> 0,
             hit |-> FALSE, unreadable |-> 0, oversize |-> 0, observations |-> <<>>,
             backend |-> <<>>, resolved |-> {}, present |-> FALSE, reasons |-> {}, answer |-> NoName]

NoRoom == Len(scan.observations) >= estate.maxObservations
Room == estate.maxObservations - Len(scan.observations)
MayConsider == estate.maxFiles - scan.considered

(* Observations are ordered by repository, then by place. *)
Precedes(a, b) == a.repository < b.repository \/ (a.repository = b.repository /\ a.place <= b.place)
SortedSides(set) ==
  LET first(rest) == CHOOSE a \in rest : \A b \in rest : Precedes(a, b)
      taken[k \in 0..Cardinality(set)] ==
        IF k = 0 THEN <<>>
        ELSE LET before == taken[k - 1] IN Append(before, first(set \ Range(before)))
  IN  taken[Cardinality(set)]

AtMost(n, seq) == SubSeq(seq, 1, IF n < Len(seq) THEN n ELSE Len(seq))

-----------------------------------------------------------------------------
(* scan_repositories(): a client is skipped when a limit is reached, copied *)
(* from the backend when it is the same revision, scanned otherwise.        *)

Within == ~NoRoom /\ MayConsider > 0

StopScan ==
  /\ scan.step = "repository" /\ scan.repository \in RepositoryIds \ {1} /\ ~Within
  /\ scan' = [scan EXCEPT !.step = "fallback", !.repository = 1, !.hit = NoRoom,
                           !.observations = SortedSides(Range(@))]
  /\ UNCHANGED estate

OpenRepository ==
  LET files == AtMost(MayConsider, RepositoryAt(scan.repository).files)
  IN  /\ scan.step = "repository" /\ scan.repository \in RepositoryIds
      /\ scan.repository # 1 => Within /\ ~RepositoryAt(scan.repository).same
      /\ scan' = [scan EXCEPT !.step = "files", !.todo = files, !.considered = @ + Len(files)]
      /\ UNCHANGED estate

CopyBackend ==
  LET copies == [k \in DOMAIN scan.backend |-> [scan.backend[k] EXCEPT !.repository = scan.repository]]
  IN  /\ scan.step = "repository" /\ scan.repository \in RepositoryIds \ {1}
      /\ Within /\ RepositoryAt(scan.repository).same
      /\ scan' = [scan EXCEPT !.repository = @ + 1, !.hit = Len(copies) > Room,
                               !.observations = @ \o AtMost(Room, copies)]
      /\ UNCHANGED estate

(* scan_repository(): one file, or the end of them. *)
ScanFile ==
  LET file == Head(scan.todo)
      found == IF file.outcome = "found" THEN file.found ELSE <<>>
      one(outcome) == IF file.outcome = outcome THEN 1 ELSE 0
  IN  /\ scan.step = "files" /\ scan.todo # <<>>
      /\ scan' =
           IF ~file.candidate THEN [scan EXCEPT !.todo = Tail(@)]
           ELSE IF NoRoom THEN [scan EXCEPT !.todo = <<>>, !.hit = TRUE]
           ELSE [scan EXCEPT !.todo = Tail(@), !.unreadable = @ + one("unreadable"),
                             !.oversize = @ + one("oversize"), !.hit = @ \/ Len(found) > Room,
                             !.observations = @ \o AtMost(Room, found)]
      /\ UNCHANGED estate

CloseRepository ==
  /\ scan.step = "files" /\ scan.todo = <<>>
  /\ scan' = [scan EXCEPT !.step = "repository", !.repository = @ + 1,
                !.backend = IF scan.repository = 1 THEN scan.observations ELSE @]
  /\ UNCHANGED estate

EndScan ==
  /\ scan.step = "repository" /\ scan.repository \notin RepositoryIds
  /\ scan' = [scan EXCEPT !.step = "fallback", !.repository = 1, !.observations = SortedSides(Range(@))]
  /\ UNCHANGED estate

-----------------------------------------------------------------------------
(* add_graph_fallbacks(): what the graph knows of destinations that the     *)
(* source does not give at the same place, for each transport it may be.    *)

FallbackTransports(entity) ==
  CASE entity = "topic" -> <<"kafka", "jms", "sns">>
    [] entity = "queue" -> <<"amqp", "rabbitmq", "jms", "sqs">>
    [] entity \in {"exchange", "binding"} -> <<"amqp", "rabbitmq">>
    [] entity = "subject" -> <<"nats">>
    [] OTHER -> <<"jms">>

Guesses(edge) ==
  LET transports == FallbackTransports(edge.entity)
  IN  [k \in DOMAIN transports |->
        [edge EXCEPT !.transport = transports[k], !.origin = "graph_domain",
                     !.certainty = IF Len(transports) > 1 THEN "ambiguous" ELSE "derived"]]

InSource(edge) ==
  \E o \in Range(scan.observations) : o.origin = "tokenized_source" /\ IdentityOf(o) = IdentityOf(edge)

(* The limit is looked at after each guess: one is added even beyond it.    *)
WithGuesses(edges) ==
  LET known == scan.observations
      upto[k \in 0..Len(edges)] ==
        IF k = 0 THEN known
        ELSE upto[k - 1] \o (IF InSource(edges[k]) THEN <<>> ELSE Guesses(edges[k]))
  IN  AtMost(IF NoRoom THEN Len(known) + 1 ELSE estate.maxObservations, upto[Len(edges)])

AddFallbacks ==
  /\ scan.step = "fallback" /\ scan.repository \in RepositoryIds
  /\ scan' = [scan EXCEPT !.repository = @ + 1, !.observations = WithGuesses(RepositoryAt(scan.repository).edges)]
  /\ UNCHANGED estate

StartRuntime ==
  /\ scan.step = "fallback" /\ scan.repository \notin RepositoryIds
  /\ scan' = [scan EXCEPT !.step = "runtime", !.repository = 1]
  /\ UNCHANGED estate

-----------------------------------------------------------------------------
(* load_runtime_evidence(): the first report file that exists, or the named *)
(* one; a report is used if its schema, revision and age are right. `wrong` *)
(* is which of the first two are not.                                       *)

Readable(file) == file.path = "inside" /\ file.exists

Loaded(runtime) ==
  LET candidates == IF runtime.explicit THEN AtMost(1, runtime.files)
                    ELSE SelectSeq(runtime.files, Readable)
      file == Head(candidates)
      report == Readable(file) /\ file.content = "report"
  IN  IF candidates = <<>> THEN [present |-> FALSE, reasons |-> {"absent"}, usable |-> FALSE]
      ELSE [present |-> TRUE,
            reasons |-> IF ~report THEN {"unreadable"}
                        ELSE file.wrong \cup (IF file.age # "fresh" THEN {"age"} ELSE {})
                                        \cup (IF file.complete THEN {} ELSE {"coverage"}),
            usable |-> report /\ file.wrong = {} /\ file.age = "fresh"]

RuntimeEntity(transport, kind, role) ==
  CASE kind \in {"exchange", "queue"} -> kind
    [] transport \in {"kafka", "sns"} -> "topic"
    [] transport \in {"amqp", "rabbitmq"} /\ role = "producer" -> "exchange"
    [] transport \in {"amqp", "rabbitmq", "sqs"} -> "queue"
    [] transport = "nats" -> "subject"
    [] OTHER -> "destination"

(* normalize_runtime_observation(): a span without its parts is none. *)
HasParts(raw) == raw.system \in Systems /\ raw.side \in {"producer", "consumer"} /\ raw.name # NoName

Normalized(r, raw) ==
  [repository |-> r, place |-> raw.place, transport |-> raw.system,
   entity |-> RuntimeEntity(raw.system, raw.kind, raw.side), role |-> raw.side,
   resource |-> raw.name, exchange |-> raw.exchange, key |-> raw.key,
   certainty |-> "exact", origin |-> "runtime_evidence", observed |-> TRUE]

SameSide(a, b) ==
  \A field \in {"repository", "transport", "entity", "role", "resource"} : a[field] = b[field]

Merge(observations, o) ==
  LET same == {k \in DOMAIN observations : SameSide(observations[k], o)}
  IN  IF same = {} THEN Append(observations, o)
      ELSE [observations EXCEPT ![Min(same)].observed = TRUE]

Merged(r, raw) ==
  LET upto[k \in 0..Len(raw)] ==
        IF k = 0 THEN scan.observations
        ELSE IF HasParts(raw[k]) THEN Merge(upto[k - 1], Normalized(r, raw[k])) ELSE upto[k - 1]
  IN  upto[Len(raw)]

WithReport(r, raw, present, reasons) ==
  /\ scan.step = "runtime" /\ r \in RepositoryIds
  /\ scan' = [scan EXCEPT !.repository = r + 1, !.observations = Merged(r, raw),
       !.resolved = @ \cup {<<r, seen.place>> : seen \in {s \in Range(raw) : HasParts(s) /\ s.place > 0}},
       !.present = @ \/ present, !.reasons = @ \cup reasons]
  /\ UNCHANGED estate

Ignored(raw) == IF \A s \in Range(raw) : HasParts(s) THEN {} ELSE {"invalid"}

(* Mutant of MergeRuntime: an unusable report is used all the same. *)
MergeUnchecked ==
  LET r == scan.repository
      loaded == Loaded(RepositoryAt(r).runtime)
  IN  WithReport(r, IF loaded.present THEN RepositoryAt(r).runtime.observed ELSE <<>>, loaded.present,
                 IF loaded.present THEN loaded.reasons ELSE {})

MergeRuntime ==
  LET r == scan.repository
      loaded == Loaded(RepositoryAt(r).runtime)
      raw == IF loaded.usable THEN RepositoryAt(r).runtime.observed ELSE <<>>
  IN  WithReport(r, raw, loaded.present, IF loaded.present THEN loaded.reasons \cup Ignored(raw) ELSE {})

-----------------------------------------------------------------------------
(* evaluate() *)

(* routing_keys_match(): word by word, `*` is any word; at a `#` there must *)
(* be a word left or nothing behind it, and the rest is not looked at.      *)
RoutingKeysMatch(producer, binding) ==
  LET fits(k) == k \in DOMAIN producer /\ binding[k] \in {"*", producer[k]}
  IN  /\ producer # NoName /\ binding # NoName
      /\ \/ producer = binding
         \/ Len(producer) = Len(binding) /\ \A k \in DOMAIN binding : fits(k)
         \/ \E k \in DOMAIN binding : /\ binding[k] = "#" /\ \A j \in 1..(k - 1) : fits(j)
                                      /\ k \in DOMAIN producer \cup {Len(binding)}

(* route_amqp_consumers(): producer, binding and consumer of a queue. *)
Routes(all, key) ==
  IF key.family # "amqp" \/ key.entity # "exchange" THEN {}
  ELSE {t \in all \X all \X all :
          /\ t[1].role = "producer" /\ KeyOf(t[1]) = key /\ t[1].certainty # "ambiguous"
          /\ t[2].role = "bind" /\ OnAmqp(t[2]) /\ t[2].exchange = key.resource
          /\ t[3].role = "consumer" /\ OnAmqp(t[3]) /\ t[3].entity = "queue"
          /\ t[3].resource = t[2].resource /\ t[2].resource # NoName}

ContractOf(all, key) ==
  LET evidence == {o \in all : o.certainty # "ambiguous" /\ o.resource # NoName /\ KeyOf(o) = key}
      producers == {o \in evidence : o.role = "producer"}
      routed == {t \in Routes(all, key) : RoutingKeysMatch(t[1].key, t[2].key)}
      consumers == {o \in evidence : o.role = "consumer"} \cup {t[3] : t \in routed}
  IN  [key |-> key, producers |-> producers, consumers |-> consumers,
       wrongKeys |-> Routes(all, key) \ routed,
       verdict |-> CASE producers # {} /\ consumers # {} -> "MATCH"
                     [] producers = {} /\ consumers = {} -> "CONFIGURATION_ONLY"
                     [] OTHER -> "UNPAIRED_STATIC_EVIDENCE"]

(* add_cross_kind_mismatches() *)
Crossed(all) ==
  {p \in all \X all :
    /\ p[1].role = "producer" /\ p[2].role = "consumer"
    /\ p[1].resource # NoName /\ p[1].resource = p[2].resource
    /\ \/ Family(p[1].transport) # Family(p[2].transport)
       \/ /\ p[1].entity # p[2].entity
          /\ Family(p[1].transport) = "jms" => "destination" \notin {p[1].entity, p[2].entity}}

KeysIn(all) == {KeyOf(o) : o \in {p \in all : p.certainty # "ambiguous" /\ p.resource # NoName}}

EventResponse(all) ==
  LET open == {o \in all : /\ o.resource = NoName \/ o.certainty = "ambiguous"
                           /\ <<o.repository, o.place>> \notin scan.resolved}
  IN  [status |-> "COMPLETE",
       contracts |-> Range(AtMost(estate.maxContracts, SetToSeq({ContractOf(all, key) : key \in KeysIn(all)}))),
       crossed |-> Crossed(all), of |-> all,
       gate |-> IF open = {} THEN "PASS" ELSE "BLOCKED",
       runtime |-> IF ~scan.present THEN "NOT_PROVIDED"
                   ELSE IF scan.reasons = {} THEN "COMPLETE" ELSE "REJECTED"]

EvaluateAll ==
  LET kept == Range(AtMost(estate.maxObservations, SortedSides(Range(scan.observations))))
      failed == scan.hit \/ scan.unreadable > 0 \/ scan.oversize > 0
  IN  /\ scan.step = "runtime" /\ scan.repository \notin RepositoryIds
      /\ scan' = [scan EXCEPT !.step = "done",
                              !.answer = IF failed THEN [status |-> "ERROR"] ELSE EventResponse(kept)]
      /\ UNCHANGED estate

ScanNext ==
  \/ StopScan \/ OpenRepository \/ CopyBackend \/ ScanFile \/ CloseRepository \/ EndScan
  \/ AddFallbacks \/ StartRuntime \/ MergeRuntime \/ EvaluateAll

ScanSpec == ScanInit /\ [][ScanNext]_scanVars

-----------------------------------------------------------------------------
(* What a topic exchange delivers: the words of the key can be dealt out to *)
(* those of the binding in order, any number to each `#` and one to others. *)
Delivers(producer, binding) ==
  \E dealt \in [0..Len(binding) -> 0..Len(producer)] :
    /\ dealt[0] = 0 /\ dealt[Len(binding)] = Len(producer)
    /\ \A k \in DOMAIN binding :
         IF binding[k] = "#" THEN dealt[k - 1] <= dealt[k]
         ELSE dealt[k] = dealt[k - 1] + 1 /\ binding[k] \in {"*", producer[dealt[k]]}

Hashes(binding) == {k \in DOMAIN binding : binding[k] = "#"}

(* Files that had to be read for the question, and could not be. *)
Missed(r) ==
  {f \in Range(RepositoryAt(r).files) : f.candidate /\ f.outcome \in {"unreadable", "oversize"}}

Confirmable(r) == Loaded(RepositoryAt(r).runtime)
EventsTold == scan.answer # NoName /\ scan.answer.status = "COMPLETE"

(* What the answer says of two sides is true of them: a match has a producer *)
(* and a consumer that name the same thing or are joined by a binding that   *)
(* delivers, no pair the broker would deliver is called a mismatch, and a    *)
(* report of another revision, schema or time changes nothing. Excepted are  *)
(* a `#` with words behind it, and two of them at the end of a binding.      *)
ContractsAreReal ==
  EventsTold =>
    /\ \A contract \in scan.answer.contracts :
         /\ contract.verdict = "MATCH" =>
              \E p \in contract.producers : \E c \in contract.consumers :
                \/ KeyOf(p) = KeyOf(c)
                \/ \E b \in scan.answer.of :
                     /\ b.role = "bind" /\ b.exchange = p.resource /\ b.resource = c.resource
                     /\ Delivers(p.key, b.key) \/ Hashes(b.key) \ {Len(b.key)} # {}
         /\ \A t \in contract.wrongKeys :
              t[1].key # NoName /\ t[2].key # NoName /\ Delivers(t[1].key, t[2].key) =>
                {Len(t[2].key) - 1, Len(t[2].key)} \subseteq Hashes(t[2].key)
    /\ scan.answer.runtime = "COMPLETE" =>
         \A r \in RepositoryIds : Confirmable(r).present => Confirmable(r).usable
    /\ \A o \in scan.answer.of : o.observed => Confirmable(o.repository).usable
    /\ scan.answer.gate = "PASS" =>
         \A o \in scan.answer.of : o.resource = NoName =>
           \E raw \in Range(RepositoryAt(o.repository).runtime.observed) : raw.place = o.place
    /\ \A r \in RepositoryIds :
         Missed(r) # {} => (r # 1 /\ RepositoryAt(r).same) \/ scan.considered = estate.maxFiles
=============================================================================
