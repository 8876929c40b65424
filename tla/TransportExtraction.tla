------------------------ MODULE TransportExtraction ------------------------
(* The event calls of one source file (transport_contracts/scan, brokers    *)
(* and matching/bindings.rs). Imports are read first; then the statements   *)
(* are gone through in order, assignments pass on the transports a variable *)
(* may stand for, and a call is classified by the transports its receiver,  *)
(* its chain or its name may come from. `says` is the set of provider words *)
(* in a text; an argument is its literals and its first identifier.         *)
EXTENDS Integers, Sequences, FiniteSets, SequencesExt, FiniteSetsExt

CONSTANTS
  SourceFiles,  \* files: the words in them and their statements
  NoValue       \* no variable, receiver, identifier or value

VARIABLES
  sourceFile,
  nextStatement,
  observations,  \* the sides of contracts found so far
  transports,    \* what each identifier may come from
  resources,     \* what each identifier was declared as
  groups         \* the consumer group of each identifier

extractionVars == <<sourceFile, nextStatement, observations, transports, resources, groups>>

(* A statement in which no variable is assigned to has NoValue there, and   *)
(* NoValue is no identifier: no import brings it in.                        *)
IsSource(file) ==
  /\ Len(file.statements) \in Nat /\ DOMAIN file.statements = 1..Len(file.statements)
  /\ \A k \in DOMAIN file.statements :
       LET s == file.statements[k]
       IN  /\ s.kind \in {"import", "assign", "call"}
           /\ s.kind = "import" => NoValue \notin s.names
           /\ s.kind = "assign" => s.variable # NoValue

SourcesAssumption == \A file \in SourceFiles : IsSource(file)

ASSUME SourcesAssumption

TransportOrder == <<"kafka", "amqp", "rabbitmq", "jms", "nats", "sqs", "sns">>
Transports == Range(TransportOrder)

(* provider_text_matches(): a RabbitMQ library is not generic AMQP. *)
ProvidersIn(says) ==
  (says \cap (Transports \ {"amqp"})) \cup (IF "rabbitmq" \in says THEN {} ELSE says \cap {"amqp"})

Imports == {s \in Range(sourceFile.statements) : s.kind = "import"}

(* Bindings::from_tokens(): the names of an import line. *)
ImportedAs(name) == UNION {ProvidersIn(s.says) : s \in {t \in Imports : name \in t.names}}

(* ProviderHints::from_bindings(): word by word, and all that is imported.   *)
Hints ==
  (sourceFile.says \cap Transports) \cup UNION {ImportedAs(i) : i \in UNION {s.names : s \in Imports}}

Identifiers ==
  {NoValue} \cup UNION {CASE s.kind = "import" -> s.names
                          [] s.kind = "assign" -> {s.variable} \cup s.reads
                          [] s.kind = "call" -> {s.variable, s.receiver, s.identifier} \cup s.chain
                                                 \cup {a.identifier : a \in Range(s.args)} :
                          s \in Range(sourceFile.statements)}

ExtractionInit ==
  /\ sourceFile \in SourceFiles
  /\ nextStatement = 1 /\ observations = {}
  /\ transports = [i \in Identifiers |-> ImportedAs(i)]
  /\ resources = [i \in Identifiers |-> NoValue]
  /\ groups = [i \in Identifiers |-> NoValue]

Statement == sourceFile.statements[nextStatement]

-----------------------------------------------------------------------------
(* syntax.rs: the values a call gives a property or a position. *)

PropertyValues(call, names) ==
  FlattenSeq([k \in DOMAIN call.named |->
                IF call.named[k].name \in names THEN call.named[k].values ELSE <<>>])

FirstOf(values) == IF values = <<>> THEN NoValue ELSE Head(values)
PropertyOf(call, names) == FirstOf(PropertyValues(call, names))

(* With bindings_none() only what is written counts; the detectors of AMQP  *)
(* and JMS also look up what a variable was declared as.                    *)
WrittenAt(call, k) ==
  IF k \in DOMAIN call.args /\ call.args[k].literals # <<>> THEN call.args[k].literals ELSE <<NoValue>>

PositionalValues(call, k) ==
  IF k \in DOMAIN call.args /\ call.args[k].literals = <<>> /\ resources[call.args[k].identifier] # NoValue
  THEN <<resources[call.args[k].identifier].name>>
  ELSE WrittenAt(call, k)

PropertyOr(call, names, positional) ==
  IF PropertyValues(call, names) = <<>> THEN positional ELSE PropertyValues(call, names)
WrittenValues(call, names, k) == PropertyOr(call, names, WrittenAt(call, k))
ResourceValues(call, names, k) == PropertyOr(call, names, PositionalValues(call, k))

FirstValue(call, names, k) ==
  FirstOf(SelectSeq(ResourceValues(call, names, k), LAMBDA v : v # NoValue))

-----------------------------------------------------------------------------
(* The detectors of the brokers: at most one detection each.                *)

Detection(transport, entity, role, values) ==
  [transport |-> transport, entity |-> entity, role |-> role, resources |-> values,
   exchange |-> NoValue, key |-> NoValue, group |-> NoValue, certainty |-> "exact"]

QueueDeclarations == {"assertqueue", "queuedeclare", "createqueue"}
ExchangeDeclarations == {"assertexchange", "exchangedeclare"}
QueueBindings == {"bindqueue", "queuebind"}
ExplicitAmqp == {"assertqueue", "queuedeclare", "sendtoqueue", "basicpublish", "basicconsume",
                 "rabbitlistener"} \cup ExchangeDeclarations \cup QueueBindings

DetectAmqp(call, hints) ==
  LET exchange == FirstValue(call, {"exchange"}, 1)
      of(entity, role, names) == {Detection("amqp", entity, role, ResourceValues(call, names, 1))}
      found ==
        CASE call.name \in QueueDeclarations -> of("queue", "declare", {"queue", "name"})
          [] call.name \in ExchangeDeclarations -> of("exchange", "declare", {"exchange", "name"})
          [] call.name \in QueueBindings ->
               {[Detection("amqp", "binding", "bind", <<FirstValue(call, {"queue"}, 1)>>) EXCEPT
                  !.exchange = FirstValue(call, {"exchange"}, IF call.go THEN 3 ELSE 2),
                  !.key = FirstValue(call, {"routingkey", "bindingkey"}, IF call.go THEN 2 ELSE 3)]}
          [] call.name = "sendtoqueue" -> of("queue", "producer", {})
          [] call.name \in {"consume", "basicconsume", "rabbitlistener"} ->
               {[Detection("amqp", "queue", "consumer", ResourceValues(call, {"queue", "queues"}, 1)) EXCEPT
                  !.group = PropertyOf(call, {"consumertag"})]}
          [] call.name \in {"publish", "basicpublish", "convertandsend"} ->
               {[Detection("amqp", "exchange", "producer", <<exchange>>) EXCEPT
                  !.exchange = exchange, !.key = FirstValue(call, {"routingkey"}, 2)]}
          [] OTHER -> {}
  IN  IF hints \cap {"amqp", "rabbitmq"} # {} \/ call.name \in ExplicitAmqp \/ "amqp" \in call.says
      THEN {[d EXCEPT !.transport = IF "rabbitmq" \in hints THEN "rabbitmq" ELSE @] : d \in found}
      ELSE {}

DetectAws(call, hints) ==
  LET queues == [sendmessage |-> "producer", receivemessage |-> "consumer", createqueue |-> "declare"]
      topics == [publish |-> "producer", subscribe |-> "bind", createtopic |-> "declare"]
      values(names) == WrittenValues(call, names, 1)
  IN  IF "sqs" \in hints \cup call.says \/ PropertyOf(call, {"queueurl"}) # NoValue
      THEN {Detection("sqs", "queue", queues[n], values({"queueurl", "queuename"})) :
              n \in DOMAIN queues \cap {call.name}}
      ELSE IF "sns" \in hints \cup call.says \/ PropertyOf(call, {"topicarn"}) # NoValue
      THEN {[Detection("sns", IF topics[n] = "bind" THEN "binding" ELSE "topic", topics[n], values({"topicarn", "name"}))
               EXCEPT !.exchange = PropertyOf(call, {"protocol"}), !.key = PropertyOf(call, {"endpoint"})] :
              n \in DOMAIN topics \cap {call.name}}
      ELSE {}

ExplicitKafka == {"producerrecord", "subscribetopics", "consumepartition", "kafkaconsumer",
                  "newwriter", "newreader"}

DetectKafka(call, hints) ==
  LET group == PropertyOf(call, {"groupid", "group"})
      of(role, names) == {[Detection("kafka", "topic", role, WrittenValues(call, names, 1))
                             EXCEPT !.group = group]}
  IN  IF "kafka" \notin hints /\ call.name \notin ExplicitKafka /\ "record" \notin call.says THEN {}
      ELSE CASE call.name \in {"send", "produce"} /\ ("kafka" \in hints
                  \/ PropertyOf(call, {"topic"}) # NoValue) -> of("producer", {"topic"})
             [] call.name = "newwriter" -> of("producer", {"topic"})
             [] call.name = "producerrecord" \/ (call.name = "to" /\ "record" \in call.says) ->
                  of("producer", {})
             [] call.name \in {"subscribe", "subscribetopics", "kafkalistener"} -> of("consumer", {"topic", "topics"})
             [] call.name = "newreader" -> of("consumer", {"topic"})
             [] call.name \in {"kafkaconsumer", "consumepartition"} -> of("consumer", {})
             [] call.name = "consumer" /\ PropertyOf(call, {"groupid"}) # NoValue ->
                  {[Detection("kafka", "topic", "declare", <<>>) EXCEPT !.group = group]}
             [] OTHER -> {}

ExplicitJms == {"jmslistener", "createtopic", "createqueue", "createproducer", "createconsumer",
                "convertandsend"}

(* destination_entity(): what the variable was declared as. *)
DestinationEntity(call) ==
  IF call.args = <<>> \/ resources[call.args[1].identifier] = NoValue THEN "destination"
  ELSE resources[call.args[1].identifier].entity

DetectJms(call, hints) ==
  LET group == PropertyOf(call, {"subscription", "subscriptionname", "clientid"})
      of(entity, role, names) == {[Detection("jms", entity, role, ResourceValues(call, names, 1)) EXCEPT !.group = group]}
  IN  IF "jms" \notin hints \cup call.says /\ call.name \notin ExplicitJms THEN {}
      ELSE CASE call.name = "createtopic" -> of("topic", "declare", {})
             [] call.name = "createqueue" -> of("queue", "declare", {})
             [] call.name \in {"createproducer", "convertandsend"} -> of(DestinationEntity(call), "producer", {})
             [] call.name \in {"createconsumer", "jmslistener"} ->
                  of(DestinationEntity(call), "consumer", {"destination"})
             [] OTHER -> {}

DetectNats(call, hints) ==
  LET roles == [publish |-> "producer", request |-> "producer", subscribe |-> "consumer",
                queuesubscribe |-> "consumer"]
  IN  IF "nats" \notin hints \cup call.says THEN {}
      ELSE {[Detection("nats", "subject", roles[n], WrittenValues(call, {"subject"}, 1))
               EXCEPT !.group = PropertyOf(call, {"queue", "queue_group"})] : n \in DOMAIN roles \cap {call.name}}

DetectWithHints(call, hints) ==
  LET all == <<DetectAmqp(call, hints), DetectAws(call, hints), DetectKafka(call, hints),
               DetectJms(call, hints), DetectNats(call, hints)>>
  IN  UNION {all[k] : k \in {j \in DOMAIN all : \A i \in 1..j - 1 : all[i] = {}}}

-----------------------------------------------------------------------------
(* detect(): which transports the call may be of, and what it is for each.  *)

(* The receiver, and the name as it is written; `name` is what an import    *)
(* alias stands for.                                                        *)
Origins(call) == transports[call.receiver] \cup transports[call.identifier]

Direct(call) ==
  Origins(call) \cup ProvidersIn(call.says) \cup UNION {transports[i] : i \in call.chain}

Candidates(call) ==
  LET shared == CASE call.name = "publish" -> {"amqp", "rabbitmq", "nats", "sns"}
                  [] call.name = "subscribe" -> {"kafka", "nats", "sns"}
                  [] call.name = "createqueue" -> {"amqp", "rabbitmq", "jms", "sqs"}
                  [] call.name = "createtopic" -> {"jms", "sns"}
                  [] call.name = "send" -> {"kafka", "jms"}
                  [] OTHER -> {}
  IN  IF Direct(call) # {} THEN Direct(call) ELSE shared \cap Hints

Certainty(candidates) == IF Cardinality(candidates) > 1 THEN "ambiguous" ELSE "exact"

(* Mutant of Detect: the words of the whole file decide for each candidate. *)
DetectByFile(call) ==
  IF Candidates(call) = {} THEN DetectWithHints(call, Hints)
  ELSE UNION {{[d EXCEPT !.certainty = Certainty(Candidates(call))] : d \in DetectWithHints(call, Hints)} :
                t \in Candidates(call)}

Detect(call) ==
  IF Candidates(call) = {} THEN DetectWithHints(call, Hints)
  ELSE UNION {{[d EXCEPT !.certainty = Certainty(Candidates(call))] : d \in DetectWithHints(call, {t})} :
                t \in Candidates(call)}

(* remember_transport_origin(), configured_transport(): a client made from  *)
(* a literal is of the transport the literal names.                         *)
Configured(call) ==
  IF call.identifier \notin {"client", "connect", "createclient", "new"} THEN {}
  ELSE {TransportOrder[k] : k \in {j \in DOMAIN TransportOrder :
          /\ TransportOrder[j] \in ProvidersIn(call.literals)
          /\ \A i \in 1..(j - 1) : TransportOrder[i] \notin ProvidersIn(call.literals)}}

Remembered(call, found) ==
  LET origins == {d.transport : d \in found} \cup Origins(call)
  IN  IF origins # {} THEN origins ELSE Configured(call)

(* append_detection_observations(): one for each resource. *)
Observed(call, found, d) ==
  LET ambiguous == {e.transport : e \in {f \in found : f.certainty = "ambiguous"}}
  IN  {[at |-> nextStatement, transport |-> d.transport, entity |-> d.entity, role |-> d.role,
        resource |-> r, exchange |-> d.exchange, key |-> d.key,
        group |-> IF d.group # NoValue THEN d.group ELSE groups'[call.receiver],
        certainty |-> IF r = NoValue THEN "ambiguous" ELSE d.certainty,
        candidates |-> IF d.certainty = "ambiguous" THEN ambiguous ELSE {d.transport}] :
          r \in Range(d.resources)}

TakeStatement(kind) ==
  /\ nextStatement \in DOMAIN sourceFile.statements /\ Statement.kind = kind
  /\ nextStatement' = nextStatement + 1
  /\ UNCHANGED sourceFile

(* What the variable a call is assigned to stands for from now on: of what  *)
(* is declared, the last detection counts.                                  *)
Declaring(found) ==
  LET declared == {d \in found : d.role = "declare" /\ d.resources # <<>> /\ d.resources[1] # NoValue}
      last(d) == \A e \in declared : \E j, k \in DOMAIN TransportOrder :
                   j <= k /\ TransportOrder[j] = e.transport /\ TransportOrder[k] = d.transport
  IN  {[entity |-> d.entity, name |-> d.resources[1]] : d \in {e \in declared : last(e)}}

GroupsIn(found) == {d.group : d \in {e \in found : e.transport = "kafka" /\ e.group # NoValue}}

DetectCall ==
  /\ TakeStatement("call")
  /\ LET call == Statement
         found == Detect(call)
     IN  /\ groups' = [groups EXCEPT ![call.variable] =
                         IF call.variable = NoValue \/ GroupsIn(found) = {} THEN @ ELSE CHOOSE g \in GroupsIn(found) : TRUE]
         /\ observations' = observations \cup UNION {Observed(call, found, d) : d \in found}
         /\ transports' = [transports EXCEPT ![call.variable] =
                             IF call.variable = NoValue THEN @ ELSE @ \cup Remembered(call, found)]
         /\ resources' = [resources EXCEPT ![call.variable] =
                            IF call.variable = NoValue \/ Declaring(found) = {} THEN @
                            ELSE CHOOSE r \in Declaring(found) : TRUE]

(* propagate_assignment_binding() *)
PassAssignment ==
  /\ TakeStatement("assign")
  /\ transports' = [transports EXCEPT ![Statement.variable] = @ \cup UNION {transports[i] : i \in Statement.reads}]
  /\ UNCHANGED <<observations, resources, groups>>

PassImport == TakeStatement("import") /\ UNCHANGED <<observations, transports, resources, groups>>

ExtractionNext == PassImport \/ PassAssignment \/ DetectCall

ExtractionSpec == ExtractionInit /\ [][ExtractionNext]_extractionVars

-----------------------------------------------------------------------------
(* Where an identifier comes from is asked backwards: by its imports and by *)
(* the statements before that assign it. `assigned` tells of each of them   *)
(* what it passes on.                                                       *)
PassedOn(identifier, k, assigned) ==
  ImportedAs(identifier) \cup
    UNION {assigned[p] : p \in {q \in DOMAIN assigned : /\ q < k /\ identifier # NoValue
                                                         /\ sourceFile.statements[q].kind # "import"
                                                         /\ sourceFile.statements[q].variable = identifier}}

Traced(reads, own) ==
  LET upto[k \in 0..Len(sourceFile.statements)] ==
        IF k = 0 THEN <<>>
        ELSE LET earlier == upto[k - 1]
             IN  Append(earlier, own[k] \cup UNION {PassedOn(i, k, earlier) : i \in reads[k]})
  IN  upto[Len(sourceFile.statements)]

Reads(s) == CASE s.kind = "assign" -> s.reads [] s.kind = "call" -> {s.receiver, s.identifier} [] OTHER -> {}
Mentions(s) == Reads(s) \cup IF s.kind = "call" THEN s.chain ELSE {}

(* What surely reaches a variable: the origins of what is assigned to it.   *)
Surely == Traced([k \in DOMAIN sourceFile.statements |-> Reads(sourceFile.statements[k])],
                 [k \in DOMAIN sourceFile.statements |-> {}])

(* What a call is known to come from, by its words and by what it mentions. *)
Known(k) ==
  LET call == sourceFile.statements[k]
  IN  ProvidersIn(call.says) \cup UNION {PassedOn(i, k, Surely) : i \in Mentions(call)}

(* The transports that a call belongs to by the way it is written.          *)
Written(call) ==
  (IF call.name \in ExplicitAmqp \/ "amqp" \in call.says THEN {"amqp"} ELSE {})
    \cup (IF call.name \in ExplicitKafka \/ "record" \in call.says THEN {"kafka"} ELSE {})
    \cup (IF call.name \in ExplicitJms THEN {"jms"} ELSE {})
    \cup (IF PropertyOf(call, {"queueurl"}) # NoValue THEN {"sqs"} ELSE {})
    \cup (IF PropertyOf(call, {"topicarn"}) # NoValue THEN {"sns"} ELSE {})

(* What at most reaches a variable or is found in a call: only of a call of *)
(* which nothing is known are the words of the file evidence.               *)
Possibly ==
  Traced([k \in DOMAIN sourceFile.statements |-> Mentions(sourceFile.statements[k])],
         [k \in DOMAIN sourceFile.statements |->
            LET s == sourceFile.statements[k]
            IN  IF s.kind # "call" THEN {}
                ELSE ProvidersIn(s.says) \cup Written(s) \cup Configured(s) \cup IF Known(k) = {} THEN Hints ELSE {}])

(* However variables are assigned and reassigned before a call, no side of  *)
(* a contract is of a transport for which there is no evidence; and one that *)
(* is called exact is of the one transport its call is known to come from,  *)
(* or the call is written in its way, and never where several are known.    *)
ExactIsProven ==
  \A o \in observations :
    /\ o.transport \in Possibly[o.at]
    /\ o.certainty = "exact" /\ Known(o.at) # {} =>
         \E t \in Known(o.at) :
           Known(o.at) = {t} /\ o.transport \in {t} \cup Written(sourceFile.statements[o.at])
=============================================================================
