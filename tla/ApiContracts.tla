---------------------------- MODULE ApiContracts ----------------------------
(* The typed (GraphQL, gRPC) and the HTTP contracts of a backend and its    *)
(* clients (src/operations/transport_contracts/matching/typed*.rs and       *)
(* http/). Providers are gone through one by one, then, for typed contracts,*)
(* the clients. A typed label is an identity with a form: the kind of the   *)
(* operation or the streaming mode; all places of a label are one account.  *)
(* A route is a sequence of segments.                                       *)
EXTENDS Integers, Sequences, FiniteSets, SequencesExt

CONSTANTS
  Integrations,  \* a backend, its clients, what does not parse, and the limits
  Absent         \* no verdict yet, no property, no filter

VARIABLES
  integration,   \* the question; {} outside a call
  matched,       \* providers that were gone through
  contracts,     \* the contract of a provider
  unmatched,     \* how many providers nobody called
  usedLabels,    \* the labels of clients that were seen
  client,        \* the next client
  mismatches,
  verdict

apiVars == <<integration, matched, contracts, unmatched, usedLabels, client, mismatches, verdict>>

IsRoute(route) == DOMAIN route = 1..Len(route) /\ Len(route) \in Nat

IsIntegration(i) ==
  /\ i.maxEndpoints \in Nat /\ Len(i.clients) \in Nat /\ DOMAIN i.clients = 1..Len(i.clients)
  /\ DOMAIN i.backend \subseteq Nat /\ IsFiniteSet(DOMAIN i.backend)
  /\ i.transport \notin {"graphql", "grpc"} =>
       /\ \A k \in DOMAIN i.backend : IsRoute(i.backend[k].route)
       /\ \A c \in DOMAIN i.clients : \A k \in DOMAIN i.clients[c].calls :
            LET literals == i.clients[c].calls[k].literals
            IN  \A l \in DOMAIN literals : IsRoute(literals[l].segments)

IntegrationsAssumption == \A i \in Integrations : IsIntegration(i)

ASSUME IntegrationsAssumption

-----------------------------------------------------------------------------
(* The endpoints of the backend that are asked about, and the first of them.*)

Typed == integration.transport \in {"graphql", "grpc"}

AskedFor(endpoint) ==
  IF Typed THEN endpoint.visible /\ "exposes" \in endpoint.edges
  ELSE /\ endpoint.visible
       /\ integration.method \in {Absent, endpoint.method}
       /\ integration.path # Absent => IsSuffix(integration.path, endpoint.route)
       /\ integration.changed # {} => endpoint.file \in integration.changed

Exposed == {k \in DOMAIN integration.backend : AskedFor(integration.backend[k])}
Providers == {k \in Exposed : Cardinality({j \in Exposed : j <= k}) <= integration.maxEndpoints}
BoundReached == Cardinality(Exposed) > integration.maxEndpoints

ApiInit ==
  /\ integration \in Integrations
  /\ matched = {} /\ contracts = <<>> /\ unmatched = 0 /\ usedLabels = {}
  /\ client = 1 /\ mismatches = {} /\ verdict = Absent

IsNext(k) == k \in Providers \ matched /\ \A j \in Providers \ matched : k <= j

WithContract(k, contract) ==
  contracts' = [j \in DOMAIN contracts \cup {k} |-> IF j = k THEN contract ELSE contracts[j]]

-----------------------------------------------------------------------------
(* typed_api_contracts() *)

UseRelations == IF integration.transport = "grpc" THEN {"calls", "exposes"} ELSE {"calls"}

(* Labels of a client's endpoints with a relation that is evidence.         *)
Evidence(c) ==
  {node.label : node \in {n \in Range(integration.clients[c].nodes) :
                            n.visible /\ n.edges \cap UseRelations # {}}}

LabelOf(k) == integration.backend[k].label
Callers(k) == {c \in DOMAIN integration.clients : LabelOf(k) \in Evidence(c)}

(* match_provider_contracts() *)
MatchProvider ==
  /\ Typed /\ verdict = Absent
  /\ \E k \in Providers :
       /\ IsNext(k)
       /\ matched' = matched \cup {k}
       /\ WithContract(k, [signature |-> LabelOf(k), matched |-> Callers(k) # {}])
       /\ unmatched' = unmatched + (IF Callers(k) = {} THEN 1 ELSE 0)
       /\ usedLabels' = usedLabels \cup (Callers(k) \X {LabelOf(k)})
  /\ UNCHANGED <<integration, client, mismatches, verdict>>

(* Mutant of Mismatch: what the identity is has no say.                     *)
MismatchByLabel(c, label) ==
  [kind |-> "MISSING_PROVIDER", client |-> c, actual |-> label, expected |-> {}]

Mismatch(c, label) ==
  LET same == {LabelOf(k) : k \in {p \in Providers : LabelOf(p).identity = label.identity}}
  IN  [kind |-> IF same = {} THEN "MISSING_PROVIDER" ELSE "FORM_MISMATCH",
       client |-> c, actual |-> label, expected |-> same]

Unprovided(c) == Evidence(c) \ {LabelOf(k) : k \in Providers}

(* find_client_mismatches() *)
MatchClient ==
  /\ Typed /\ matched = Providers /\ client \in DOMAIN integration.clients
  /\ client' = client + 1
  /\ usedLabels' = usedLabels \cup ({client} \X Evidence(client))
  /\ mismatches' = mismatches \cup {Mismatch(client, label) : label \in Unprovided(client)}
  /\ UNCHANGED <<integration, matched, contracts, unmatched, verdict>>

(* ensure_typed_parsing_complete(): a file that did not parse fails all.    *)
FinishTyped ==
  /\ Typed /\ matched = Providers /\ client > Len(integration.clients) /\ verdict = Absent
  /\ verdict' = IF integration.broken # {} THEN [status |-> "ERROR"]
                ELSE [status |-> "COMPLETE", bounded |-> BoundReached, contracts |-> contracts,
                      mismatches |-> mismatches, unmatched |-> unmatched, used |-> usedLabels]
  /\ UNCHANGED <<integration, matched, contracts, unmatched, usedLabels, client, mismatches>>

-----------------------------------------------------------------------------
(* http/route.rs: the search word, and whether a literal may be the route.  *)

Static(segment) == segment.parameter = FALSE

RouteQuery(route) ==
  LET dynamic == {k \in DOMAIN route : ~Static(route[k])}
  IN  IF dynamic = {} THEN route ELSE SubSeq(route, 1, Min(dynamic) - 1)

Includes(literal, route) ==
  \E k \in 0..(Len(literal) - Len(route)) : \A j \in DOMAIN route : literal[k + j] = route[j]

RouteMatches(route, literal) ==
  LET parts == {route[k] : k \in {j \in DOMAIN route : Static(route[j])}}
  IN  Includes(literal, route) \/ (parts # {} /\ parts \subseteq Range(literal))

(* http/evidence.rs: a call of an HTTP function, and the method it proves:  *)
(* by its own name, by a property, or by default if nothing else may set it.*)

Verbs == {"get", "post", "put", "delete"}
HttpFunctions == {"fetch", "request", "ajax", "axios", "got"}
Defaulting == {"fetch", "axios", "got"}

LooksLikeHttp(call) == call.name \in HttpFunctions \cup Verbs \/ call.onClient

ResolveMethod(call) ==
  CASE call.name \in Verbs -> call.name
    [] call.name \notin Verbs /\ call.method \in Verbs -> call.method
    [] call.name \notin Verbs /\ call.method = Absent /\ ~call.options /\ call.name \in Defaulting -> "get"
    [] OTHER -> "UNRESOLVED"

(* find_proven_callsite(): the first HTTP call with the route on the line.  *)
CallsOf(c) == integration.clients[c].calls
ProvenCalls(c, line, route) ==
  {k \in DOMAIN CallsOf(c) :
     /\ \E l \in Range(CallsOf(c)[k].literals) : l.line = line /\ RouteMatches(route, l.segments)
     /\ LooksLikeHttp(CallsOf(c)[k])}
Callsite(c, line, route) ==
  {k \in ProvenCalls(c, line, route) : \A j \in ProvenCalls(c, line, route) : k <= j}

(* The lines text search nominates: the first of those with the query, and  *)
(* of these the ones with the route.                                        *)
Nominated(c, route) ==
  LET literals == UNION {Range(call.literals) : call \in Range(CallsOf(c))}
      found == {l.line : l \in {m \in literals : Includes(m.segments, RouteQuery(route))}}
      first == {line \in found : Cardinality({other \in found : other <= line}) <= integration.maxMatches}
  IN  {l.line : l \in {m \in literals : m.line \in first /\ RouteMatches(route, m.segments)}}

Disagrees(method, endpoint) ==
  method # "UNRESOLVED" /\ endpoint.method \notin {"any", method}

Site(c, line, call, endpoint) ==
  [client |-> c, line |-> line, method |-> ResolveMethod(call),
   mismatch |-> Disagrees(ResolveMethod(call), endpoint)]

(* find_endpoint_calls(): the callsites of one endpoint in every client.    *)
SitesAt(c, line, endpoint) ==
  {Site(c, line, CallsOf(c)[k], endpoint) : k \in Callsite(c, line, endpoint.route)}

SitesOf(c, endpoint) == UNION {SitesAt(c, line, endpoint) : line \in Nominated(c, endpoint.route)}

Sites(endpoint) ==
  IF RouteQuery(endpoint.route) = <<>> THEN {}
  ELSE UNION {SitesOf(c, endpoint) : c \in {d \in DOMAIN integration.clients : integration.clients[d].visible}}

(* http_contracts(): one endpoint.                                          *)
MatchEndpoint ==
  /\ ~Typed /\ verdict = Absent
  /\ \E k \in Providers :
       LET endpoint == integration.backend[k]
       IN  /\ IsNext(k)
           /\ matched' = matched \cup {k}
           /\ \/ /\ Sites(endpoint) # {}
                 /\ WithContract(k, [endpoint |-> endpoint, callsites |-> Sites(endpoint)])
                 /\ UNCHANGED unmatched
              \/ Sites(endpoint) = {} /\ unmatched' = unmatched + 1 /\ UNCHANGED contracts
  /\ UNCHANGED <<integration, usedLabels, client, mismatches, verdict>>

FinishHttp ==
  /\ ~Typed /\ matched = Providers /\ verdict = Absent
  /\ verdict' = [status |-> "COMPLETE", contracts |-> contracts, unmatched |-> unmatched]
  /\ UNCHANGED <<integration, matched, contracts, unmatched, usedLabels, client, mismatches>>

ApiNext == MatchProvider \/ MatchClient \/ FinishTyped \/ MatchEndpoint \/ FinishHttp
ApiSpec == ApiInit /\ [][ApiNext]_apiVars

-----------------------------------------------------------------------------
(* Every client operation with evidence is the signature of a matched       *)
(* contract or one mismatch, a provider is called missing only if the       *)
(* backend exposes no operation of the identity (or the answer says that it *)
(* was cut), a form mismatch names the forms it has, and what is counted as *)
(* used is what the clients use.                                            *)
TypedAgree ==
  /\ integration.broken = {}
  /\ \A c \in DOMAIN integration.clients : \A label \in Evidence(c) :
       LET accounts == {m \in verdict.mismatches : m.client = c /\ m.actual = label}
       IN  IF [signature |-> label, matched |-> TRUE] \in Range(verdict.contracts)
           THEN accounts = {} ELSE Cardinality(accounts) = 1
  /\ \A m \in verdict.mismatches :
       LET same == {p \in Exposed : LabelOf(p).identity = m.actual.identity}
       IN  IF m.kind = "MISSING_PROVIDER" THEN same = {} \/ verdict.bounded
           ELSE m.expected # {} /\ m.expected \subseteq {LabelOf(p) : p \in same}
  /\ \A c \in DOMAIN integration.clients, label \in UNION {Evidence(d) : d \in DOMAIN integration.clients} :
       <<c, label>> \in verdict.used <=> label \in Evidence(c)

(* Every provider is accounted for, a callsite is a call of the client with *)
(* the static parts of the route, and it disagrees only by a method that    *)
(* the call itself gives.                                                   *)
HttpAgree ==
  /\ Cardinality(DOMAIN verdict.contracts) + verdict.unmatched = Cardinality(Providers)
  /\ \A contract \in Range(verdict.contracts) : \A site \in contract.callsites :
       \E call \in Range(CallsOf(site.client)) :
         /\ LooksLikeHttp(call)
         /\ \E l \in Range(call.literals) : /\ l.line = site.line
              /\ \A segment \in Range(contract.endpoint.route) :
                   Static(segment) => segment \in Range(l.segments)
         /\ site.mismatch =>
              /\ contract.endpoint.method # "any" /\ site.method # contract.endpoint.method
              /\ call.name = site.method \/ call.method = site.method
                 \/ (call.name \in Defaulting /\ ~call.options /\ site.method = "get")

(* Both directions of a comparison agree, and nothing is answered over a    *)
(* file that did not parse (typed_api_contracts, http_contracts).           *)
ContractsAgree ==
  verdict # Absent /\ verdict.status = "COMPLETE" => IF Typed THEN TypedAgree ELSE HttpAgree
=============================================================================
