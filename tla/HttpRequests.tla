---------------------------- MODULE HttpRequests ----------------------------
(***************************************************************************)
(* What the HTTP server makes of one request: the location of a RUES       *)
(* request, the frames of binary messages, the versions, and the source of *)
(* data (VM, node, prover) that answers it.  A name stands for a string; a *)
(* path is the list of its segments; a frame is a list of tokens of which  *)
(* the lengths are numbers.                                                *)
(***************************************************************************)
EXTENDS Naturals, SequencesExt

CONSTANTS
  Lower,     \* the lower case of a name that is not in lower case
  U64Size    \* numbers of type u64: 2^64

None == "none"

ASSUME LowerAssumption == \A name \in DOMAIN Lower : Lower[name] \notin DOMAIN Lower

-----------------------------------------------------------------------------
(* Locations *)

Lowercase(name) == IF name \in DOMAIN Lower THEN Lower[name] ELSE name

Uri(component, entity, topic) == [component |-> component, entity |-> entity, topic |-> topic]
NoUri == Uri(None, None, None)

\* A path: does it begin with "/on", and its segments from there on, the first
\* one being what is left of the segment that begins with "on".  A segment
\* holds what is before and after its first ":".
Segment(name, entity) == [name |-> name, entity |-> entity]

ParseFromPath(path) ==
  IF ~path.on \/ Len(path.segments) < 3 THEN NoUri
  ELSE Uri(Lowercase(path.segments[2].name), path.segments[2].entity,
           Lowercase(path.segments[3].name))

\* Display
Location(uri) ==
  [on |-> TRUE, segments |-> <<Segment("", None), Segment(uri.component, uri.entity), Segment(uri.topic, None)>>]

Matches(sub, uri) ==
  /\ sub.component = uri.component
  /\ sub.entity = None \/ sub.entity = uri.entity
  /\ sub.topic = uri.topic

\* The events of the VM and of the node as RUES events.
FromContractEvent(e) == [uri |-> Uri("contracts", e.target, e.topic), headers |-> <<"Rusk-Origin">>, data |-> e.data]
FromNodeEvent(e) == [uri |-> Uri(e.component, e.entity, e.topic), headers |-> <<>>, data |-> e.data]

-----------------------------------------------------------------------------
(* Frames *)

Refused == <<>>

\* A length and that many tokens; the pair of them and what follows.
ParseChunk(bytes) ==
  IF bytes = <<>> THEN Refused
  ELSE LET len == Head(bytes) rest == Tail(bytes)
       IN IF Len(rest) < len THEN Refused
          ELSE <<SubSeq(rest, 1, len), SubSeq(rest, len + 1, Len(rest))>>

\* parse_header
ParseHeader(bytes) == ParseChunk(bytes)

\* Event::parse: the topic, then the data.
ParseEvent(bytes) == ParseChunk(bytes)

\* MessageRequest::parse
ParseRequest(bytes) ==
  LET header == ParseHeader(bytes)
      event == IF header = Refused THEN Refused ELSE ParseEvent(header[2])
  IN IF event = Refused THEN Refused
     ELSE <<[headers |-> header[1], topic |-> event[1], data |-> event[2]]>>

\* RuesEvent::to_bytes, and the Content-Location that is added before.
ToBytes(event) ==
  LET headers == Append(event.headers, [location |-> Location(event.uri)])
  IN <<Len(headers)>> \o headers \o event.data

-----------------------------------------------------------------------------
(* Sources: the VM, the node and the prover, in that order *)

Sources == <<"rusk", "node", "prover">>

NodeRoutes ==
  {<<"graphql", "query">>, <<"transactions", "preverify">>, <<"transactions", "propagate">>,
   <<"network", "peers">>, <<"network", "peers_location">>, <<"node", "info">>, <<"blocks", "gas-price">>}

CanHandleRues(source, uri) ==
  CASE source = "rusk" ->
         \/ uri.component = "contracts" /\ uri.entity # None
         \/ uri.component = "node" /\ uri.topic \in {"provisioners", "crs"}
    [] source = "node" -> <<uri.component, uri.topic>> \in NodeRoutes
    [] source = "prover" -> uri.component = "prover" /\ uri.topic = "prove"

\* A target is the kind and the name of a legacy request.
CanHandle(source, target, topic) ==
  CASE source = "rusk" ->
         /\ ~(target = <<"host", "rusk">> /\ topic = "preverify")
         /\ topic \notin {"prove_execute", "prove_other"}
         /\ target[1] = "contract" \/ target = <<"host", "rusk">>
    [] source = "node" ->
         \/ target = <<"host", "rusk">> /\ topic = "preverify"
         \/ target = <<"host", "Chain">>
    [] source = "prover" ->
         target[2] \in {"rusk", "prover"} /\ topic \in {"prove_execute", "prove_other"}

Ok(what) == [ok |-> TRUE, what |-> what]
Failed(why) == [ok |-> FALSE, what |-> why]

\* handle_contract_query: a feeder query is answered by a channel, whatever
\* becomes of the query; the others by the result of the call.
ContractQuery(req) ==
  IF ~req.contractId THEN Failed("invalid contract")
  ELSE IF req.feeder THEN Ok("channel")
  ELSE IF req.valid THEN Ok("query") ELSE Failed("vm")

\* The operations of the node that read the body.
NodeOperation(name, req) ==
  IF name \in {"preverify", "propagate", "peers", "query"} /\ ~req.valid
  THEN Failed("invalid data") ELSE Ok(name)

HandleRues(source, uri, req) ==
  CASE source = "rusk" ->
         IF uri.component = "contracts" /\ uri.entity # None THEN ContractQuery(req)
         ELSE IF uri.component = "node" /\ uri.topic \in {"provisioners", "crs"} THEN Ok(uri.topic)
         ELSE Failed("Unsupported")
    [] source = "node" ->
         IF <<uri.component, uri.topic>> \in
              {<<"graphql", "query">>, <<"transactions", "preverify">>, <<"transactions", "propagate">>,
               <<"network", "peers">>, <<"network", "peers_location">>, <<"node", "info">>,
               <<"blocks", "gas-price">>}
         THEN NodeOperation(uri.topic, req) ELSE Failed("Unsupported")
    [] source = "prover" ->
         IF uri.component = "prover" /\ uri.topic = "prove"
         THEN IF req.valid THEN Ok("proof") ELSE Failed("prover") ELSE Failed("Unsupported")

ChainTopics == [gql |-> "query", propagate_tx |-> "propagate", alive_nodes |-> "peers", info |-> "info", gas |-> "gas-price"]

Handle(source, target, topic, req) ==
  CASE source = "rusk" ->
         IF target[1] = "contract" THEN ContractQuery(req)
         ELSE IF topic \in {"provisioners", "crs"} THEN Ok(topic) ELSE Failed("Unsupported")
    [] source = "node" ->
         IF target = <<"host", "rusk">> THEN NodeOperation("preverify", req)
         ELSE IF topic \in DOMAIN ChainTopics THEN NodeOperation(ChainTopics[topic], req)
         ELSE Failed("Unsupported")
    [] source = "prover" ->
         IF topic = "prove_execute"
         THEN IF req.valid THEN Ok("proof") ELSE Failed("prover") ELSE Failed("Unsupported")

\* DataSources: the version first, then the first source that can.
Claims(uri) == {n \in DOMAIN Sources : CanHandleRues(Sources[n], uri)}
LegacyClaims(target, topic) == {n \in DOMAIN Sources : CanHandle(Sources[n], target, topic)}
First(claims) == Sources[CHOOSE n \in claims : \A k \in claims : n <= k]

VersionMatches(req) == req.version \in {None, "current"}

SourcesHandleRues(uri, req) ==
  IF ~VersionMatches(req) THEN Failed("version")
  ELSE IF Claims(uri) = {} THEN Failed("unsupported location")
  ELSE HandleRues(First(Claims(uri)), uri, req)

SourcesHandle(target, topic, req) ==
  IF ~VersionMatches(req) THEN Failed("version")
  ELSE IF LegacyClaims(target, topic) = {} THEN Failed("unsupported target type")
  ELSE Handle(First(LegacyClaims(target, topic)), target, topic, req)

\* handle_execution and handle_execution_rues: the answer carries the request's
\* x- headers, an error too.
Executed(req, result) ==
  [ok |-> result.ok, what |-> result.what, headers |-> req.xheaders]

\* into_http
Status(answer) == IF answer.ok THEN 200 ELSE 500

\* What a binary or a text body is for the handlers.
BodyOf(req) ==
  IF req.ctype = "binary" THEN "bytes"
  ELSE IF req.body = "notutf8" THEN None
  ELSE IF req.body = "hex" THEN "bytes" ELSE "text"

\* get_gas_price: statistics of the first `max` gas prices of the mempool,
\* which are sorted in descending order; the average is rounded up.  Sums wrap.
Taken(mempool, max) == SubSeq(mempool, 1, IF max < Len(mempool) THEN max ELSE Len(mempool))

Total(prices) ==
  LET total[n \in 0..Len(prices)] == IF n = 0 THEN 0 ELSE total[n - 1] + prices[n]
  IN total[Len(prices)]

NoStats == [average |-> 1, max |-> 1, median |-> 1, min |-> 1]

GetGasPrice(prices) ==
  LET count == Len(prices)
      mid == count \div 2
  IN IF count = 0 THEN NoStats
     ELSE [average |-> ((Total(prices) + count - 1) % U64Size) \div count, max |-> prices[1], min |-> prices[count],
           median |-> IF count % 2 = 0 THEN ((prices[mid] + prices[mid + 1]) % U64Size) \div 2
                      ELSE prices[mid + 1]]

\* The POST branch of handle_request_rues.
PostRues(path, req) ==
  LET uri == ParseFromPath(path)
  IN IF uri = NoUri \/ BodyOf(req) = None THEN [status |-> 500, headers |-> <<>>, what |-> "request"]
     ELSE LET answer == Executed(req, SourcesHandleRues(uri, req))
          IN [status |-> Status(answer), headers |-> answer.headers, what |-> answer.what]
=============================================================================
