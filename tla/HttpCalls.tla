------------------------------ MODULE HttpCalls ------------------------------
(***************************************************************************)
(* The calls of the HTTP server: POST requests of RUES clients, and the    *)
(* websocket of a legacy client, whose requests are executed concurrently  *)
(* and answered in any order.                                              *)
(***************************************************************************)
EXTENDS HttpRequests, FiniteSets

CONSTANTS
  Posts,         \* POST requests: [path, req]
  Messages,      \* requests of the legacy websocket: [frame, target, req]
  GasPrices,     \* mempools, as gas prices in descending order
  Limits,        \* numbers of transactions whose gas prices are asked for
  MaxMessages    \* bound

VARIABLES
  answered,  \* the last answer to a POST request
  legacy,    \* the legacy websocket: [st, tasks, responses, sent]
  messages   \* the messages received on it

callVars == <<answered, legacy, messages>>

\* A request has headers; the mempool lists gas prices in descending order, and
\* their sums fit a u64.
ASSUME CallsAssumption ==
  /\ \A m \in Messages : "xheaders" \in DOMAIN m.req
  /\ GasPrices \subseteq Seq(Nat) /\ Limits \subseteq Nat /\ U64Size \in Nat
  /\ \A p \in GasPrices : \A i, j \in DOMAIN p : i <= j => p[i] >= p[j]
  /\ \A p \in GasPrices, max \in Limits :
       LET q == Taken(p, max)
       IN /\ Total(q) + Len(q) <= U64Size
          /\ \A i, j \in DOMAIN q : i # j => q[i] + q[j] < U64Size

CallInit ==
  /\ answered = [status |-> 0, headers |-> <<>>, what |-> None, claims |-> 0, prices |-> <<>>, stats |-> NoStats]
  /\ legacy = [st |-> "open", tasks |-> {}, responses |-> <<>>, sent |-> <<>>]
  /\ messages = <<>>

\* POST requests share no state with the websocket: a behaviour makes one, or
\* uses the websocket.
Fresh == messages = <<>> /\ answered.status = 0

Post(p) ==
  /\ \E prices \in GasPrices, max \in Limits :
       LET answer == PostRues(p.path, p.req)
           asks == answer.what = "gas-price"
       IN answered' = [status |-> answer.status, headers |-> answer.headers, what |-> answer.what,
                       claims |-> Cardinality(Claims(ParseFromPath(p.path))),
                       prices |-> IF asks THEN Taken(prices, max) ELSE <<>>,
                       stats |-> IF asks THEN GetGasPrice(Taken(prices, max)) ELSE NoStats]
  /\ UNCHANGED <<legacy, messages>>

\* handle_stream receives a message: a valid one is executed by a task of its
\* own, any other closes the stream.
ReceiveMessage(m) ==
  /\ legacy.st = "open" /\ Len(messages) < MaxMessages /\ answered.status = 0
  /\ messages' = Append(messages, m)
  /\ LET parsed == ParseRequest(m.frame)
         tagged == [m.req EXCEPT !.xheaders = <<Len(messages) + 1>>]
     IN legacy' = IF parsed = Refused THEN [legacy EXCEPT !.st = "closed"]
                  ELSE [legacy EXCEPT !.tasks =
                    @ \cup {[target |-> m.target, topic |-> Head(parsed[1].topic), req |-> tagged]}]
  /\ UNCHANGED answered

\* Mutated form of AnswerTo: an error is built without the request.
AnswerToBare(t) ==
  LET result == SourcesHandle(t.target, t.topic, t.req)
  IN IF result.ok THEN Executed(t.req, result)
     ELSE [ok |-> FALSE, what |-> result.what, headers |-> <<>>]
AnswerTo(t) == Executed(t.req, SourcesHandle(t.target, t.topic, t.req))

\* handle_execution, in any order.
Execute(t) ==
  /\ legacy' = [legacy EXCEPT !.tasks = @ \ {t}, !.responses = Append(@, AnswerTo(t))]
  /\ UNCHANGED <<answered, messages>>

\* A response is sent; one that is a channel is sent chunk by chunk, and a
\* failure to send a chunk closes the stream without leaving the loop.
Respond ==
  /\ legacy.st \in {"open", "closing"} /\ legacy.responses # <<>>
  /\ LET r == Head(legacy.responses)
         chunks == IF r.what = "channel" THEN <<r, r>> ELSE <<r>>
     IN \E n \in IF legacy.st = "open" THEN 0 .. Len(chunks) ELSE {0} :
          legacy' = [legacy EXCEPT
            !.responses = Tail(@),
            !.sent = @ \o SubSeq(chunks, 1, n),
            !.st = IF n = Len(chunks) THEN @ ELSE IF r.what = "channel" THEN "closing" ELSE "closed"]
  /\ UNCHANGED <<answered, messages>>

\* The client or the server ends it.
Hangup ==
  /\ legacy.st \in {"open", "closing"}
  /\ legacy' = [legacy EXCEPT !.st = "closed"]
  /\ UNCHANGED <<answered, messages>>

CallNext ==
  \/ Fresh /\ \E p \in Posts : Post(p)
  \/ \E m \in Messages : ReceiveMessage(m)
  \/ \E t \in legacy.tasks : Execute(t)
  \/ Respond \/ Hangup

CallSpec == CallInit /\ [][CallNext]_callVars

-----------------------------------------------------------------------------
(* What clients may rely on *)

\* A location that a source claims is claimed by that source alone, and the
\* source then has an operation for it: the two tables of each of the three
\* sources agree, and none shadows another.
ClaimsAnswered == answered.claims <= 1 /\ answered.what # "Unsupported"

\* The answers on a legacy websocket come in any order and an error is one of
\* them; each carries the headers of a request of this connection, so that the
\* client can tell what it answers, and no request has two answers.
AnswersCorrelate ==
  \A i \in DOMAIN legacy.sent : \E k \in DOMAIN messages :
    /\ legacy.sent[i].headers = <<k>>
    /\ \A j \in DOMAIN legacy.sent :
         i # j /\ legacy.sent[j].headers = <<k>> => legacy.sent[i].what = "channel"

\* The statistics of the gas prices: the average is rounded up, never past the
\* highest price, and the median lies between the prices of both halves.
GasPriceBounds ==
  LET p == answered.prices s == answered.stats n == Len(p)
      Paid(x) == Cardinality({i \in DOMAIN p : p[i] >= x})
      total == Total(p)
  IN p # <<>> =>
       /\ s.average * n >= total /\ (s.average - 1) * n < total
       /\ s.min <= s.average /\ s.average <= s.max
       /\ 2 * Paid(s.median) >= n /\ 2 * (n - Paid(s.median + 1)) >= n

\* A call is answered by the one source that claims it, with statistics that
\* bound the prices, and the client can tell which request is answered.
CallsAnswered == ClaimsAnswered /\ AnswersCorrelate /\ GasPriceBounds
=============================================================================
