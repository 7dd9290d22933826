---------------------------- MODULE ServiceScenes ---------------------------
(***************************************************************************)
(* The small worlds of NodeServices: block trees, requests, paths, events  *)
(* and notes.                                                              *)
(***************************************************************************)
EXTENDS Naturals, Sequences

-----------------------------------------------------------------------------
(* Two branches of blocks with the events of their transactions.            *)

Event(origin, topic, from, to, back, memo) ==
  [origin |-> origin, contract |-> "transfer", topic |-> topic, from |-> from, to |-> to,
   back |-> back, memo |-> memo]
Foreign(origin) ==
  [Event(origin, "moonlight", "none", "none", "none", "none") EXCEPT !.contract = "other"]
Withdrawal == Event(1, "withdraw", "none", "u", "none", "none")
Transfer(origin, back) == Event(origin, "moonlight", "u", "v", back, "k")

ArchiveBlock(prev, height, events) == [prev |-> prev, height |-> height, events |-> events]
ArchiveTree ==
  [g  |-> ArchiveBlock("g", 0, <<>>),
   a1 |-> ArchiveBlock("g", 1, <<Transfer(2, "u"), Withdrawal, Foreign(2)>>),
   b1 |-> ArchiveBlock("g", 1, <<Event(1, "phoenix", "none", "none", "none", "none"), Withdrawal>>),
   a2 |-> ArchiveBlock("a1", 2, <<Event(3, "moonlight", "u", "none", "w", "none")>>),
   b2 |-> ArchiveBlock("b1", 2, <<Transfer(2, "u"), Foreign(2), Transfer(3, "w")>>),
   b3 |-> ArchiveBlock("b2", 3, <<Event(4, "moonlight", "v", "u", "none", "none")>>)]

-----------------------------------------------------------------------------
(* Two branches that share a transaction and a fault, and what peers ask.   *)

StoredBlock(prev, height, iter, txs, faults) ==
  [prev |-> prev, height |-> height, iter |-> iter, txs |-> txs, faults |-> faults]
StoreTree ==
  [g  |-> StoredBlock("none", 0, 0, {}, {}),
   a1 |-> StoredBlock("g", 1, 0, {"x"}, {}),
   b1 |-> StoredBlock("g", 1, 1, {"x"}, {<<"m", "n">>}),
   a2 |-> StoredBlock("a1", 2, 0, {"y"}, {<<"m", "n">>}),
   b2 |-> StoredBlock("b1", 2, 0, {"y"}, {<<"n", "m">>})]
StoreFaultHeader == [m |-> [round |-> 1, prev |-> "g"], n |-> [round |-> 1, prev |-> "g"]]

Item(by, key) == [by |-> by, key |-> key]
Request(kind, items, hops, expired) ==
  [kind |-> kind, items |-> items, max |-> 0, hops |-> hops, expired |-> expired]
PeerRequests ==
  {Request("GetBlocks", <<Item("hash", "g")>>, 1, FALSE),
   Request("GetMempool", <<>>, 1, FALSE),
   Request("Inv", <<Item("hash", "a1"), Item("height", 2), Item("candidate", "b1")>>, 1, FALSE),
   Request("GetResource", <<Item("hash", "a1"), Item("candidate", "b1")>>, 2, FALSE),
   Request("GetResource", <<Item("height", 1), Item("height", 2)>>, 1, FALSE),
   Request("GetResource", <<Item("iteration", <<"g", 1>>), Item("result", <<"g", 0>>),
                            Item("tx", "x")>>, 1, FALSE),
   Request("GetResource", <<Item("height", 2)>>, 1, TRUE)}

-----------------------------------------------------------------------------
(* HTTP clients.  One topic is not in lower case.                           *)

LowerCase == [Deposit |-> "deposit"]
Http == INSTANCE HttpRequests WITH Lower <- LowerCase, U64Size <- 16

HttpPath(segments) == [on |-> TRUE, segments |-> <<Http!Segment("", "none")>> \o segments]
TargetPath(component, entity, topic) ==
  HttpPath(<<Http!Segment(component, entity), Http!Segment(topic, "none")>>)

SubscribedPaths ==
  {TargetPath("blocks", "none", "accepted"), TargetPath("contracts", "c", "Deposit"),
   HttpPath(<<Http!Segment("blocks", "none")>>)}

BlockEvent(topic) ==
  Http!FromNodeEvent([component |-> "blocks", entity |-> "b1", topic |-> topic, data |-> <<>>])
ServerEvents ==
  {BlockEvent("accepted"),
   Http!FromContractEvent([target |-> "c", topic |-> "deposit", data |-> <<>>])}

PostRequest ==
  [version |-> "none", ctype |-> "json", body |-> "text", valid |-> TRUE, contractId |-> TRUE,
   feeder |-> FALSE, xheaders |-> <<1>>]
PostRequests ==
  {PostRequest, [PostRequest EXCEPT !.valid = FALSE], [PostRequest EXCEPT !.version = "other"],
   [PostRequest EXCEPT !.ctype = "binary", !.feeder = TRUE], [PostRequest EXCEPT !.body = "notutf8"]}
PostComponents == {"graphql", "transactions", "network", "node", "blocks", "contracts", "prover"}
PostTopics == {"query", "preverify", "propagate", "peers", "peers_location", "info", "gas-price",
               "provisioners", "crs", "prove", "Deposit"}
ServerPosts ==
  [path : {TargetPath(c, e, t) : c \in PostComponents, e \in {"none", "c"}, t \in PostTopics}
            \cup {HttpPath(<<>>)},
   req : PostRequests]

Frame(topic) == <<1, "headers", 1, topic, "data">>
LegacyMessage(frame, target, req) == [frame |-> frame, target |-> target, req |-> req]
LegacyMessages ==
  {LegacyMessage(Frame(t), target, r) :
     t \in {"preverify", "gql", "prove_execute", "f"},
     target \in {<<"host", "rusk">>, <<"host", "Chain">>, <<"contract", "c">>, <<"host", "prover">>},
     r \in {PostRequest, [PostRequest EXCEPT !.feeder = TRUE], [PostRequest EXCEPT !.valid = FALSE]}}
  \cup {LegacyMessage(f, <<"host", "rusk">>, PostRequest) :
          f \in {<<>>, <<2, "headers">>, <<1, "headers", 4, "f">>}}

PoolPrices == {<<>>, <<5>>, <<5, 2>>, <<5, 2, 1>>, <<4, 4, 1>>}

-----------------------------------------------------------------------------
(* Two profiles of a wallet.                                                *)

WalletNote(id, owner, value) == [id |-> id, pos |-> id - 1, owner |-> owner, value |-> value]
SyncNotes == <<WalletNote(1, "someone", 1), WalletNote(2, "p", 1)>>
SpendNotes == <<WalletNote(1, "someone", 1), WalletNote(2, "p", 3)>>

Unstaked == [p \in {"p", "q"} |-> [owner |-> "no one", amount |-> 0, reward |-> 0]]
Staked == [Unstaked EXCEPT !["p"] = [owner |-> "q", amount |-> 2, reward |-> 1]]
ContractStaked == [Unstaked EXCEPT !["p"] = [owner |-> "contract", amount |-> 2, reward |-> 1]]
AccountHoldings == [p \in {"p", "q"} |-> 5]

AllKinds ==
  {"phoenix_transfer", "moonlight_transfer", "phoenix_execute", "moonlight_execute",
   "phoenix_stake", "moonlight_stake", "phoenix_unstake", "moonlight_unstake",
   "phoenix_stake_withdraw", "moonlight_stake_withdraw", "phoenix_to_moonlight",
   "moonlight_to_phoenix", "phoenix_deploy", "moonlight_deploy"}
=============================================================================
