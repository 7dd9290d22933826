---------------------------- MODULE NodeServices ----------------------------
(***************************************************************************)
(* The services of a node beside consensus and the chain, and the wallet,  *)
(* each in a small world (ServiceScenes).  A behaviour follows one of them *)
(* and leaves the variables of the others alone.  The archive, the wire    *)
(* and the wallet are instances, whose variables are v1, v2, ... in the    *)
(* order of their declaration in their module.                             *)
(***************************************************************************)
EXTENDS DataBroker, RuesServer, HttpCalls, ServiceScenes

VARIABLES service, v1, v2, v3, v4, v5, v6, v7, v8, v9, v10, v11

instanceVars == <<v1, v2, v3, v4, v5, v6, v7, v8, v9, v10, v11>>
serviceVars == <<service, brokerVars, ruesVars, callVars, instanceVars>>

\* The archive, which hears of the chain through two channels.
Arch == INSTANCE Archive WITH
  Blocks <- ArchiveTree, Root <- "g", NodeCap <- 3, ArchiveCap <- 3, DefaultMax <- 1,
  MaxSwitches <- 1, MaxCrashes <- 1,
  chain <- v1, finalTo <- v2, nodeEvents <- v3, archival <- v4, sql <- v5, index <- v6,
  loading <- v7, cached <- v8, dropped <- v9, switches <- v10, crashes <- v11

\* Samples of the messages of every topic.
Samples == INSTANCE WireSamples WITH
  MaxFailedIters <- 3, MaxMemo <- 2, Payloads <- {}, Votes <- {}, NewAtt <- <<>>,
  KadHeight <- 1, MaxSends <- 4,
  origin <- v1, meant <- v2, held <- v3, wire <- v4, cut <- v5, kad <- v6, sends <- v7,
  record <- v8

WirePayloads == Samples!SamplePayloads
WireVotes == Samples!WireVotes
WireAttestation == Samples!GoodAtt

\* A message on its way from node to node.
Wire == INSTANCE WireHops WITH
  MaxFailedIters <- 3, MaxMemo <- 2, Payloads <- WirePayloads, Votes <- WireVotes,
  NewAtt <- WireAttestation, KadHeight <- 1, MaxSends <- 4,
  origin <- v1, meant <- v2, held <- v3, wire <- v4, cut <- v5, kad <- v6, sends <- v7,
  record <- v8

\* A wallet whose background task and commands synchronise at the same time.
Syncing == INSTANCE Wallet WITH
  MaxInputs <- 2, ProfileOrder <- <<"p", "q">>, Syncs <- {"task", "command"},
  Genesis <- SyncNotes, Fee <- 1, Stakes <- {Unstaked}, Users <- {}, Amounts <- {}, Payments <- {2},
  Holdings <- AccountHoldings, MinStake <- 2,
  Kinds <- {}, MaxNotes <- 4, MaxEvents <- 2, MaxDepth <- 1,
  chain <- v1, live <- v2, spent <- v3, lastPos <- v4, sync <- v5, op <- v6, sentTx <- v7,
  settled <- v8, outcome <- v9, changes <- v10, past <- v11

\* A wallet whose owner uses every operation.
Spending == INSTANCE Wallet WITH
  MaxInputs <- 2, ProfileOrder <- <<"p", "q">>, Syncs <- {"command"}, Genesis <- SpendNotes,
  Fee <- 1, Stakes <- {Unstaked, Staked, ContractStaked}, Holdings <- AccountHoldings, MinStake <- 2,
  Users <- {"p"}, Amounts <- {0, 2}, Payments <- {}, Kinds <- AllKinds, MaxNotes <- 4, MaxEvents <- 1, MaxDepth <- 1,
  chain <- v1, live <- v2, spent <- v3, lastPos <- v4, sync <- v5, op <- v6, sentTx <- v7,
  settled <- v8, outcome <- v9, changes <- v10, past <- v11

\* A wallet that spends on a chain that is reorganised.
Reverting == INSTANCE Wallet WITH
  MaxInputs <- 2, ProfileOrder <- <<"p">>, Syncs <- {"command"}, Genesis <- SyncNotes,
  Fee <- 1, Stakes <- {Unstaked}, Holdings <- AccountHoldings, MinStake <- 3,
  Users <- {"p"}, Amounts <- {2}, Payments <- {2}, Kinds <- {"phoenix_transfer", "moonlight_stake"},
  MaxNotes <- 3, MaxEvents <- 3, MaxDepth <- 1,
  chain <- v1, live <- v2, spent <- v3, lastPos <- v4, sync <- v5, op <- v6, sentTx <- v7,
  settled <- v8, outcome <- v9, changes <- v10, past <- v11

-----------------------------------------------------------------------------
\* The variables from the n-th on are not used.
UnusedFrom9 == v9 = "unused" /\ v10 = "unused" /\ v11 = "unused"
Unused ==
  /\ v1 = "unused" /\ v2 = "unused" /\ v3 = "unused" /\ v4 = "unused"
  /\ v5 = "unused" /\ v6 = "unused" /\ v7 = "unused" /\ v8 = "unused"
  /\ UnusedFrom9

ArchiveInit == service = "archive" /\ Arch!Init
WireInit == service = "wire" /\ Wire!WireInit /\ UnusedFrom9
SyncingInit == service = "syncing" /\ Syncing!WalletInit
SpendingInit == service = "spending" /\ Spending!WalletInit
RevertingInit == service = "reverting" /\ Reverting!WalletInit

ServiceInit ==
  /\ BrokerInit
  /\ RuesInit
  /\ CallInit
  /\ \/ service \in {"broker", "rues", "calls"} /\ Unused
     \/ ArchiveInit
     \/ WireInit
     \/ SyncingInit
     \/ SpendingInit
     \/ RevertingInit

\* A step of one of the instances.
InstanceNext ==
  \/ service = "archive" /\ Arch!Next
  \/ service = "wire" /\ Wire!WireNext /\ UNCHANGED <<v9, v10, v11>>
  \/ service = "syncing" /\ Syncing!WalletNext
  \/ service = "spending" /\ Spending!WalletNext
  \/ service = "reverting" /\ Reverting!WalletNext

ServiceNext ==
  \/ service = "broker" /\ BrokerNext /\ UNCHANGED <<service, ruesVars, callVars, instanceVars>>
  \/ service = "rues" /\ RuesNext /\ UNCHANGED <<service, brokerVars, callVars, instanceVars>>
  \/ service = "calls" /\ CallNext /\ UNCHANGED <<service, brokerVars, ruesVars, instanceVars>>
  \/ InstanceNext /\ UNCHANGED <<service, brokerVars, ruesVars, callVars>>

ServiceSpec == ServiceInit /\ [][ServiceNext]_serviceVars

\* The archive alone.
ArchiveSpec == BrokerInit /\ RuesInit /\ CallInit /\ ArchiveInit /\ [][ServiceNext]_serviceVars

-----------------------------------------------------------------------------
(* Properties: those of the modules, and those of the instances *)

\* The tables tell the truth: a finalized row is a final block with all its
\* events, and the events served for a height are those of one block.
TablesFaithful == service = "archive" => Arch!TablesFaithful

\* The history of an account is what the tables hold for it, in order, and its
\* pages and its transfers to another account are found by search, all of them
\* and nothing else.
HistoryComplete == service = "archive" => Arch!HistoryComplete

\* Once the channels are empty, and if nothing was dropped or lost, no row of a
\* reverted block is left: "send finalized and deleted blocks to the archivist
\* in a decoupled way" (rusk/src/lib/node/events.rs).
RevertedForgotten == service = "archive" => Arch!RevertedForgotten

\* A message is read as it was built, or refused when it was cut short.
MessagesIntact == service = "wire" => Wire!MessagesIntact

\* What was hashed or signed when the message was built is what the last node
\* that holds it hashes, or accepts as evidence.
SignedDataVerifies == service = "wire" => Wire!SignedDataVerifies

\* Whatever synchronisations broke off or ran into each other before, one that
\* runs undisturbed leaves exactly the unspent notes of every profile in the
\* cache: a note is neither skipped by the saved position nor offered again
\* after it was spent, and the spent ones are kept for the history.  A revert
\* of the node leaves three kinds of notes it does not answer for: those that
\* were reverted may stay in the cache, those at positions it had already seen
\* are skipped, and those that are unspent again may still count as spent.
CacheSettled ==
  /\ service = "syncing" => Syncing!CacheSettled
  /\ service = "spending" => Spending!CacheSettled
  /\ service = "reverting" => Reverting!CacheSettled

\* What the wallet shows as spendable can be spent: the notes it picks cover
\* the cost, and the transaction it builds from a settled cache is accepted.
OperationsSucceed ==
  /\ service = "syncing" => Syncing!OperationsSucceed
  /\ service = "spending" => Spending!OperationsSucceed
  /\ service = "reverting" => Reverting!OperationsSucceed
=============================================================================
