# Rusk: TLA+ models, checks and proofs

Rusk is the node of the Dusk network: a proof-of-stake chain whose consensus
protocol is Succinct Attestation (SA). This directory models the node from the
votes that make a block to the wallet that pays with it. Paths are relative to
the root of the repository.

## 1. Inventory

| Component | State it keeps | Operations | Interacts with |
|---|---|---|---|
| Consensus task (`consensus/`, `node/src/chain/consensus.rs`) | iteration and step, voting tasks, two aggregators, the registry of attestations, the register `MD_LAST_ITER` | propose, validate, ratify, collect votes of this and past iterations, time out, restart | peers by gossip; the acceptor, which starts and aborts it; the VM, which judges candidates |
| Iteration timing (`iteration_ctx.rs`, `proposal/block_generator.rs`) | step timers, adaptive timeouts, metrics | wait for the slot, stamp a candidate, report elapsed time | consensus task, header validation, acceptor |
| Attestation verification (`consensus/src/quorum/verifiers.rs`) | none | `verify_votes`, `verify_att` | consensus builds what it verifies; header validation calls it for every block |
| Sortition (`consensus/src/user`) | provisioners and stakes | committee extraction, bitsets | consensus, header validation; the acceptor updates the list from events |
| Message queue (`consensus/src/queue.rs`) | messages of future steps | put, drain, clean | network, consensus task, acceptor |
| Acceptor (`node/src/chain/acceptor.rs`) | tip, provisioners, last final block; through it ledger and VM | `try_accept_block`, `rolling_finality`, `try_revert`, `update_tip`, `init_consensus` | called by the synchronisation machine; writes RocksDB and the VM; restarts consensus |
| Header validation (`header_validation.rs`) | none | basic fields, certificate, failed iterations, faults, attestation | acceptor, consensus |
| Synchronisation machine (`fsm.rs`, `fsm/`) | InSync / OutOfSync, presync, block pools, blacklist, attestation cache, stalled machine | block, quorum and heartbeat events | acceptor, network |
| Mempool (`mempool.rs`) | pending transactions, index of spending ids | check, replace, expire | acceptor removes and resubmits; block generator reads and discards |
| Database (`database/rocksdb.rs`) | ledger, candidates, validation results, mempool, metadata | transactions and views | every other part |
| Data broker and network (`databroker.rs`, `network.rs`) | queue of requests, running tasks, filters | answer, relay, forward | peers; reads the database concurrently with the acceptor |
| Ledger types and wire format (`node-data/`) | none | write, read, hash, sign, verify evidence | network, database |
| VM integration and VM layer (`rusk/src/lib/node`, `vm/`) | commits, base, current root, `state.id`, a block session | generate, verify, accept, finalize, revert, reward and slash | acceptor, consensus, contracts |
| Transfer and stake contracts (`contracts/`) | accounts, notes, nullifiers, contract balances; stakes and rewards | spend, deposit, withdraw, convert, stake, unstake, slash | run inside the VM, call each other |
| Archive and event streamer (`node/src/archive`, `rusk/src/lib/node/events.rs`) | sqlite tables, moonlight index | store, finalize, remove, query | VM and node by two bounded channels; HTTP |
| HTTP server (`rusk/src/lib/http*`) | sessions, subscriptions | route, subscribe, deliver, call | node, VM, prover |
| Wallet (`rusk-wallet/`, `wallet-core/`) | cache of notes, last position | synchronise, build and send transactions | the HTTP server of a node |
| Prover, recovery, profile, test wallet, front ends | | | clients and tools |

What is hard here: messages reach each node in a different order, late, twice or
never, and race timeouts; a node may stop between any two durable writes; forks
are resolved by reverting while other tasks read the same database; state is
passed on through bounded channels that drop; contracts call each other in the
middle of a transaction. Each place where this bites is an entry of `hazards` in
`PROJECT.json`, with the properties aimed at it.

## 2. Modules

| Module | Models | Checked in |
|---|---|---|
| `RollingFinality`, `RollingFinalityLoop` | labels of blocks: the closed form of `rolling_finality`, and its two loops step by step | acceptor runs, `round_parts` |
| `Acceptor`, `MCAcceptor` | acceptor, its callers, the ledger and the VM's commits | `acceptor_*`, `chain_recovery` |
| `FinalLedger` | the ledger as its readers are promised it (abstract) | `acceptor_forks` |
| `SyncFSM`, `ChainRecovery` | the synchronisation machine; it and the acceptor together in one run | `chain_recovery` |
| `Attestation`, `Consensus`, `MCConsensus` | thresholds and `verify_att`; one round at every honest provisioner | `consensus_*`, `round_parts` |
| `RoundMessages`, `RoundTime`, `Sortition` | queues, clocks and committees of a round | `round_parts` |
| `RoundTasks`, `RoundScenes` | the parts of a round, each in a small world | `round_parts` |
| `Mempool`, `MCMempool` | mempool with the database tables it owns | `transactions` |
| `TransferContract`, `StakeContract`, `BlockExecution` | the genesis contracts; transactions, blocks, rewards, provisioners | `transactions` |
| `Transactions`, `BlockScenes` | the two lives of a transaction: pool and block | `transactions`, `contracts_leavers` |
| `LedgerStore`, `DataBroker` | column families; tasks that answer peers | `node_services` |
| `Archive` | archivist, tables, index, queries | `node_services`, `archive_reverts` |
| `WireTypes`, `WireHops`, `WireSamples` | what every type writes and reads; messages that travel | `node_services` |
| `HttpRequests`, `RuesServer`, `HttpCalls` | routing and frames; subscriptions; calls | `node_services` |
| `WalletCore`, `Wallet` | picking notes, building transactions; cache, synchronisation, commands | `node_services` |
| `NodeServices`, `ServiceScenes` | the services, each in a small world | `node_services` |
| `AcceptorProofs`, `AcceptorRefinement`, `ConsensusProofs`, `AttestationProofs`, `RoundProofs`, `MempoolProofs`, `ContractProofs`, `ServiceProofs` | theorems | proofs |

`RoundTasks`, `NodeServices`, `ChainRecovery` and `Transactions` put several
independent components in one run: the initial state chooses one, a behaviour
follows that one and the variables of the others keep their value. They are
disjoint unions, not products. They extend the modules that have theorems, so that
their runs check the very definitions the theorems state. The other services are
instances in `NodeServices` that share the variables `v1`, `v2`, ..., in the order
of the component's own declaration.

### Acceptor

The state is RocksDB's (`blocks`, `blockAt`, `labelAt`, `mdHash`), the VM's
(`commits`, `stateId`, `vmBase`, `vmCurrent`) and the acceptor's (`tip` and the
phase of the running operation). A block's state root is identified with the
block: every block mints a reward, so roots differ. An operation of the code is a
chain of actions, one per durable write:

- `try_accept_block`: `VmAccept` (execution, a new commit), then `StoreBlock`
  (one ledger transaction: block, label, relabelled ancestors, register) or
  `StoreFails` (it rolls back; the VM stays one block ahead); with new Final
  blocks `SetBase`, `MergeCommit` per old commit, `WriteStateId`;
- `try_revert`: `StartRevert` moves the VM; `DeleteBlocks` is the ledger
  transaction that deletes; `UpdateTip` is `update_tip` with its own
  transaction. Its callers are `Fallback`, `StalledOnFork` and `RevertLastFinal`
  (the operator's); a fallback and a recovery then accept the remote block or
  drop it (`RejectPending`);
- `Crash` is possible in every phase and keeps only what is durable; `Restart` is
  `load_tip` and `init_consensus`, and `RestartRegenerated` is `load_tip` when the
  register names no stored block.

The acceptor is one write lock in the code (`RwLock<Acceptor>`), so no two
operations overlap.

### SyncFSM

The state of the chain service is one record and a handler is an operator on it,
with its return value: `?` in the code is a test of that value, so that an error
of the current state skips the stalled machine exactly where the code does. The
acceptor is reduced to its answers for a network branch, a side branch and
"hollow" blocks whose header passes and whose content does not. `DeliverBlock`,
`OnQuorum`, `Heartbeat` and the expiry of each clock are the actions; messages on
the wire may be lost.

### Consensus and the parts of a round

In `Consensus` every message ever signed stays receivable: `candidates`,
`validations`, `ratifications`, `quorums` are sets, and a node may receive a
member late, many times or never. A provisioner outside `Honest` may have signed
anything. Each honest node has its iteration and step, `open` (open consensus
mode), the spawned `tasks` that will vote, the `result` its ratification handler
holds, the aggregators, the registry and the durable `saved`. Handlers are
actions, those for messages of past iterations included. `Restart` restores the
iteration from `MD_LAST_ITER`; `LeaveTip` is a block accepted on top, whose later
revert brings the node back to iteration 0. BLS signatures are abstracted to the
set of signers and the vote they signed, so that aggregating votes of two kinds,
or verifying against another vote, fails as it does in the code. A message a
handler refuses changes nothing, so refusals are guards. Timeouts fire at any
time.

What `Consensus` leaves out is in three modules. `RoundMessages` follows messages
from `reroute_msg` through the inbound queue and the registry of future messages,
over rounds, restarts and reverts. `RoundTime` has the clock: slots, adaptive
timeouts, timestamps, failed iterations and PNI of headers, Emergency Blocks.
Timers fire on time, and headers are those of honest generators. `Sortition`
draws committees by subtracting stake, in any order of iterations, and turns
voters into bitsets and back; a hash is a number.

### Mempool

`pool` is the column family of transactions (and that of fees), `index` that of
spending ids, which maps a nullifier or an account's nonce to one transaction.
`check_tx` is `CheckView` (first database view), `Preverify` (the VM),
`CheckNonces` (second view) and `AcceptTx` (the writing transaction, with
replacement of cheaper conflicting transactions); any error return is `Refuse`.
Between these the acceptor may accept a block (`AcceptBlock`), clean up after it
(`StartCleanup`), or revert and resubmit (`Revert`); the block generator may
discard (`StartDiscard`); the node may crash. Expiry runs in the task that runs
`check_tx`. A loop over several elements is one `BatchStep` per element. With a
full mempool `check_tx` fails: the iterator that should name the cheapest
transaction is never positioned and yields nothing.

### Contracts and blocks

A state of the VM is one record and a contract function an operator on it; a
panic sets an error, and whoever made the call goes back to the state before.
`BlockExecution` has the actions: a generator opens a block, tries transactions
one by one (skipping, discarding and rebuilding as `execute_transactions` does),
closes it with rewards and slashes, and every node accepts it by replaying it; or
the generation fails; or a node reloads its provisioners. Users are the contracts
`alice` and `charlie` of the repository and plain accounts. A transaction's
nonce, root and inputs are built from the state, right or wrong.

### Services

- `LedgerStore` gives the ledger's transactions as operators on a store, and
  `DataBroker` the tasks that read it get by get while the acceptor commits and
  reverts: views take no snapshot.
- `Archive` has both producers, both channels (with drops), the archivist's
  transactions with the checks of the schema, the index written afterwards entry
  by entry, a crash in between, and the queries as operators. A finalized row's id
  is given by sqlite and must be its height, so after one finalization is lost all
  later ones are refused (`CanFinalize`).
- `WireTypes` gives for each type the fields `write` emits and those `read`
  expects, taken separately from the two functions, and a generic writer and
  reader; `WireHops` sends a message from node to node, cuts, forwards, completes
  and stores it.
- `RuesServer` has sessions, the map of ids, the bounded action and event
  channels; `HttpCalls` POST requests and the concurrent legacy websocket;
  `HttpRequests` the routing tables and frames.
- `Wallet` has a chain that goes on and takes blocks back (`Revert`), so that
  notes disappear, others take their positions and spent ones are unspent again;
  synchronisations in single steps (two of them at a time), and commands that fetch
  and send in single steps. What the node and the contracts refuse is
  `Preverifies`, `Spends` and `CallSucceeds`; a call that fails returns its deposit
  and keeps the rest of the spending.

## 3. Runs

| Run | Instance | Properties |
|---|---|---|
| `acceptor_forks` | tree of height 5 over headers with PNI 0 and 2, 2 reverts, no crash | `TypeOK` `FinalPrefix` `BaseIsLastFinal` `FinalityProgress` `FinalImmutable` `ImplementsLedger` |
| `chain_recovery` | tree of height 4 over PNI 0 and 1, 2 crashes, 1 revert, 1 failing transaction; a network of 4 blocks, a fork of one, a hollow block, 1 lost message | `LedgerLinked` `RevertTargetsOpen` `TipAgreement` `FallbackKeepsFinal`; `NodeCatchesUp` `NodeResumes` |
| `consensus_votes` | honest a, b with 2 credits each, faulty c with 1, faulty generator, 1 restart | `HonestNotSlashable` `AttestationsExclusive` `FailAttsVerify` |
| `round_parts` | see below | `SuccessQuorumsVerify` `EmergencyNeverFails` `LoopsGiveClosedForm` `QueuedMessagesKept` `HonestHeadersPass` `EmergencyNotEarly` `VerifiersCountAlike` |
| `transactions` | six transactions, three of them a chain of nonces, limit 3, a block, a revert and a block again, a discard, a crash; two blocks of two transactions out of fourteen kinds | `IndexSound` `IndexComplete` `NoncesContiguous` `PoolBounded`; `GeneratedBlockReplays` `ValueConserved` `StakesBacked` `ProvisionersAgree` |
| `node_services` | see below | `LedgerSound` `AnswersFromLedger` `TablesFaithful` `HistoryComplete` `MessagesIntact` `SignedDataVerifies` `SubscriptionsServed` `CallsAnswered` `CacheSettled` `OperationsSucceed` |
| `acceptor_register`, `acceptor_restart_base`, `consensus_coherent`, `consensus_open`, `archive_reverts`, `contracts_leavers` | the smallest that shows it | violated, see 4 |

`acceptor_forks` and `consensus_votes` run the specification without the actions
that their bounds disable (`SteadySpec`, `VotersSpec`): crashes and failing
writes are in `chain_recovery`, generators, past iterations and nodes that leave
their tip in `round_parts`.

The parts of `round_parts`: `votes` (a node that restarts, or leaves its tip and
comes back, through two iterations in emergency mode, with late messages of both,
its own candidate and a faulty generator's), `finality` (all labellings below a
block of height 5, PNI up to 2), `queue` (two signers, queues of one and two, two
rounds, one crash), `clock` (steps of 1 to 2 seconds, blocks 6 seconds apart, two
iterations, a skew of one, and either two rounds or one whose last iteration is run
a second time: the two share the bound `MaxRounds`), `sortition` (41 seeds, lists of one to four
provisioners, four iterations). Rival candidates and larger committees are left to the theorems.

The services of `node_services`: `broker` (two branches of two blocks that share
transactions and a fault, one revert, seven requests, one of them for the blocks at
two heights), `archive` (branches of three blocks and of two, one switch, one crash,
channels of 3, a default limit of 1 result, so that histories are cut), `wire` (samples of every
topic, four sends), `rues` (two sessions, channels of 1, two events, two
subscription requests), `calls` (every route and every kind of bad request),
`syncing` (two synchronisations at once, two profiles, two changes of the chain, a
revert among them), `spending` (every command, for a profile that is not staked,
staked by another profile or by a contract, over two notes, and a second command
after the first one's block), `reverting` (one synchronisation with transfers and
stakes below the minimum, three changes of the chain: a block, its revert and the
block that takes its place). A node can take back its last block.

Why the bounds are enough. Height 4 lets a block be accepted, confirmed by
another, made Final by a third, and merged on a fourth; a header with PNI 2 asks
for four blocks on top, and height 5 is the first at which it becomes Final. Two
reverts reach a revert on top of labels an earlier one left. With credits 2, 2, 1
the majority is 3 and the supermajority 4: every way for quorums to overlap, and
to fail to, happens. `StopIter` ends a node after the iteration that is studied.
Channels and queues hold so little that they overflow. A network of 4 blocks is
more than one download range (2) and one pool (1). Two transactions a block are
the least that lets one throw the other out for gas, and two blocks the least
that lets a stake be slashed after it changed. Each of the other bounds was
raised until the mutants of its properties were found. Deadlock checking is off
because a system that reaches a bound stops.

Fairness is assumed in one place, `SyncSpec`. `SyncFairness` is weak fairness of
heartbeats, of the expiry of clocks (both come from timers of the event loop in
`chain.rs`), of the quorums of the network's current round, and of the delivery
of a block that is on the wire. `PresyncFairness` says that an answer awaited by a
presync again and again is delivered in time again and again; the code justifies
it only as far as a timeout of seconds is longer than a round trip. Without it a
node that keeps timing out reverts again and again for the hollow block and never
catches up. Under both, `NodeCatchesUp` says that a node however far behind, or on
a losing fork, ends on the network's chain and stays there, and `NodeResumes` that
it never stays out of sync or without a consensus task.

What the properties claim, and up to where:

- `HonestNotSlashable` is stated for provisioners that do not leave the round's
  tip and revert to it (`Steady`): `MD_LAST_ITER` names one tip only, so one that
  does starts again at iteration 0.
- `FinalImmutable` and `ImplementsLedger` are claimed without crashes: after one
  between the ledger transaction and `finalize_state` old commits stay open, and
  stalled-fork recovery relies on the VM to refuse a state below a Final block.
- `TipAgreement` has two exceptions. After a ledger transaction that failed the
  VM is one block ahead. After a crash that left commits open, stalled-fork
  recovery can go back to genesis, and a restart there leaves the VM on its
  finalized root, because `init_consensus` moves the VM only when the tip is
  above genesis (`acceptor.rs:218`).
- `IndexComplete`, `NoncesContiguous` and `PoolBounded` hold until the first
  revert, `NoncesContiguous` until the first discard: `try_revert` resubmits over
  the index without a check, and a discard between `CheckNonces` and `AcceptTx`
  leaves the new transaction above a missing nonce. `IndexSound` always holds.
- `QueuedMessagesKept`: a queued message leaves the registry only when its step
  begins, its round is over, a full queue drops it, the node crashes, or an
  accepted block leaves it more than `OFFSET_FUTURE_MSGS` (5) rounds ahead,
  although it was admitted up to `MAX_ROUND_DISTANCE` (10).
- `HonestHeadersPass` and `EmergencyNotEarly`: timers fire on time, clocks differ
  by at most the margin, and the round began within an iteration of its tip. A last
  iteration that ends on a Quorum whose block is not accepted is run again from
  Proposal, any number of times (`consensus.rs:255-276`, "Sticking to the same
  iter"). From then on a node may be in any step of it when the Emergency Block
  becomes acceptable: `EmergencyNotEarly` says that every iteration has run to its
  end once, not that the node has entered Open Consensus.
- `VerifiersCountAlike`: `to_step` is a `u8` and exact up to iteration 84; the
  maximum is 50.
- `ProvisionersAgree` leaves out a contract's stake that was left with locked
  funds only (`emptied`): its Unstake event removes it from a running node's list
  while the state keeps it.
- `AnswersFromLedger` is about answers that are sent. The hashes that answer
  GetBlocks all belong to the ledger as it stood at one moment of the task; the
  blocks sent for a GetResource may not, since each is looked up by itself. What
  holds for each is that it is the one asked for and was on the ledger while the
  task ran. A task that reads a record
  deleted in between panics (`rocksdb.rs:463`, `478`), which the model has as an
  outcome; `database.rs:35` promises isolated views. The database update of the
  ledger itself is atomic.
- `TablesFaithful` says that the finalized rows are a prefix of the final blocks,
  each with all its events. It does not say that they keep up: after one lost
  finalization the schema's `check(id = block_height)`
  (`migrations/20241108164533_archive.sql:34`) refuses all later ones.
- `HistoryComplete`: the index is compared with the tables for blocks finalized
  without a crash. `full_moonlight_history` is commented to return all events
  (`moonlight.rs:249`); it returns the oldest `DEFAULT_MAX_COUNT` (1000) of each
  direction, and the property says so. The search for transfers between two accounts
  may miss the second of two in one block, which is excluded.
- `SignedDataVerifies` leaves out evidence of two candidates: a candidate signs
  its header's hash (`message.rs:1562`), and `faults.rs:236` verifies another
  message.
- `SubscriptionsServed`: a lagging client is told that its socket ends.
- `CacheSettled` starts from a chain whose first note is somebody else's. If the
  tree was empty at the first synchronisation, position 0 is saved and the next
  one starts at 1 (`sync.rs:38`, `122`). The node serves its tip, which it may
  revert, and the saved position never goes back (`sync.rs:36-38`, `122`). So after a
  revert the property does not answer for three kinds of notes, remembered in
  `past`: reverted notes may stay in the cache (`orphans`), notes at positions that
  had been seen are skipped (`replaced`), and notes that are unspent again may still
  count as spent (`freed`). For all others it holds. Without any one of these
  exceptions TLC finds it violated.
- `OperationsSucceed` is about transactions built from a settled cache that holds no
  reverted note, and not overtaken by a block. Some checks are left to the node by
  the wallet (`Unchecked`): a withdrawal or a conversion of nothing, which the
  contracts refuse, a new stake below the minimum, and a public transaction its
  account cannot pay.

## 4. Findings

- `acceptor_register`: a crash between the two ledger transactions of a revert
  leaves the register naming a deleted block; `load_tip`, documented to panic,
  generates a new genesis block.
- `acceptor_restart_base`: a crash after the ledger transaction and before
  `finalize_state` leaves the VM's finalized root behind the last Final block;
  `init_consensus`, documented to reconcile them, only compares tips.
- `consensus_coherent`: a NoQuorum Quorum built with a local Valid validation
  result does not verify at its receivers.
- `consensus_open`: in open consensus mode the inbound vote is sent instead of
  the Quorum that was built.
- `archive_reverts`: the event streamer waits for the topic `deleted`, reverted
  blocks are announced as `reverted`; their rows stay in the archive, where the
  height is unique, and their replacements are not stored.
- `contracts_leavers`: a provisioner that leaves with no reward and is slashed in
  the same block makes `slash` panic, against the comment next to it.

Seen while reading, without a run of its own: `fsm.rs:319` says the stalled
machine is told of every block, and `?` in the match above skips it;
`on_entering` drops the results of `on_block_event`; a consensus task that is
aborted reports `Canceled`, which `chain.rs:134` only logs, so `on_failed_consensus`
restarts it after other errors only (`chain.rs:139`); a session that fails before its loop leaves its id in the map
(`http.rs:500-511`); a subscription is acknowledged before it is applied and
topics are put in lower case for subscriptions only; `contract_deploy` counts the
spent gas twice; a `SpentTransaction` without error writes eight bytes where four
are read, at the end of its record; flooded requests may be dropped by Kadcast as
duplicates; `pick_notes` does not minimise the value its comment speaks of.

## 5. Proofs

The proof modules hold for every value of the constants that satisfies the named
assumptions: any tree, any committee, any number of iterations, crashes and
restarts, any transactions. Each assumption is evaluated by TLC on the instance
of a run. `TreeAssumption`, `BoundAssumption`, `CommitteeAssumption`,
`RoundAssumption`, `TxAssumption`, `MempoolBounds`, `LoopAssumption` and
`RuesAssumption` give the constants their types. The others say more:

- `RoundMessagesAssumption`: queues hold at least one message, a round has at
  least one step, and the saved iteration is capped below the last but one.
- `RoundTimeAssumption` orders the times of `consensus/src/config.rs`: the
  smallest step timeout is not above the largest, the minimum block time (10 s) is
  at most three largest timeouts, and the clock margin (3 s) is below the largest
  timeout (40 s). Iterations fit a `u8`, and clocks differ by at most the margin.
- `FaultyBelowMajority` (for `EmergencyEndsWithBlock` only) leaves to faulty
  provisioners less than a majority of the credits of the ratification committee
  of each emergency iteration.
- `ExecAssumption` says that the genesis state is a state of height 0, with a stake
  contract that holds what its stakes add up to; that the minimum stake, the epoch
  and the credits of the committees are positive, as the code's constants are; that a call that succeeds spends no more
  gas than its limit (piecrust stops it); that voters together have at most the
  credits of the two committees, and that their quorums are below those credits.
- `StoreAssumption`: blocks form a tree, one height apart, under a genesis block
  without transactions and faults, and no branch has a transaction twice (its
  second execution would fail, so such a block is not accepted). Branches may
  share transactions and faults.
- `RequestsAssumption`: a GetBlocks request has one locator, by hash, as its type
  has; `LowerAssumption`: lower case is its own lower case.
- `CallsAssumption`: requests have headers, the mempool lists gas prices in
  descending order, as its iterator does, and the sums of `get_gas_price` fit a
  `u64` (the node is built without overflow checks, and they would wrap).

`AcceptorProofs` proves `AcceptorInv` inductive. `LedgerLinked`, `FinalPrefix`
and `RevertTargetsOpen` are not inductive alone: between durable writes the top
of the chain is the register's block, or the target of a revert that has not
rewritten it (`TopBlock`, `RegisterInv`), and each phase knows what the next one
needs (`PhaseInv`: the pending block is a child of the tip; what will be merged
lies strictly below a Final block). The heart is `StoreBlock`: the loops make
Final only a run of heights that starts right above the last final block
(`FinalHeightsRun`), so the prefix grows and never breaks. From the invariant:
`TypeCorrect`, `LedgerStaysLinked`, `FinalIsPrefix`, `RevertTargetsStayOpen` and,
with one more invariant on the target of a running fallback,
`FallbackRespectsFinal`. `TipsAgree` adds `VmInv`, which follows the VM's current
state through the phases; the attempt to prove it without an exception for
genesis failed, and TLC then showed why. `FinalityProgresses` adds `ProgressInv`:
the property is about the tip, but a revert may uncover any block, so the
invariant says of every Attested block that the one below it is Final, or that
some unsettled block below it is not buried deep enough under it.

`AcceptorRefinement` proves, for `MaxCrashes = 0`, that the acceptor implements
`FinalLedger` (`AcceptorImplementsLedger`) under the mapping that reads the chain
off `blockAt` and the final heights off `labelAt`: `StoreBlock` is `Extend`
(`StoreBlockExtends`), `DeleteBlocks` is `Rollback` (`DeleteBlocksRollsBack`), and
every other action stutters. What forbids a rollback below a Final block is not
in the ledger but in the VM: a revert starts at an open commit, and `MergedInv`
says which commits are merged in each phase, so that an open one is never below
the last Final block once an operation is over (`OpenAboveFinal`). `FinalIsImmutable`
follows from the same invariant, and with `BaseInv`, which relates the base to
the last Final block in each phase, `BaseStaysLastFinal`. `acceptor_restart_base`
shows why a crash is excluded.

`ConsensusProofs` proves `RoundInv` inductive. The properties speak of signed
messages; what forbids a second one is where the signer stands. `NodeInv` ties
the two: a candidate or validation vote of an iteration exists only if its signer
has passed the proposal step there, a ratification vote only if it has ratified,
a pending voting task is the only one of its iteration and its node has not voted
there, and the saved iteration is the running one, so a restart goes strictly
beyond. Every action falls in one of a few effects on these variables (`Begin`,
`Cast`, `Advance`, `Ratify`, ...), and each effect keeps the invariant. This gives
`NeverSlashable`. `NeverBothAttestations` adds counting: a supermajority and a
majority of the same credits share more credits than `FewFaulty` leaves to
provisioners that may sign twice (`Overlap`), so some steady one signed both.

`AttestationProofs` builds on it with `AttestationInv`: the registry's quorum
flags tell the truth about the voters stored with them (`FlagsTrue`), what a
running iteration's aggregators hold and what the registry holds agree for the
votes it tracks, a ratification vote is the one of the result it carries (a Valid
one in an emergency iteration), and a node enters Ratification only with a result
that has its quorum. From it `SuccessQuorumsAlwaysVerify`,
`FailAttsAlwaysVerify` and `ConsensusTypes`. `EmergencyEndsWithBlock` counts: in an
emergency iteration a steady provisioner signs nothing but votes for a candidate,
so the votes a Fail attestation needs would have to come from a faulty majority
and no registry ever has a quorum for one (`EmergencyInv`).

`RoundProofs` has three parts. `LoopsComputeClosedForm`: the loop invariant of
both loops of `rolling_finality`, so that the closed form the acceptor's proofs
use is what the loops compute. `QueuedMessagesStay`: each action of
`RoundMessages` removes from the registry only what the property excuses.
`HonestHeadersAlwaysPass` and `EmergencyBlocksNotEarly`: `TimeInv` says of each
candidate that its timestamp is not before its slot, and either the slot itself or
within the margin of the clock, with known failed iterations below its own
(`GoodHeader`); that the slot is open once its first Proposal step is over
(`SlotInv`); and that in a round that starts in time no step ends later than its
share of the iterations allows (`Schedule`), unless the last iteration has been run
before (`again`), when nothing is left to show. Sums of timeouts are compared by
induction on the iteration.

`MempoolProofs` proves `IndexInv`, from the observation that the actions write the
two tables in three ways only (`Writes`). Soundness is inductive by itself, because
a deletion clears all entries of the ids of what it deletes; completeness needs
that only a revert resubmits (`ResubmitInv`). `SizeBounded` adds `RoomInv`: as long
as a check runs, there is room for its transaction. `NoncesStayContiguous` adds
`NonceInv`: the lower nonces of every pending transaction, and of one that passed
its checks, are spent or pending (`LowerCovered`), a FutureNonce answer remembers
only spent ones (`BaseSpent`), and the ledger spends each account's in order. What
breaks the run, a discard or a revert, is counted, and the property excuses it.

`ContractProofs` gives a state two numbers, its wealth and the gap between the
balance of the stake contract and the stakes, and each contract function of
`TransferContract` and `StakeContract` a lemma on how it changes them (`Effect`),
down to the rewards and slashes that close a block. A call that fails has any
effect, since it is undone. `ExecuteEffect` adds these up over spending, call or
deployment, and refund: gas within the limit, wealth conserved but for the gas.
`ExecInv` then has for the block under construction (`SessionOk`) the balance of
fees, no gap, the same state after running its transactions again, and the same
state, gas and fees after replaying them. From it `GeneratedBlocksReplay`,
`StakesStayBacked` and `ValueStaysConserved`.

`ProvisionersStayAgreed` compares lists and stakes by weight: value, and
eligibility unless the value is zero, since a list may keep a seat without value
that the state has as no entry, and the other way round. A list `Tracks` stakes
when the weights agree. `SelectiveUpdate` does not know the stakes, only events, so
the invariant is about the session that emitted them (`Kept`): its events, applied
one by one to the list of the tip, give a list that tracks its stakes (`Follows`),
and its `previous_block_state` has the old weight of every key whose weight changed
(`PrevOk`), although only the first change of a block is remembered. Most contract
functions leave stakes and events alone (`Frame`) or change no amount (`Quiet`);
stake, unstake and slash change one stake and emit the event that carries a
tracking list along (`Shift`, from `StakeCarries`, `UnstakeCarries` and
`SlashCarries`). An addition to a stake that has only locked funds left is the one
change an event does not carry, so `ListInv` says that all such keys are in
`emptied`. When a block is accepted its session is the generator's
(`ReplaysOk`), and a reload tracks by reading (`QueryTracks`, `ChangesTrack`).

`ServiceProofs` has three parts. For the store, `StoreInv`: the heights name a chain
of parents from the tip to genesis (`Linked`), ledger and records are those of the
blocks on it and no others (`Indexed`), a fault is stored no earlier than the
round it happened in (`FaultsDated`), and no two on the chain are the same
(`FaultsApart`). The last needs the one before: `verify_faults` searches from an
epoch before the fault's round on, and finds an earlier report only because there
is none below that.
Deleting a block removes the records of its transactions, also those another
block of the chain might share; that there is none is where `StoreAssumption` is
used. This gives `LedgerStaysSound`. A task of the broker sees the store only
through single gets, in states the acceptor may leave behind at once, so `TaskInv`
speaks of what the task holds and of the tips the ledger has had since it began
(`tips`): what it has looked up was on the branch of one of them (`InLedger`), and
the blocks collected for GetBlocks follow one another from its locator to the one it
will compare the next with, all on the branch of a single tip (`Snapshot`). The step
that matters is the next height: a block of the ledger whose parent is the last one
collected has the whole list on its own branch, so the ledger of that moment is a
new witness for all of it (`SnapshotNow`), whatever was reverted in between. With it
`AnswersComeFromLedger`.

For the RUES server, `RuesInv` says for each session that the actions it has taken
and those queued are together the acknowledged ones (`Queued`), that each frame is
of an event it passed and once asked for (`Framed`, `Asked`), in order, and that
an open session has passed over no event of a subscription since it took it
(`Served`); for the map, that an id leads to the session that has it and that ids
are not shared (`IdsInv`), so that an acknowledged action is queued at its own
client. Frames are numbered by reading them back, so it rests on lemmas that
parsing a location, a chunk and a frame inverts writing it (`FrameReceived`). This
gives `SubscriptionsStayServed`.

For the calls, `SocketInv` says that every message of a legacy websocket is at one
place: its headers are those of one task, one response to send, or answers sent,
of which there is more than one only when the answer is a channel. Executing a
task and sending a response move it along, so that the answers sent name messages
received, whatever the order (`SocketExecutes`, `SocketResponds`). Of POST requests
it is enough to know the tables: the sources claim different locations
(`ClaimsApart`), the one that claims a location has an operation for it
(`PostSupported`), and the statistics follow from the order of the prices
(`AverageBounds`, `MedianBounds`). With it `CallsStayAnswered`.

Sums over sets and functions along sequences are recursive functions in the
libraries and the model. That they exist, and what adding one element does to
them, is proved by two induction lemmas on sets (`UpTo` for numbers, `Subsets` for
finite sets), which the provers can instantiate because they take a set where the
library's theorems take an operator.

Only model-checked, and why:

- Liveness (`NodeCatchesUp`, `NodeResumes`) needs fairness and `ENABLED`.
- `MessagesIntact` and `SignedDataVerifies` say what writing and reading every
  message of a sample compute, and `VerifiersCountAlike` what a draw of sortition
  computes: recursion over data, for which the provers have no induction.
- `TablesFaithful`, `HistoryComplete`, `CacheSettled` and `OperationsSucceed` rest on
  folds and filters of sequences with operators as arguments, which the provers
  cannot instantiate.

## 6. Not modelled

- Cryptography (keys, signatures, VRF seeds, proofs): Boolean fields, sets of
  signers or opaque values. The VRF seed and the voters' list of header
  validation are left out with it.
- RocksDB, sqlite, Kadcast, piecrust and tokio are external: atomic
  transactions, lossy delivery, sessions that can be thrown away, fair tasks.
- Contracts that call back during a transfer (other than `charlie`'s withdrawal),
  accounts whose stake has another account as owner, `hard_slash` (the node never
  calls it), and limits on size, number and time of the transactions of a block.
- Some errors: a ledger transaction of `try_revert` that fails after the VM has gone
  back (`acceptor.rs:1065-1120`); a failing read of `MD_LAST_ITER`, which falls back to
  iteration 0, and a failing write, which is only logged, so that a restarted node
  may repeat an iteration (`node/src/chain/consensus.rs:231-259`); a consensus task that ends with an error,
  which the chain restarts (`chain.rs:139`). The branch of `init_consensus` for a
  tip the VM cannot move to (`acceptor.rs:219-228`) is not in `Restart`:
  `RevertTargetsStayOpen` says that it is never taken.
- A contract without a balance entry counts as having 0, so its transfer of 0
  succeeds where the code panics (`contracts/transfer/src/state.rs:401-404`). Errors
  of `peers_location`, `get_crs` and `get_provisioners` are an answer like any other
  (`http/chain.rs:96`, `http/rusk.rs:129-157`).
- GraphQL, TLS, JSON and SQL formats, byte order; the body of an HTTP answer is a
  name.
- Key files, the user interface and the FFI of the wallets; the test wallet.
- Prover, profile, recovery tools, web front ends and telemetry: no state the
  node's correctness depends on.

`components` in `PROJECT.json` gives the status and reason for each part.

## 7. What could be proved next

1. `CacheSettled` of the wallet for any chain of notes, once its folds over blocks
   are recursive functions with an induction lemma of their own.
2. The refinement of `FinalLedger` by the acceptor with crashes, weakened to
   readers that start after the restart.
3. `TablesFaithful` of the archive, for any order of its two channels.
