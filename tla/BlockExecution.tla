---------------------------- MODULE BlockExecution ----------------------------
(***************************************************************************)
(* Blocks of transactions over the genesis contracts: how a transaction is *)
(* executed (vm/src/execute.rs), how a generator assembles a block and     *)
(* every other node replays it (rusk/src/lib/node/rusk.rs), how the        *)
(* rewards are shared (rusk/src/lib/node.rs), and the list of provisioners *)
(* the acceptor keeps from the events of each block                        *)
(* (node/src/chain/acceptor.rs, consensus/src/user/provisioners.rs).       *)
(***************************************************************************)
EXTENDS StakeContract

CONSTANTS
  DuskKey,           \* DUSK_CONSENSUS_KEY
  Genesis,           \* the state of the virtual machine after genesis
  Emission,          \* emission_amount
  Credits, Quorum,   \* credits, and their quorums, of both committees together
  BlockGasLimit,
  MinDeployPoints, MinDeployPrice, GasPerByte,
  Intents,           \* what users ask their wallets for
  Closings,          \* what a block may close with: [generator, voters, slashed];
                     \* voters is a set of [key, credits], slashed a sequence of keys
  MaxTxs, MaxHeight  \* bounds: transactions of a block, blocks

-----------------------------------------------------------------------------
(* What the constants may be *)

Amounts ==
  {a \in [value : Nat, locked : Nat, eligibility : Nat, some : BOOLEAN] :
     ~a.some => a.value = 0 /\ a.locked = 0}
Entries == [owner : Keys \cup ContractIds, amount : Amounts, reward : Nat, faults : Nat]

\* A state of the virtual machine: nullifiers and roots are of notes in the tree.
IsState(s) ==
  /\ DOMAIN s = {"err", "height", "tx", "dep", "events", "acct", "cbal", "leaves", "nulls",
                 "roots", "stakes", "prev", "deployed"}
  /\ s.height \in Nat
  /\ s.dep \in {"none", "available", "taken"}
  /\ s.dep = "available" => s.tx.deposit \in Nat
  /\ s.acct \in [Keys -> [nonce : Nat, balance : Nat]]
  /\ s.cbal \in [ContractIds -> Nat]
  /\ s.leaves \in Seq([owner : Keys \cup {NoKey}, value : Nat])
  /\ s.nulls \subseteq 1..Len(s.leaves)
  /\ s.roots \in Seq(Nat) /\ \A n \in DOMAIN s.roots : s.roots[n] <= Len(s.leaves)
  /\ s.stakes \in [Keys -> {NoStake} \cup Entries]

\* Between two transactions.
Idle(s) == s.err = "none" /\ s.dep # "available"

\* The functions users can call.
Callable ==
  {<<"none", "none">>, <<TransferId, "convert">>}
    \cup ({Stake, "charlie"} \X {"stake", "unstake", "withdraw"})
    \cup ({"alice"} \X {"deposit", "withdraw", "contract_to_account", "contract_to_contract"})

IsCall(call) ==
  /\ call \in [contract : ContractIds \cup {"none"}, fn : STRING, key : Keys \cup {NoKey},
               value : Nat, to : Keys \cup {NoKey}, phoenix : BOOLEAN, token : SUBSET Nat]
  /\ <<call.contract, call.fn>> \in Callable
  /\ call.contract # "none" => call.to \in Keys
  /\ call.contract \in {Stake, "charlie"} => call.key \in Keys

TxFields ==
  {"kind", "sender", "receiver", "value", "deposit", "limit", "price", "used", "refund", "call",
   "sound", "bytes", "code"}

\* A call that succeeds spends no more gas than its limit.
IsTx(tx) ==
  /\ "call" \in DOMAIN tx /\ IsCall(tx.call)
  /\ \/ DOMAIN tx = TxFields \cup {"nonce"} /\ tx.kind = "moonlight" /\ tx.nonce \in Nat
     \/ /\ DOMAIN tx = TxFields \cup {"inputs", "root", "clear"} /\ tx.kind = "phoenix"
        /\ tx.inputs \subseteq Nat /\ tx.root \in Nat /\ tx.clear \in BOOLEAN
  /\ {tx.value, tx.deposit, tx.limit, tx.price, tx.used, tx.bytes} \subseteq Nat
  /\ tx.used <= tx.limit
  /\ {tx.sender, tx.refund} \subseteq Keys /\ tx.receiver \in Keys \cup {NoKey}

\* Voters share no more than the credits of the committees.
IsClosing(c) ==
  /\ c.generator \in Keys /\ c.slashed \in Seq(Keys)
  /\ IsFiniteSet(c.voters) /\ c.voters \subseteq [key : Keys, credits : Nat]
  /\ SumFunction([v \in c.voters |-> v.credits]) <= Credits

\* The funds of all stakes.
Funds(s) == SumFunction([k \in Keys |-> IF Exists(s, k) THEN TotalFunds(s.stakes[k].amount) ELSE 0])

ExecAssumption ==
  /\ IsFiniteSet(Keys) /\ DuskKey \in Keys
  /\ {Epoch, Credits, MinStake} \subseteq Nat \ {0}
  /\ {MaxRoots, Warnings, Emission, Quorum, BlockGasLimit, MinDeployPoints, MinDeployPrice,
      GasPerByte} \subseteq Nat
  /\ Quorum < Credits
  /\ \A i \in Intents : IsTx(i)
  /\ \A c \in Closings : IsClosing(c)
  /\ IsState(Genesis) /\ Idle(Genesis) /\ Genesis.height = 0
  /\ Genesis.cbal[Stake] = Funds(Genesis)

VARIABLES
  vm,       \* the state of the tip's commit
  before,   \* the stakes one block earlier
  gen,      \* the block under construction
  prov,     \* ContextProvisioners: current and prev
  emptied   \* keys whose stake was left with locked funds only, since a reload

execVars == <<vm, before, gen, prov, emptied>>

-----------------------------------------------------------------------------
(* Contract calls: call = [contract, fn, key, value, to, phoenix, token] *)

\* The withdrawal signed with the call.
WithdrawOf(s, call, contract) ==
  [contract |-> contract, value |-> call.value, to |-> call.to, phoenix |-> call.phoenix,
   kind |-> s.tx.kind, token |-> call.token]

\* The contracts users deploy (contracts/alice and charlie).
AliceCall(s, call) ==
  CASE call.fn = "deposit" -> Deposit(s, "alice", call.value)
    [] call.fn = "withdraw" -> Withdraw(s, "alice", WithdrawOf(s, call, "alice"))
    [] call.fn = "contract_to_account" -> ContractToAccount(s, "alice", call.to, call.value)
    [] call.fn = "contract_to_contract" ->
         ContractToContract(s, "alice", "bob", call.value)

\* charlie stakes what users deposit, and withdraws in the name of its users.
CharlieCall(s, call) ==
  LET w == WithdrawOf(s, call, "charlie") IN
  CASE call.fn = "stake" ->
         Then(Then(Deposit(s, "charlie", call.value),
                   LAMBDA t : ContractToContract(t, "charlie", Stake, call.value)),
              LAMBDA t : StakeForContract(t, call.key, "charlie", call.value))
    [] call.fn = "unstake" -> UnstakeForContract(s, call.key, w)
    [] call.fn = "withdraw" -> WithdrawRewardForContract(s, call.key, w)

\* The call of spend_and_execute; its caller is the transfer contract.
Call(s, call) ==
  CASE call.contract = "none" -> s
    [] call.contract = TransferId -> Convert(s, TransferId, WithdrawOf(s, call, TransferId))
    [] call.contract = Stake /\ call.fn = "stake" -> StakeAccount(s, call.key, call.value)
    [] call.contract = Stake /\ call.fn = "unstake" ->
         Unstake(s, call.key, WithdrawOf(s, call, Stake))
    [] call.contract = Stake /\ call.fn = "withdraw" ->
         WithdrawReward(s, call.key, WithdrawOf(s, call, Stake))
    [] call.contract = "alice" -> AliceCall(s, call)
    [] call.contract = "charlie" -> CharlieCall(s, call)

-----------------------------------------------------------------------------
(* vm/src/execute.rs *)

DeployCharge(tx, minimum) == Max({tx.bytes * GasPerByte, minimum})

\* deploy_check passes the minimum price where deploy_charge takes points.
DeployCheck(tx) ==
  tx.bytes > 0 => tx.price >= MinDeployPrice /\ tx.limit >= DeployCharge(tx, MinDeployPrice)

\* contract_deploy compares what is left with the charge plus what is spent.
DeployFits(tx) == tx.limit - tx.used >= tx.used + DeployCharge(tx, MinDeployPoints)

\* The state after the deployment, or a panic.
Deploy(s, tx) ==
  Then(Require(s, DeployFits(tx) /\ tx.code \notin s.deployed),
       LAMBDA t : [t EXCEPT !.deployed = @ \cup {tx.code}])

\* A call or a deployment that fails is undone and costs the whole limit.
Charged(spent, called, tx) ==
  LET failed == called.err # "none"
      gas    == IF failed THEN tx.limit
                ELSE tx.used + (IF tx.bytes > 0 THEN DeployCharge(tx, MinDeployPoints) ELSE 0)
  IN [err |-> "none", s |-> Refund(IF failed THEN spent ELSE called, gas), gas |-> gas]

\* A transaction that cannot be spent leaves no trace.
ExecuteSpent(s, spent, tx) ==
  IF spent.err # "none" THEN [err |-> spent.err, s |-> s, gas |-> 0]
  ELSE Charged(spent, IF tx.bytes > 0 THEN Deploy(spent, tx) ELSE Call(spent, tx.call), tx)

\* execute
Execute(s, tx) ==
  IF ~DeployCheck(tx) THEN [err |-> "panic", s |-> s, gas |-> 0]
  ELSE ExecuteSpent(s, Spend(s, tx), tx)

-----------------------------------------------------------------------------
(* Rewards and slashes at the end of a block *)

\* calc_generator_extra_reward
GeneratorExtra(extra, credits) ==
  IF credits = Credits THEN extra
  ELSE (IF credits > Quorum THEN credits - Quorum ELSE 0) * (extra \div (Credits - Quorum))

VoterShare(tenth) == tenth \div Credits

\* The keys are slashed one after the other, up to the first panic.
SlashAll(s, keys) ==
  LET t[n \in 0 .. Len(keys)] ==
        IF n = 0 THEN s ELSE Then(t[n - 1], LAMBDA u : Slash(u, keys[n]))
  IN t[Len(keys)]

\* coinbase_value and reward_slash_and_update_root.
CloseBlock(s, dusk, c) ==
  LET total   == Emission + dusk
      tenth   == total \div 10
      credits == SumFunction([v \in c.voters |-> v.credits])
      s1 == RewardKey(s, c.generator, total - 3 * tenth)
      s2 == RewardKey(s1, DuskKey, tenth)
      s3 == IF GeneratorExtra(tenth, credits) = 0 THEN s2
            ELSE RewardKey(s2, c.generator, GeneratorExtra(tenth, credits))
      s4 == FoldSet(LAMBDA v, t : RewardKey(t, v.key, v.credits * VoterShare(tenth)), s3, c.voters)
  IN IF c.voters # {} /\ credits = 0 /\ s.height > 1 THEN Panic(s)
     ELSE Then(SlashAll(s4, c.slashed), LAMBDA t : UpdateRoot(t))

-----------------------------------------------------------------------------
(* Sessions, generation and replay *)

LockedOnly(s) ==
  {k \in Keys : Exists(s, k) /\ s.stakes[k].amount.some /\ s.stakes[k].amount.value = 0}

\* new_block_session
OpenSession(s) ==
  OnNewBlock([s EXCEPT !.height = @ + 1, !.events = <<>>])

\* accept: every transaction must be spendable (e is what came of it), and the
\* gas must be enough.
ReplayStep(r, e, tx) ==
  IF r.err # "none" THEN r
  ELSE IF e.err # "none" \/ e.gas > r.gas THEN [r EXCEPT !.err = "panic"]
  ELSE [s |-> e.s, gas |-> r.gas - e.gas, dusk |-> r.dusk + e.gas * tx.price, err |-> "none"]

ReplayEnd(r, c) == IF r.err # "none" THEN Panic(r.s) ELSE CloseBlock(r.s, r.dusk, c)

\* What the replay of txs on the session s comes to.
Replayed(s, txs) ==
  LET r[n \in 0 .. Len(txs)] ==
        IF n = 0 THEN [s |-> s, gas |-> BlockGasLimit, dusk |-> 0, err |-> "none"]
        ELSE ReplayStep(r[n - 1], Execute(r[n - 1].s, txs[n]), txs[n])
  IN r[Len(txs)]

Replay(txs, c) == ReplayEnd(Replayed(OpenSession(vm), txs), c)

\* The session s after txs, whatever they cost.
Rerun(s, txs) ==
  LET t[n \in 0 .. Len(txs)] == IF n = 0 THEN s ELSE Execute(t[n - 1], txs[n]).s
  IN t[Len(txs)]

NoBlock == [on |-> FALSE]

\* The transactions of the block under construction, without the gas they spent.
Included == [i \in DOMAIN gen.txs |-> gen.txs[i].inner]

OpenBlock ==
  /\ ~gen.on /\ vm.height < MaxHeight
  /\ gen' = [on |-> TRUE, s |-> OpenSession(vm), txs |-> <<>>, gas |-> BlockGasLimit, dusk |-> 0]
  /\ UNCHANGED <<vm, before, prov, emptied>>

\* Mutated form of Rebuilt: the session that went over the limit stays in use.
RebuiltNever(e) == e.s

\* A transaction over the block's gas limit has spoilt the session: the ones
\* already in the block are executed again.
Rebuilt(e) == Rerun(OpenSession(vm), Included)

\* The body of the loop of execute_transactions.
TryTransaction(tx) ==
  /\ gen.on /\ Len(gen.txs) < MaxTxs
  /\ \E e \in {Execute(gen.s, tx)} :
       \/ /\ e.err = "none" /\ e.gas <= gen.gas
          /\ gen' = [gen EXCEPT !.s = e.s, !.txs = Append(@, [inner |-> tx, gas |-> e.gas]),
                                !.gas = @ - e.gas,
                                !.dusk = @ + e.gas * tx.price]
       \/ /\ e.err = "none" /\ e.gas > gen.gas
          /\ gen' = [gen EXCEPT !.s = Rebuilt(e)]
       \/ /\ e.err # "none"          \* not yet its nonce, or discarded
          /\ UNCHANGED gen
  /\ emptied' = emptied \cup LockedOnly(gen'.s)
  /\ UNCHANGED <<vm, before, prov>>

-----------------------------------------------------------------------------
(* The provisioners of the acceptor *)

\* query_provisioners: an entry without amount is a member without value.
Query(stakes) ==
  [k \in {k \in Keys : stakes[k] # NoStake} |->
     [value |-> stakes[k].amount.value, since |-> stakes[k].amount.eligibility]]

Without(f, k) == [j \in DOMAIN f \ {k} |-> f[j]]
Members(f) == DOMAIN f

\* Mutated form of ApplyEvent: a slash does not suspend.
ApplyEventNoSuspend(f, ev, height) ==
  LET k == ev.key IN
  CASE ev.topic = "stake" /\ k \in Members(f) -> [f EXCEPT ![k].value = @ + ev.value]
    [] ev.topic = "stake" /\ k \notin Members(f) ->
         Put(f, k, [value |-> ev.value, since |-> EligibilityFrom(height)])
    [] ev.topic = "unstake" ->
         IF f[k].value = ev.value THEN Without(f, k) ELSE [f EXCEPT ![k].value = @ - ev.value]
    [] ev.topic = "slash" -> [f EXCEPT ![k].value = @ - ev.value]

\* One change of selective_update; callers check EventFits.
ApplyEvent(f, ev, height) ==
  LET k == ev.key IN
  CASE ev.topic = "stake" /\ k \in Members(f) -> [f EXCEPT ![k].value = @ + ev.value]
    [] ev.topic = "stake" /\ k \notin Members(f) ->
         Put(f, k, [value |-> ev.value, since |-> EligibilityFrom(height)])
    [] ev.topic = "unstake" ->
         IF f[k].value = ev.value THEN Without(f, k) ELSE [f EXCEPT ![k].value = @ - ev.value]
    [] ev.topic = "slash" ->
         [f EXCEPT ![k] = [value |-> IF @.value <= ev.value THEN 0 ELSE @.value - ev.value,
                           since |-> ev.until]]

EventFits(f, ev) ==
  CASE ev.topic = "stake"   -> ev.key \in Members(f) => f[ev.key].value # 0
    [] ev.topic = "unstake" -> ev.key \in Members(f) /\ f[ev.key].value >= ev.value
    [] ev.topic = "slash"   -> ev.key \in Members(f)

\* An event that does not fit ends the update.
UpdateStep(r, ev) ==
  IF r.ok /\ EventFits(r.f, ev) THEN [r EXCEPT !.f = ApplyEvent(r.f, ev, r.height)]
  ELSE [r EXCEPT !.ok = FALSE]

\* The list f after the events of a block.
Updates(f, events, height) ==
  LET r[n \in 0 .. Len(events)] ==
        IF n = 0 THEN [ok |-> TRUE, f |-> f, height |-> height] ELSE UpdateStep(r[n - 1], events[n])
  IN r[Len(events)]

\* selective_update, and the reload when an event does not fit.
SelectiveUpdate(p, s) ==
  LET r == Updates(p.current, s.events, s.height)
  IN IF s.events = <<>> THEN [current |-> p.current, prev |-> p.current]
     ELSE [current |-> IF r.ok THEN r.f ELSE Query(s.stakes), prev |-> p.current]

\* apply_changes: the list before the block, from previous_block_state.
ApplyChanges(current, changes) ==
  LET gone == {k \in DOMAIN changes : changes[k] = NoStake} IN
  [k \in (Members(current) \cup DOMAIN changes) \ gone |->
     IF k \in DOMAIN changes
     THEN [value |-> changes[k].amount.value, since |-> changes[k].amount.eligibility]
     ELSE current[k]]

\* The block is replayed and accepted; the tip moves.
AcceptTransactions(c) ==
  /\ gen.on
  /\ \E s \in {Replay(Included, c)} :
       /\ s.err = "none"
       /\ vm' = [s EXCEPT !.events = <<>>]
       /\ prov' = SelectiveUpdate(prov, s)
       /\ emptied' = emptied \cup LockedOnly(s)
  /\ before' = vm.stakes
  /\ gen' = NoBlock

\* The block cannot be closed: no candidate comes out of this session.
GenerationFails(c) ==
  /\ gen.on
  /\ CloseBlock(gen.s, gen.dusk, c).err # "none"
  /\ gen' = NoBlock
  /\ UNCHANGED <<vm, before, prov, emptied>>

\* init_consensus and update_tip read the provisioners from the state.
Reload ==
  /\ ~gen.on
  /\ prov' = LET now == Query(vm.stakes) IN
             [current |-> now,
              prev |-> IF vm.height = 0 THEN now ELSE ApplyChanges(now, vm.prev)]
  /\ emptied' = LockedOnly(vm)
  /\ UNCHANGED <<vm, before, gen>>

-----------------------------------------------------------------------------
(* Transactions users can build *)

\* The replay token of a transaction: its nonce, or the note it spends.
WithNonce(i, n) == [i EXCEPT !.nonce = n, !.call.token = {n}]
WithNote(i, r, p) == [i EXCEPT !.root = r, !.inputs = {p}, !.call.token = {p}]

\* The transactions an intent can become, given what the wallet sees: stale
\* and early nonces, old roots and notes already spent among them.
Built(s, i) ==
  IF i.kind = "moonlight"
  THEN {WithNonce(i, n) : n \in {s.acct[i.sender].nonce + d : d \in {0, 1, 2}}}
  ELSE {WithNote(i, r, p) : r \in Range(s.roots), p \in 1..Len(s.leaves)}

ExecInit ==
  /\ vm = Genesis
  /\ before = Genesis.stakes
  /\ gen = NoBlock
  /\ prov = [current |-> Query(Genesis.stakes), prev |-> Query(Genesis.stakes)]
  /\ emptied = LockedOnly(Genesis)

ExecNext ==
  \/ OpenBlock
  \/ gen.on /\ \E i \in Intents : \E tx \in Built(gen.s, i) : TryTransaction(tx)
  \/ \E c \in Closings : AcceptTransactions(c)
  \/ \E c \in Closings : GenerationFails(c)
  \/ Reload

ExecSpec == ExecInit /\ [][ExecNext]_execVars

-----------------------------------------------------------------------------
(* Properties *)

Unspent(s) == (1..Len(s.leaves)) \ s.nulls

\* All the Dusk of a state: accounts, contracts, notes, and unclaimed rewards.
Worth(s) ==
  SumFunction([k \in Keys |-> s.acct[k].balance]) + SumFunction(s.cbal)
    + SumFunction([p \in Unspent(s) |-> s.leaves[p].value])
    + SumFunction([k \in Keys |-> IF Exists(s, k) THEN s.stakes[k].reward ELSE 0])

\* The transactions of a block move Dusk and never make or lose any, whatever
\* fails on the way: what is missing is the gas that was paid.
TransactionsConserve == gen.on => Worth(gen.s) + gen.dusk = Worth(vm)

GenesisWorth == Worth(Genesis)

\* Closing a block creates at most the emission of its height.
EmissionBounded == Worth(vm) <= GenesisWorth + vm.height * Emission

\* No transaction is charged more gas than its limit, so that refund cannot
\* underflow.
GasWithinLimit ==
  gen.on => \A i \in DOMAIN gen.txs : gen.txs[i].gas <= gen.txs[i].inner.limit

\* No Dusk is made or lost: transactions only move it and pay their gas, when
\* calls are undone, deposits nobody took are returned and a deployment is
\* charged on top (spend_and_execute, execute, refund), and fixed, extra and
\* voters' rewards never add up to more than emission and gas (coinbase_value,
\* calc_generator_extra_reward).
ValueConserved == TransactionsConserve /\ EmissionBounded /\ GasWithinLimit

\* The stake contract holds exactly what its stakes add up to, value and locked
\* part, through stakes, top-ups, withdrawals by accounts and by contracts, and
\* slashes: every stake can be paid out.
StakesBacked ==
  \A s \in {vm} \cup (IF gen.on THEN {gen.s} ELSE {}) :
    s.cbal[Stake] = Funds(s)

\* Every block a generator assembles is accepted by the nodes that replay it,
\* with the same state: the transactions it skipped, discarded or threw out for
\* their gas left no trace in its session (execute_transactions against accept).
GeneratedBlockReplays ==
  gen.on => \A c \in Closings : Replay(Included, c) = CloseBlock(gen.s, gen.dusk, c)

Eligible(f, round) == {<<k, f[k]>> : k \in {k \in DOMAIN f : f[k].since <= round /\ f[k].value >= MinStake}}

\* The list the acceptor maintains from events extracts committees like the one
\* read from the state, for the next round and (through previous_block_state,
\* after a reload) for the tip's own: nodes that restart and nodes that do not
\* agree on committees.  It is claimed for stakes that were never left with
\* locked funds only.
ProvisionersAgree ==
  LET kept(f) == [k \in DOMAIN f \ emptied |-> f[k]] IN
  ~gen.on =>
  /\ Eligible(kept(prov.current), vm.height + 1) = Eligible(kept(Query(vm.stakes)), vm.height + 1)
  /\ Eligible(kept(prov.prev), vm.height) = Eligible(kept(Query(before)), vm.height)

\* "Stake can have no amount if provisioner unstake in the same block": a
\* provisioner that leaves in a block can still be slashed in it, and the block
\* can be closed (StakeState::slash).
LeaversCanBeSlashed ==
  gen.on => \A c \in Closings : CloseBlock(gen.s, gen.dusk, c).err = "none"
=============================================================================
