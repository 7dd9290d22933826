---------------------------- MODULE StakeContract ----------------------------
(***************************************************************************)
(* The stake contract (contracts/stake/src/state.rs) on top of the         *)
(* transfer contract: stakes of accounts and of contracts, the part of a   *)
(* stake that is locked, eligibility by epochs, rewards, faults, and the   *)
(* state of the changed stakes before the block.                           *)
(***************************************************************************)
EXTENDS TransferContract

CONSTANTS
  Epoch,         \* EPOCH
  MinStake,      \* minimum_stake
  Warnings       \* faults that are forgiven

\* No entry in the map, and an entry without amount.
NoStake == [owner |-> NoKey]
NoAmount == [value |-> 0, locked |-> 0, eligibility |-> 0, some |-> FALSE]
Amount(value, eligibility) ==
  [value |-> value, locked |-> 0, eligibility |-> eligibility, some |-> TRUE]
EmptyStake(owner) == [owner |-> owner, amount |-> NoAmount, reward |-> 0, faults |-> 0]

Exists(s, k) == s.stakes[k] # NoStake
NextEpoch(h) == h + Epoch - (h % Epoch)
EligibilityFrom(h) == NextEpoch(h) + Epoch
TotalFunds(amount) == amount.value + amount.locked

Emit(s, ev) == [s EXCEPT !.events = Append(@, ev)]

\* The map f with v at k.
Put(f, k, v) == [j \in DOMAIN f \cup {k} |-> IF j = k THEN v ELSE f[j]]

\* previous_block_state: the first change of a stake in a block counts.
Remember(s, k, before) ==
  IF k \in DOMAIN s.prev THEN s ELSE [s EXCEPT !.prev = Put(@, k, before)]

\* load_or_create_stake_mut
Load(s, k, owner) == IF Exists(s, k) THEN s ELSE [s EXCEPT !.stakes[k] = EmptyStake(owner)]

\* What stake and stake_from_contract do to the amount: a stake that is
\* already eligible has a tenth of the addition locked.
AddToStake(s, k, value) ==
  LET amount == s.stakes[k].amount
      locked == IF s.height >= amount.eligibility THEN value \div 10 ELSE 0
      event(v) == [topic |-> "stake", key |-> k, value |-> v]
  IN IF amount.some
     THEN Emit([s EXCEPT !.stakes[k].amount = [amount EXCEPT !.locked = @ + locked,
                                                             !.value = @ + value - locked]],
               event(value - locked))
     ELSE Emit([s EXCEPT !.stakes[k].amount = Amount(value, EligibilityFrom(s.height))],
               event(value))

\* The owner of the loaded stake must be the one the call is made with, and a
\* new stake must not be below the minimum.
StakeAllowed(s, k, owner, value) ==
  /\ s.stakes[k].owner = owner
  /\ ~s.stakes[k].amount.some => value >= MinStake

StakeLoaded(s, k, owner, value) ==
  LET t == Load(s, k, owner) IN Require(t, StakeAllowed(t, k, owner, value))

\* stake: the deposit of the transaction becomes a balance of this contract.
StakeAccount(s, k, value) ==
  Then(Then(StakeLoaded(s, k, k, value), LAMBDA t : Deposit(t, Stake, value)),
       LAMBDA t : Remember(AddToStake(t, k, value), k, s.stakes[k]))

\* stake_from_contract: the transfer contract has moved the value already.
StakeForContract(s, k, contract, value) ==
  Then(StakeLoaded(s, k, contract, value),
       LAMBDA t : Remember(AddToStake(t, k, value), k, s.stakes[k]))

\* What is taken beyond the value comes from the locked part; a stake without
\* funds loses its amount, and its entry too if it has no reward.
TakeFromStake(s, k, value) ==
  LET amount == s.stakes[k].amount
      fromStake == IF value > amount.value THEN amount.value ELSE value
      left == [amount EXCEPT !.value = @ - fromStake, !.locked = @ - (value - fromStake)]
      stake == [s.stakes[k] EXCEPT !.amount = IF TotalFunds(left) = 0 THEN NoAmount ELSE left]
  IN Emit([s EXCEPT !.stakes[k] = IF ~stake.amount.some /\ stake.reward = 0 THEN NoStake ELSE stake],
          [topic |-> "unstake", key |-> k, value |-> fromStake])

CanUnstake(s, k, owner, value) ==
  /\ Exists(s, k) /\ s.stakes[k].amount.some
  /\ value <= TotalFunds(s.stakes[k].amount)
  /\ s.stakes[k].owner = owner

\* unstake: what is left must be nothing, or at least the minimum.
Unstake(s, k, w) ==
  LET left == TotalFunds(s.stakes[k].amount) - w.value IN
  Then(Then(Then(Require(s, CanUnstake(s, k, k, w.value)),
                 LAMBDA t : Withdraw(t, Stake, w)),
            LAMBDA t : Require(t, left = 0 \/ left >= MinStake)),
       LAMBDA t : Remember(TakeFromStake(t, k, w.value), k, s.stakes[k]))

\* unstake_from_contract: no minimum for what is left.  The contract that gets
\* the value gives it to a user with the withdrawal w, before the call returns.
UnstakeForContract(s, k, w) ==
  Then(Then(Then(Require(s, CanUnstake(s, k, w.contract, w.value)),
                 LAMBDA t : ContractToContract(t, Stake, w.contract, w.value)),
            LAMBDA t : Withdraw(t, w.contract, w)),
       LAMBDA t : Remember(TakeFromStake(t, k, w.value), k, s.stakes[k]))

CanCollect(s, k, owner, value) ==
  /\ Exists(s, k) /\ value > 0 /\ value <= s.stakes[k].reward
  /\ s.stakes[k].owner = owner

TakeReward(s, k, value) ==
  LET stake == [s.stakes[k] EXCEPT !.reward = @ - value] IN
  [s EXCEPT !.stakes[k] = IF stake.reward = 0 /\ ~stake.amount.some THEN NoStake ELSE stake]

\* withdraw and withdraw_from_contract: rewards are minted.
WithdrawReward(s, k, w) ==
  Then(Then(Require(s, CanCollect(s, k, k, w.value)), LAMBDA t : Mint(t, Stake, w)),
       LAMBDA t : TakeReward(t, k, w.value))

WithdrawRewardForContract(s, k, w) ==
  Then(Then(Then(Require(s, CanCollect(s, k, w.contract, w.value)),
                 LAMBDA t : MintToContract(t, Stake, w.contract, w.value)),
            LAMBDA t : Withdraw(t, w.contract, w)),
       LAMBDA t : TakeReward(t, k, w.value))

-----------------------------------------------------------------------------
(* Calls of the node itself *)

OnNewBlock(s) == [s EXCEPT !.prev = <<>>]

\* reward: an account without entry gets one, owned by itself.
RewardKey(s, k, value) ==
  IF Exists(s, k)
  THEN [s EXCEPT !.stakes[k] = [s.stakes[k] EXCEPT !.reward = @ + value, !.faults = 0]]
  ELSE [s EXCEPT !.stakes[k] = [EmptyStake(k) EXCEPT !.reward = value]]

\* Mutated form of Slash: what is locked is not taken from the value.
SlashCopies(s, k) ==
  LET faults    == s.stakes[k].faults + 1
      effective == IF faults > Warnings THEN faults - Warnings ELSE 0
      amount    == s.stakes[k].amount
      toSlash   == Min({(amount.value \div 100) * effective * 10, amount.value})
  IN IF ~Exists(s, k) THEN Panic(s)
     ELSE IF ~amount.some THEN s
     ELSE Remember([s EXCEPT !.stakes[k] = [@ EXCEPT !.faults = faults, !.amount.locked = @ + toSlash]],
                   k, s.stakes[k])

\* slash: suspend once the warnings are used up, and lock a share of the value.
Slash(s, k) ==
  LET faults    == s.stakes[k].faults + 1
      effective == IF faults > Warnings THEN faults - Warnings ELSE 0
      amount    == s.stakes[k].amount
      until     == IF effective > 0 THEN NextEpoch(s.height) + effective * Epoch
                   ELSE amount.eligibility
      toSlash   == Min({(amount.value \div 100) * effective * 10, amount.value})
      slashed   == [amount EXCEPT !.value = @ - toSlash, !.locked = @ + toSlash,
                                  !.eligibility = until]
      t         == [s EXCEPT !.stakes[k] = [@ EXCEPT !.faults = faults, !.amount = slashed]]
      event     == [topic |-> "slash", key |-> k, value |-> toSlash, until |-> until]
  IN IF ~Exists(s, k) THEN Panic(s)
     ELSE IF ~amount.some THEN s
     ELSE Remember(IF effective > 0 THEN Emit(t, event) ELSE t, k, s.stakes[k])
=============================================================================
