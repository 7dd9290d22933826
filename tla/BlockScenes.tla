----------------------------- MODULE BlockScenes -----------------------------
(* The small world of Transactions: a user "a" with an account, a note and a  *)
(* stake, and a key "b" whose stake belongs to the contract charlie.          *)
EXTENDS BlockExecution

SceneKeys == {"a", "b", "d"}

SceneStakes ==
  LET staked(owner) == [EmptyStake(owner) EXCEPT !.amount = Amount(100, 0)] IN
  [k \in SceneKeys |-> CASE k = "a" -> staked("a")
                         [] k = "b" -> staked("charlie")
                         [] OTHER -> NoStake]

SceneGenesis ==
  [err |-> "none", height |-> 0, tx |-> NoOngoing, dep |-> "none", events |-> <<>>,
   acct |-> [k \in SceneKeys |-> [nonce |-> 0, balance |-> IF k = "a" THEN 500 ELSE 0]],
   cbal |-> [c \in ContractIds |-> CASE c = Stake -> 200 [] c = "alice" -> 10 [] OTHER -> 0],
   leaves |-> <<[owner |-> "a", value |-> 60]>>, nulls |-> {}, roots |-> <<1>>,
   stakes |-> SceneStakes, prev |-> <<>>, deployed |-> {}]

NoCall == [contract |-> "none", fn |-> "none", key |-> "none", value |-> 0, to |-> "none",
           phoenix |-> FALSE, token |-> {}]
CallTo(contract, fn, key, value, phoenix) ==
  [NoCall EXCEPT !.contract = contract, !.fn = fn, !.key = key, !.value = value,
                 !.to = "a", !.phoenix = phoenix]

Moonlight(value, deposit, call) ==
  [kind |-> "moonlight", sender |-> "a", receiver |-> "b", value |-> value, deposit |-> deposit,
   limit |-> 2, price |-> 1, used |-> 1, nonce |-> 0, refund |-> "a", call |-> call,
   sound |-> TRUE, bytes |-> 0, code |-> "none"]
Phoenix(value, deposit, call) ==
  [kind |-> "phoenix", sender |-> "a", receiver |-> "b", value |-> value, deposit |-> deposit,
   limit |-> 2, price |-> 1, used |-> 1, inputs |-> {}, root |-> 0, clear |-> TRUE, refund |-> "a",
   call |-> call, sound |-> TRUE, bytes |-> 0, code |-> "none"]

SceneIntents ==
  {Moonlight(0, 50, CallTo(Stake, "stake", "a", 50, FALSE)),
   Moonlight(0, 0, CallTo(Stake, "unstake", "a", 100, TRUE)),
   Moonlight(0, 0, CallTo(Stake, "withdraw", "a", 5, FALSE)),
   Moonlight(0, 100, CallTo("charlie", "stake", "b", 100, FALSE)),
   Moonlight(0, 0, CallTo("charlie", "unstake", "b", 190, FALSE)),
   Moonlight(0, 0, CallTo("charlie", "withdraw", "b", 5, FALSE)),
   Moonlight(3, 7, CallTo("alice", "deposit", "none", 7, FALSE)),
   Moonlight(0, 7, CallTo("alice", "contract_to_account", "none", 4, FALSE)),
   Moonlight(0, 0, CallTo("alice", "contract_to_contract", "none", 4, FALSE)),
   Moonlight(0, 0, CallTo("alice", "withdraw", "none", 6, TRUE)),
   [Moonlight(0, 0, NoCall) EXCEPT !.bytes = 1, !.code = "c", !.limit = 3],
   [Moonlight(0, 0, NoCall) EXCEPT !.bytes = 1, !.code = "c", !.limit = 1],
   Phoenix(5, 0, NoCall),
   Phoenix(0, 20, CallTo(TransferId, "convert", "none", 20, FALSE))}

Voter(k, credits) == [key |-> k, credits |-> credits]
\* All credits voted and nobody is slashed, or some did not and both are, twice.
SceneClosings ==
  {[generator |-> "a", voters |-> {Voter("a", 3), Voter("b", 3)}, slashed |-> <<>>],
   [generator |-> "b", voters |-> {Voter("b", 5)}, slashed |-> <<"a", "b", "a", "b">>]}
==============================================================================
