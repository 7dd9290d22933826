--------------------------- MODULE TransferContract ---------------------------
(***************************************************************************)
(* The transfer contract (contracts/transfer/src): accounts with nonces,   *)
(* balances of contracts, the append-only tree of Phoenix notes with its   *)
(* nullifiers and roots, and the deposit of the transaction that runs.     *)
(*                                                                         *)
(* A state of the virtual machine is one record s and a contract function  *)
(* is an operator from s to the state it leaves; a panic sets s.err, and   *)
(* whoever made the call goes back to the state before it.  Signatures and *)
(* proofs are the Boolean field "sound" of a transaction; a note is known  *)
(* by its position, which is also what its nullifier reveals.              *)
(***************************************************************************)
EXTENDS Naturals, Sequences, FiniteSets, SequencesExt

CONSTANTS
  Keys,       \* BLS keys; each owns an account and, in Phoenix, notes
  NoKey,
  MaxRoots    \* MAX_ROOTS

Stake == "stake"
TransferId == "transfer"
ContractIds == {Stake, TransferId, "alice", "bob", "charlie"}

NoOngoing == [kind |-> "none"]

Panic(s) == [s EXCEPT !.err = "panic"]
Require(s, cond) == IF s.err = "none" /\ ~cond THEN Panic(s) ELSE s
Then(s, Step(_)) == IF s.err = "none" THEN Step(s) ELSE s

-----------------------------------------------------------------------------
(* Balances and notes *)

AddAccount(s, k, value) == [s EXCEPT !.acct[k].balance = @ + value]
AddContract(s, c, value) == [s EXCEPT !.cbal[c] = @ + value]

SubContract(s, c, value) ==
  IF s.cbal[c] < value THEN Panic(s) ELSE [s EXCEPT !.cbal[c] = @ - value]

\* A transparent note without value is not stored; the position of a note is
\* the length of the tree before it.
PushNote(s, owner, value, transparent) ==
  IF transparent /\ value = 0 THEN s
  ELSE [s EXCEPT !.leaves = Append(@, [owner |-> owner, value |-> value])]

UpdateRoot(s) ==
  LET all == Append(s.roots, Len(s.leaves)) IN
  [s EXCEPT !.roots = IF Len(all) > MaxRoots THEN Tail(all) ELSE all]

-----------------------------------------------------------------------------
(* Withdrawals: w = [contract, value, to, phoenix, kind, token] *)

\* The token must be the replay token of the transaction that runs: its nonce,
\* or (all of) its nullifiers.
TokenMatches(tx, w) ==
  /\ w.kind = tx.kind
  /\ IF tx.kind = "moonlight" THEN w.token = {tx.nonce} ELSE tx.inputs \subseteq w.token

MintWithdrawal(s, w) ==
  IF ~TokenMatches(s.tx, w) THEN Panic(s)
  ELSE IF w.phoenix THEN PushNote(s, w.to, w.value, TRUE)
  ELSE AddAccount(s, w.to, w.value)

Withdraw(s, caller, w) ==
  Then(Require(s, w.contract = caller /\ s.cbal[caller] >= w.value),
       LAMBDA t : MintWithdrawal(SubContract(t, caller, w.value), w))

Mint(s, caller, w) ==
  Then(Require(s, caller = Stake /\ w.contract = Stake), LAMBDA t : MintWithdrawal(t, w))

Convert(s, caller, w) ==
  Then(Require(s, /\ caller = TransferId /\ w.contract = TransferId
                  /\ s.dep = "available" /\ w.value = s.tx.deposit),
       LAMBDA t : [MintWithdrawal(t, w) EXCEPT !.dep = "taken"])

\* Mutated form of Deposit: it can be taken again.
DepositStays(s, caller, value) ==
  Then(Require(s, s.dep = "available" /\ value = s.tx.deposit /\ caller = s.tx.call.contract),
       LAMBDA t : AddContract(t, caller, value))

Deposit(s, caller, value) ==
  Then(Require(s, s.dep = "available" /\ value = s.tx.deposit /\ caller = s.tx.call.contract),
       LAMBDA t : [AddContract(t, caller, value) EXCEPT !.dep = "taken"])

\* The function of the receiving contract runs next, on the state they leave.
ContractToContract(s, sender, to, value) ==
  Then(Require(s, sender # TransferId /\ s.cbal[sender] >= value),
       LAMBDA t : AddContract(SubContract(t, sender, value), to, value))

MintToContract(s, caller, to, value) ==
  Then(Require(s, caller = Stake), LAMBDA t : AddContract(t, to, value))

ContractToAccount(s, sender, to, value) ==
  Then(Require(s, sender # TransferId /\ s.cbal[sender] >= value),
       LAMBDA t : AddAccount(SubContract(t, sender, value), to, value))

-----------------------------------------------------------------------------
(* A transaction *)

\* transitory::put_transaction; a deposit needs a contract to go to.
PutTransaction(s, tx) ==
  Require([s EXCEPT !.tx = tx, !.dep = IF tx.deposit > 0 THEN "available" ELSE "none"],
          tx.deposit > 0 => tx.call.contract # "none")

\* spend_moonlight.  A nonce that is too high is a panic of its own.
SpendMoonlight(s, tx) ==
  LET total == tx.value + tx.deposit + tx.limit * tx.price
      from  == s.acct[tx.sender]
      to    == IF tx.receiver = NoKey THEN tx.sender ELSE tx.receiver
      spent == [s EXCEPT !.acct[tx.sender] = [nonce |-> tx.nonce, balance |-> @.balance - total]]
  IN CASE ~tx.sound \/ total > from.balance \/ tx.nonce <= from.nonce -> Panic(s)
       [] OTHER -> IF tx.nonce > from.nonce + 1 THEN [s EXCEPT !.err = "nonce"]
                   ELSE AddAccount(spent, to, tx.value)

\* What Transaction::new puts in the outputs, and the circuit enforces.
InputValue(s, tx) == SumFunction([p \in tx.inputs |-> s.leaves[p].value])
Change(s, tx) == InputValue(s, tx) - tx.value - tx.deposit - tx.limit * tx.price

\* verify_tx_proof: the inputs are notes of the sender under the root, and
\* cover what the transaction spends.
ProofVerifies(s, tx) ==
  /\ tx.inputs # {} /\ tx.inputs \subseteq 1..tx.root
  /\ \A p \in tx.inputs : s.leaves[p].owner = tx.sender
  /\ InputValue(s, tx) >= tx.value + tx.deposit + tx.limit * tx.price

SpendPhoenix(s, tx) ==
  IF \/ ~tx.sound \/ tx.root \notin Range(s.roots)
     \/ tx.inputs \cap s.nulls # {} \/ ~ProofVerifies(s, tx) THEN Panic(s)
  ELSE PushNote(PushNote([s EXCEPT !.nulls = @ \cup tx.inputs], tx.receiver, tx.value, tx.clear),
                tx.sender, Change(s, tx), FALSE)

\* The spending half of spend_and_execute.
Spend(s, tx) ==
  Then(PutTransaction(Require(s, tx.price > 0), tx),
       LAMBDA t : IF tx.kind = "moonlight" THEN SpendMoonlight(t, tx) ELSE SpendPhoenix(t, tx))

\* refund: unspent gas, and a deposit nobody took.
Refund(s, gasSpent) ==
  LET tx    == s.tx
      value == (tx.limit - gasSpent) * tx.price + (IF s.dep = "available" THEN tx.deposit ELSE 0)
      paid  == IF tx.kind = "moonlight" THEN AddAccount(s, tx.refund, value)
               ELSE PushNote(s, tx.refund, value, TRUE)
  IN [paid EXCEPT !.tx = NoOngoing, !.dep = "none"]
=============================================================================
