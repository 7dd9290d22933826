----------------------------- MODULE WalletCore -----------------------------
(***************************************************************************)
(* What a wallet computes: balances, the notes a transaction spends, and   *)
(* the transactions themselves (wallet-core).  A note is a record of its   *)
(* id, which stands for its nullifier, its owner and its value; a secret   *)
(* key is its profile's number.                                            *)
(***************************************************************************)
EXTENDS Naturals, FiniteSetsExt, SequencesExt

CONSTANT MaxInputs     \* MAX_INPUT_NOTES

Ids(notes) == {n.id : n \in notes}
ValueOf(notes) == MapThenSumSet(LAMBDA n : n.value, notes)

\* From smallest to largest value.
ByValue(notes) ==
  SetToSortSeq(notes, LAMBDA a, b : a.value < b.value \/ (a.value = b.value /\ a.id < b.id))

-----------------------------------------------------------------------------
(* Notes *)

\* phoenix_balance: all of it, and what one transaction can spend.
Balance(notes) ==
  LET sorted == Reverse(ByValue(notes))
      top == {sorted[i] : i \in 1 .. IF Len(sorted) < MaxInputs THEN Len(sorted) ELSE MaxInputs}
  IN [value |-> ValueOf(notes), spendable |-> ValueOf(top)]

\* is_valid
Covers(sorted, cost, indices) == ValueOf({sorted[indices[i]] : i \in DOMAIN indices}) >= cost

\* The next combination in lexicographic order, if there is one: the last index
\* that is not yet at its end advances, and the ones behind it follow.
NextIndices(indices, len) ==
  LET open == {i \in 1 .. MaxInputs : indices[i] # i + len - MaxInputs}
  IN IF open = {} THEN <<>>
     ELSE [j \in 1 .. MaxInputs |->
             IF j < Max(open) THEN indices[j] ELSE indices[Max(open)] + 1 + (j - Max(open))]

RECURSIVE PickFrom(_, _, _)
PickFrom(sorted, cost, indices) ==
  IF Covers(sorted, cost, indices) \/ NextIndices(indices, Len(sorted)) = <<>> THEN indices
  ELSE PickFrom(sorted, cost, NextIndices(indices, Len(sorted)))

PickLexicographic(sorted, cost) == PickFrom(sorted, cost, [i \in 1 .. MaxInputs |-> i])

\* pick_notes: nothing if the largest notes do not cover the cost, all of them
\* if they are few, else the first combination that covers it.
PickNotes(notes, cost) ==
  LET sorted == ByValue(notes) IN
  IF notes = {} \/ Balance(notes).spendable < cost THEN {}
  ELSE IF Len(sorted) <= MaxInputs THEN notes
  ELSE LET indices == PickLexicographic(sorted, cost)
       IN {sorted[indices[i]] : i \in DOMAIN indices}

-----------------------------------------------------------------------------
(* Transactions *)

NoCall == [fn |-> "none"]
Refused == [model |-> "none"]

\* A transaction is replayed with the notes or the nonce it is paid with.
PhoenixToken(inputs) == Ids(inputs)
MoonlightToken(nonce) == {nonce}

\* The inputs are not empty and cover what the transaction may cost; a transfer
\* note without value is transparent.  The fee is what the gas may cost.
Phoenix(from, to, inputs, openings, root, transfer, isTransfer, deposit, fee, call) ==
  IF inputs = {} \/ ValueOf(inputs) < transfer + fee + deposit THEN Refused
  ELSE [model |-> "phoenix", from |-> from, to |-> to, inputs |-> inputs, openings |-> openings, root |-> root,
        transfer |-> transfer, obfuscated |-> isTransfer /\ transfer # 0, deposit |-> deposit, fee |-> fee,
        change |-> ValueOf(inputs) - transfer - fee - deposit, call |-> call]

Moonlight(from, to, transfer, deposit, nonce, call) ==
  [model |-> "moonlight", from |-> from, to |-> to, transfer |-> transfer, deposit |-> deposit,
   nonce |-> nonce, call |-> call]

\* A transaction of a profile to itself that calls a contract.
PhoenixCall(p, i, deposit, call) == Phoenix(p, p, i.notes, i.openings, i.root, 0, FALSE, deposit, i.fee, call)
MoonlightCall(p, deposit, nonce, call) == Moonlight(p, p, 0, deposit, nonce, call)

WithdrawToPhoenix(p, contract, token, value) ==
  [contract |-> contract, value |-> value, receiver |-> <<"phoenix", p>>, token |-> token]
WithdrawToMoonlight(p, contract, token, value) ==
  [contract |-> contract, value |-> value, receiver |-> <<"moonlight", p>>, token |-> token]

StakeCall(account, owner, value) ==
  [fn |-> "stake", account |-> account, owner |-> owner, value |-> value]
StakeWithdraw(fn, account, owner, w) ==
  [fn |-> fn, account |-> account, owner |-> owner, value |-> w.value, withdraw |-> w]
ConvertCall(w) == [fn |-> "convert", value |-> w.value, withdraw |-> w]
Deploy(owner) == [fn |-> "deploy", owner |-> owner]

PhoenixStake(p, owner, i, value) == PhoenixCall(p, i, value, StakeCall(p, owner, value))
MoonlightStake(p, owner, value, nonce) == MoonlightCall(p, value, nonce, StakeCall(p, owner, value))

PhoenixStakeReward(p, owner, i, reward) ==
  PhoenixCall(p, i, 0, StakeWithdraw("withdraw", p, owner,
    WithdrawToPhoenix(p, "stake", PhoenixToken(i.notes), reward)))
MoonlightStakeReward(p, owner, reward, nonce) ==
  MoonlightCall(p, 0, nonce, StakeWithdraw("withdraw", p, owner,
    WithdrawToMoonlight(p, "stake", MoonlightToken(nonce), reward)))

PhoenixUnstake(p, owner, i, value) ==
  PhoenixCall(p, i, 0, StakeWithdraw("unstake", p, owner,
    WithdrawToPhoenix(p, "stake", PhoenixToken(i.notes), value)))
MoonlightUnstake(p, owner, value, nonce) ==
  MoonlightCall(p, 0, nonce, StakeWithdraw("unstake", p, owner,
    WithdrawToMoonlight(p, "stake", MoonlightToken(nonce), value)))

PhoenixToMoonlight(p, i, value) ==
  PhoenixCall(p, i, value, ConvertCall(WithdrawToMoonlight(p, "transfer", PhoenixToken(i.notes), value)))
MoonlightToPhoenix(p, value, nonce) ==
  MoonlightCall(p, value, nonce, ConvertCall(WithdrawToPhoenix(p, "transfer", MoonlightToken(nonce), value)))

PhoenixDeployment(p, i) == PhoenixCall(p, i, 0, Deploy(p))
MoonlightDeployment(p, nonce) == MoonlightCall(p, 0, nonce, Deploy(p))
=============================================================================
