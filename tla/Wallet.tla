------------------------------- MODULE Wallet -------------------------------
(***************************************************************************)
(* rusk-wallet: a cache of the notes of its profiles, which a background   *)
(* task and the commands bring up to date, concurrently, from a node that  *)
(* goes on accepting and reverting blocks; and the transactions it builds  *)
(* from the cache and from what it asks the node, one request after the    *)
(* other.                                                                  *)
(***************************************************************************)
EXTENDS WalletCore

CONSTANTS
  ProfileOrder,  \* the profiles, by their numbers
  Syncs,         \* the background task and the commands that synchronise
  Genesis,       \* the notes of the first state
  Stakes,        \* what the profiles may have staked in the first state
  Holdings,      \* what their accounts hold in the first state
  MinStake,      \* minimum_stake
  Fee,           \* what the gas of a transaction may cost
  Amounts,       \* amounts users ask for
  Payments,      \* values of the notes that others send
  Kinds, Users,  \* the operations users ask for, and the profiles they use
  MaxNotes, MaxEvents,   \* bounds: notes in the tree, changes of the chain
  MaxDepth       \* bound: blocks the node may still take back

VARIABLES
  chain,     \* the node: [notes, nullified, nonce, account, stake]
  live,      \* cache: profile |-> unspent notes
  spent,     \* cache: profile |-> spent notes
  lastPos,   \* cache: <<last_pos>>, or <<>>
  sync,      \* the runs of sync_db
  op,        \* the operation that is being built
  sentTx,    \* the transaction that was propagated last
  settled,   \* the chain has not moved since an undisturbed synchronisation began
  outcome,   \* of the last transaction: what became of it, and did it begin settled
  changes,   \* changes of the chain
  past       \* the states the node may go back to, and history: what reverts
             \* took away

walletVars == <<chain, live, spent, lastPos, sync, op, sentTx, settled, outcome, changes, past>>

Profiles == ToSet(ProfileOrder)
Someone == "someone"
NoOne == "no one"
Idle == [pc |-> "idle"]
NoOp == [st |-> "none"]
NoOutcome == [sure |-> FALSE, ok |-> TRUE]

NoStake == [owner |-> NoOne, amount |-> 0, reward |-> 0]

WalletInit ==
  /\ \E stake \in Stakes :
       chain = [notes |-> Genesis, nullified |-> {}, nonce |-> [p \in Profiles |-> 0],
                account |-> Holdings, stake |-> stake]
  /\ live = [p \in Profiles |-> {}] /\ spent = [p \in Profiles |-> {}] /\ lastPos = <<>>
  /\ sync = [s \in Syncs |-> Idle] /\ op = NoOp /\ sentTx = Refused
  /\ settled = FALSE /\ outcome = NoOutcome /\ changes = 0
  /\ past = [undo |-> <<>>, reverts |-> 0, orphans |-> {}, replaced |-> {}, freed |-> {}]

-----------------------------------------------------------------------------
(* The node: the queries of the wallet, and the blocks it accepts *)

Root == [i \in DOMAIN chain.notes |-> chain.notes[i].id]
Roots == {SubSeq(Root, 1, n) : n \in 0 .. Len(Root)}
ExistingNullifiers(ids) == ids \cap chain.nullified
OnChain(p) == {chain.notes[i] : i \in {j \in DOMAIN chain.notes : chain.notes[j].owner = p}}

\* The contracts, as far as a wallet can get it wrong: there is a deposit to
\* take, a stake or what is left of it reaches the minimum, an operation on a
\* stake is signed by its owner, a withdrawal names what pays for the transaction.
CallSucceeds(tx) ==
  LET c == tx.call
      stake == chain.stake[tx.from]
      token == IF tx.model = "phoenix" THEN PhoenixToken(tx.inputs) ELSE MoonlightToken(tx.nonce)
  IN
  CASE c.fn \in {"none", "deploy", "execute"} -> TRUE
    [] c.fn = "stake"    -> tx.deposit = c.value /\ c.value > 0 /\ stake.owner \in {NoOne, c.owner}
                            /\ (stake.amount = 0 => c.value >= MinStake)
    [] c.fn = "unstake"  -> c.value <= stake.amount /\ stake.amount > 0 /\ stake.owner = c.owner
                            /\ c.withdraw.token = token
                            /\ (stake.amount # c.value => stake.amount - c.value >= MinStake)
    [] c.fn = "withdraw" -> c.value \in 1 .. stake.reward /\ stake.owner = c.owner
                            /\ c.withdraw.token = token
    [] c.fn = "convert"  -> tx.deposit = c.value /\ c.value > 0 /\ c.withdraw.token = token

\* What a public transaction may cost its account.
MaxCost(tx) == tx.transfer + tx.deposit + Fee

\* preverify: fresh nullifiers and a proof that verifies, or an account that
\* holds what may be spent and a fresh nonce.
Preverifies(tx) ==
  IF tx.model = "phoenix"
  THEN ExistingNullifiers(Ids(tx.inputs)) = {} /\ tx.openings = {tx.root}
  ELSE MaxCost(tx) <= chain.account[tx.from] /\ tx.nonce > chain.nonce[tx.from]

\* What the transfer contract checks besides, before the call.
Spends(tx) ==
  /\ Preverifies(tx)
  /\ IF tx.model = "phoenix" THEN tx.root \in Roots ELSE tx.nonce = chain.nonce[tx.from] + 1

TxSucceeds(tx) == Spends(tx) /\ CallSucceeds(tx)

\* What a transaction leaves behind: notes, the account and the stake.  When the
\* call fails the deposit goes back and the rest of the spending stays.
Withdraws(tx, model) ==
  /\ tx.call.fn \in {"unstake", "withdraw", "convert"} /\ CallSucceeds(tx)
  /\ tx.call.withdraw.receiver[1] = model

NewNotes(tx) ==
  LET out(owner, value, pushed) == IF pushed THEN <<[owner |-> owner, value |-> value]>> ELSE <<>>
  IN (IF tx.model = "phoenix"
      THEN out(tx.to, tx.transfer, tx.transfer > 0 \/ tx.obfuscated) \o out(tx.from, tx.change, TRUE)
             \o out(tx.from, tx.deposit, tx.deposit > 0 /\ ~CallSucceeds(tx))
      ELSE <<>>)
     \o out(tx.from, tx.call.value, Withdraws(tx, "phoenix"))

NewAccount(tx) ==
  LET cost == IF tx.model = "phoenix" THEN 0
              ELSE Fee + (IF tx.to = Someone THEN tx.transfer ELSE 0)
                       + (IF CallSucceeds(tx) THEN tx.deposit ELSE 0)
  IN chain.account[tx.from] + (IF Withdraws(tx, "moonlight") THEN tx.call.value ELSE 0) - cost

NewStake(tx) ==
  LET c == tx.call s == chain.stake[tx.from]
      t == CASE c.fn = "stake" -> [s EXCEPT !.owner = c.owner, !.amount = @ + c.value]
             [] c.fn = "unstake" -> [s EXCEPT !.amount = @ - c.value]
             [] c.fn = "withdraw" -> [s EXCEPT !.reward = @ - c.value]
             [] OTHER -> s
  IN IF ~CallSucceeds(tx) THEN s
     ELSE IF t.amount = 0 /\ t.reward = 0 THEN NoStake ELSE t

\* A note that takes the place of a reverted one is another note.
Push(notes, new) ==
  notes \o [i \in DOMAIN new |->
    [id |-> past.reverts * MaxNotes + Len(notes) + i, pos |-> Len(notes) + i - 1,
     owner |-> new[i].owner, value |-> new[i].value]]

\* The chain changes: what a running synchronisation or operation has read may be old.
Changes ==
  /\ changes < MaxEvents /\ changes' = changes + 1
  /\ settled' = FALSE
  /\ sync' = [s \in Syncs |-> IF sync[s] = Idle THEN Idle ELSE [sync[s] EXCEPT !.clean = FALSE]]
  /\ op' = IF op = NoOp THEN op ELSE [op EXCEPT !.sure = FALSE]
  /\ UNCHANGED <<live, spent, lastPos, outcome>>

\* A block is accepted; the oldest block that could be taken back is final.
Moves ==
  /\ Changes
  /\ LET states == Append(past.undo, chain)
     IN past' = [past EXCEPT !.undo = IF Len(states) > MaxDepth THEN Tail(states) ELSE states]

\* The notes some synchronisation has been given.
Seen == {pos \in 0 .. MaxNotes - 1 :
           \/ lastPos # <<>> /\ pos <= lastPos[1]
           \/ \E s \in Syncs : sync[s] # Idle /\ pos <= sync[s].pos}

\* try_revert: the node goes back to the state before one of its last blocks.
\* Notes disappear, and notes that were spent are unspent again.
Revert ==
  /\ Changes
  /\ \E i \in DOMAIN past.undo :
       LET to == past.undo[i]
           gone == {chain.notes[j] : j \in Len(to.notes) + 1 .. Len(chain.notes)}
       IN /\ chain' = to
          /\ past' = [undo |-> SubSeq(past.undo, 1, i - 1), reverts |-> past.reverts + 1,
                      orphans |-> past.orphans \cup Ids(gone),
                      replaced |-> past.replaced \cup (Seen \cap {n.pos : n \in gone}),
                      freed |-> past.freed \cup (chain.nullified \ to.nullified)]
  /\ UNCHANGED sentTx

\* A block with a note for someone, ...
Pay(owner, value) ==
  /\ Moves
  /\ Len(chain.notes) < MaxNotes
  /\ chain' = [chain EXCEPT !.notes = Push(@, <<[owner |-> owner, value |-> value]>>)]
  /\ UNCHANGED sentTx

\* ... with a reward, ...
Reward(p) ==
  /\ Moves
  /\ chain.stake[p].amount > 0 /\ chain.stake[p].reward = 0
  /\ chain' = [chain EXCEPT !.stake[p].reward = 1]
  /\ UNCHANGED sentTx

\* ... with a transaction of the same keys, from another wallet, ...
SpendElsewhere(n) ==
  /\ Moves
  /\ n.owner \in Profiles /\ n.id \notin chain.nullified
  /\ chain' = [chain EXCEPT !.nullified = @ \cup {n.id}]
  /\ UNCHANGED sentTx

\* ... or with the wallet's transaction.
Mine ==
  /\ sentTx # Refused
  /\ Moves
  /\ Len(chain.notes) + Len(NewNotes(sentTx)) <= MaxNotes
  /\ chain' = IF ~Spends(sentTx) THEN chain
              ELSE [notes |-> Push(chain.notes, NewNotes(sentTx)),
                    nullified |-> chain.nullified \cup
                      (IF sentTx.model = "phoenix" THEN Ids(sentTx.inputs) ELSE {}),
                    nonce |-> [chain.nonce EXCEPT ![sentTx.from] =
                      IF sentTx.model = "phoenix" THEN @ ELSE sentTx.nonce],
                    account |-> [chain.account EXCEPT ![sentTx.from] = NewAccount(sentTx)],
                    stake |-> [chain.stake EXCEPT ![sentTx.from] = NewStake(sentTx)]]
  /\ sentTx' = Refused

-----------------------------------------------------------------------------
(* The cache and sync_db *)

Position(note) == note.pos
Owned(notes, p) == SelectSeq(notes, LAMBDA n : n.owner = p)

\* The notes of a stream for all profiles, one profile after the other.
Found(notes) == FoldLeft(LAMBDA acc, p : acc \o Owned(notes, p), <<>>, ProfileOrder)

\* Mutated form of Begin: the position is saved before the notes are.
BeginSaving(s) ==
  LET from == IF lastPos = <<>> THEN 0 ELSE lastPos[1] + 1
      notes == SubSeq(chain.notes, from + 1, Len(chain.notes))
      pos == IF notes = <<>> THEN IF lastPos = <<>> THEN 0 ELSE lastPos[1] ELSE Position(Last(notes))
  IN /\ sync[s] = Idle
     /\ lastPos' = <<pos>>
     /\ sync' = [r \in Syncs |->
          IF r = s THEN [pc |-> "check", todo |-> Found(notes), isSpent |-> FALSE, profiles |-> ProfileOrder,
                         moving |-> <<>>, pos |-> pos, clean |-> \A q \in Syncs : sync[q] = Idle]
          ELSE IF sync[r] = Idle THEN Idle ELSE [sync[r] EXCEPT !.clean = FALSE]]
     /\ UNCHANGED <<chain, live, spent, op, sentTx, settled, outcome, changes, past>>

\* The position of the last note is read and the notes after it are streamed.
Begin(s) ==
  LET from == IF lastPos = <<>> THEN 0 ELSE lastPos[1] + 1
      notes == SubSeq(chain.notes, from + 1, Len(chain.notes))
      pos == IF notes = <<>> THEN IF lastPos = <<>> THEN 0 ELSE lastPos[1] ELSE Position(Last(notes))
  IN /\ sync[s] = Idle
     /\ sync' = [r \in Syncs |->
          IF r = s THEN [pc |-> "check", todo |-> Found(notes), isSpent |-> FALSE, profiles |-> ProfileOrder,
                         moving |-> <<>>, pos |-> pos, clean |-> \A q \in Syncs : sync[q] = Idle]
          ELSE IF sync[r] = Idle THEN Idle ELSE [sync[r] EXCEPT !.clean = FALSE]]
     /\ UNCHANGED <<chain, live, spent, lastPos, op, sentTx, settled, outcome, changes, past>>

\* A note of the stream: the node is asked for its nullifier ...
CheckNote(s) ==
  /\ sync[s].pc = "check" /\ sync[s].todo # <<>>
  /\ sync' = [sync EXCEPT ![s] = [@ EXCEPT !.pc = "insert",
                !.isSpent = ExistingNullifiers({Head(sync[s].todo).id}) # {}]]
  /\ UNCHANGED <<chain, live, spent, lastPos, op, sentTx, settled, outcome, changes, past>>

\* ... and it is put with the spent notes or with the others.
InsertNote(s) ==
  /\ sync[s].pc = "insert"
  /\ LET note == Head(sync[s].todo)
         into(cf) == [cf EXCEPT ![note.owner] = @ \cup {note}]
     IN IF sync[s].isSpent THEN spent' = into(spent) /\ UNCHANGED live
        ELSE live' = into(live) /\ UNCHANGED spent
  /\ sync' = [sync EXCEPT ![s] = [@ EXCEPT !.pc = "check", !.todo = Tail(@)]]
  /\ UNCHANGED <<chain, lastPos, op, sentTx, settled, outcome, changes, past>>

\* When all are in, the node is asked for the nullifiers of all unspent notes of
\* a profile.
CheckUnspent(s) ==
  /\ sync[s].pc = "check" /\ sync[s].todo = <<>> /\ sync[s].profiles # <<>>
  /\ LET p == Head(sync[s].profiles)
         existing == {n \in live[p] : n.id \in ExistingNullifiers(Ids(live[p]))}
     IN sync' = [sync EXCEPT ![s] = [@ EXCEPT !.pc = "move", !.moving = ByValue(existing)]]
  /\ UNCHANGED <<chain, live, spent, lastPos, op, sentTx, settled, outcome, changes, past>>

\* spend_notes: each is copied to the spent ones ...
MoveNote(s) ==
  /\ sync[s].pc = "move" /\ sync[s].moving # <<>>
  /\ LET note == Head(sync[s].moving)
     IN IF note \notin live[note.owner]
        THEN /\ sync' = [sync EXCEPT ![s] = Idle]     \* CacheDatabaseCorrupted
             /\ UNCHANGED spent
        ELSE /\ spent' = [spent EXCEPT ![note.owner] = @ \cup {note}]
             /\ sync' = [sync EXCEPT ![s].pc = "delete"]
  /\ UNCHANGED <<chain, live, lastPos, op, sentTx, settled, outcome, changes, past>>

\* ... and deleted.
DeleteNote(s) ==
  /\ sync[s].pc = "delete"
  /\ LET note == Head(sync[s].moving)
     IN live' = [live EXCEPT ![note.owner] = @ \ {note}]
  /\ sync' = [sync EXCEPT ![s] = [@ EXCEPT !.pc = "move", !.moving = Tail(@)]]
  /\ UNCHANGED <<chain, spent, lastPos, op, sentTx, settled, outcome, changes, past>>

NextProfile(s) ==
  /\ sync[s].pc = "move" /\ sync[s].moving = <<>>
  /\ sync' = [sync EXCEPT ![s] = [@ EXCEPT !.pc = "check", !.profiles = Tail(@)]]
  /\ UNCHANGED <<chain, live, spent, lastPos, op, sentTx, settled, outcome, changes, past>>

\* The position is saved last.
SavePosition(s) ==
  /\ sync[s].pc = "check" /\ sync[s].todo = <<>> /\ sync[s].profiles = <<>>
  /\ lastPos' = <<sync[s].pos>>
  /\ settled' = (settled \/ sync[s].clean)
  /\ sync' = [sync EXCEPT ![s] = Idle]
  /\ UNCHANGED <<chain, live, spent, op, sentTx, outcome, changes, past>>

\* A request fails, the task is aborted, or the wallet is stopped.
Break(s) ==
  /\ sync[s] # Idle
  /\ sync' = [sync EXCEPT ![s] = Idle]
  /\ UNCHANGED <<chain, live, spent, lastPos, op, sentTx, settled, outcome, changes, past>>

-----------------------------------------------------------------------------
(* Operations: what each asks the node for, in its order; what its notes have *)
(* to cover; and the transaction it builds                                     *)

Inputs(o) == [notes |-> o.notes, openings |-> o.openings, root |-> o.root, fee |-> Fee]
Steps(plan, cost, tx) == [plan |-> plan, cost |-> cost, tx |-> tx]

PhoenixTransfer(o) == Steps(<<"inputs", "root">>, o.amt + Fee,
  Phoenix(o.p, Someone, o.notes, o.openings, o.root, o.amt, TRUE, 0, Fee, NoCall))
MoonlightTransfer(o) == Steps(<<"nonce">>, 0, Moonlight(o.p, Someone, o.amt, 0, o.nonce, NoCall))
PhoenixExecute(o) == Steps(<<"inputs", "root">>, o.amt + Fee,
  Phoenix(o.p, o.p, o.notes, o.openings, o.root, 0, TRUE, o.amt, Fee, [fn |-> "execute"]))
MoonlightExecute(o) == Steps(<<"nonce">>, 0, Moonlight(o.p, NoOne, o.amt, o.amt, o.nonce, [fn |-> "execute"]))
PhoenixStakeOp(o) == Steps(<<"stakeOwner", "inputs", "root">>, o.amt + Fee,
  PhoenixStake(o.p, o.owner, Inputs(o), o.amt))
MoonlightStakeOp(o) == Steps(<<"nonce", "stakeOwner">>, 0, MoonlightStake(o.p, o.owner, o.amt, o.nonce))
PhoenixUnstakeOp(o) == Steps(<<"owner", "staked", "inputs", "root">>, Fee,
  PhoenixUnstake(o.p, o.owner, Inputs(o), o.value))
MoonlightUnstakeOp(o) == Steps(<<"nonce", "staked", "owner">>, 0,
  MoonlightUnstake(o.p, o.owner, o.value, o.nonce))
PhoenixStakeWithdraw(o) == Steps(<<"inputs", "root", "reward", "owner">>, Fee,
  PhoenixStakeReward(o.p, o.owner, Inputs(o), o.value))
MoonlightStakeWithdraw(o) == Steps(<<"nonce", "rewardOrNone", "owner">>, 0,
  MoonlightStakeReward(o.p, o.owner, o.value, o.nonce))
PhoenixToMoonlightOp(o) == Steps(<<"inputs", "root">>, o.amt + Fee, PhoenixToMoonlight(o.p, Inputs(o), o.amt))
MoonlightToPhoenixOp(o) == Steps(<<"nonce">>, 0, MoonlightToPhoenix(o.p, o.amt, o.nonce))
PhoenixDeploy(o) == Steps(<<"root", "inputs">>, Fee, PhoenixDeployment(o.p, Inputs(o)))
MoonlightDeploy(o) == Steps(<<"nonce">>, 0, MoonlightDeployment(o.p, o.nonce))

Operation(o) ==
  CASE o.kind = "phoenix_transfer"         -> PhoenixTransfer(o)
    [] o.kind = "moonlight_transfer"       -> MoonlightTransfer(o)
    [] o.kind = "phoenix_execute"          -> PhoenixExecute(o)
    [] o.kind = "moonlight_execute"        -> MoonlightExecute(o)
    [] o.kind = "phoenix_stake"            -> PhoenixStakeOp(o)
    [] o.kind = "moonlight_stake"          -> MoonlightStakeOp(o)
    [] o.kind = "phoenix_unstake"          -> PhoenixUnstakeOp(o)
    [] o.kind = "moonlight_unstake"        -> MoonlightUnstakeOp(o)
    [] o.kind = "phoenix_stake_withdraw"   -> PhoenixStakeWithdraw(o)
    [] o.kind = "moonlight_stake_withdraw" -> MoonlightStakeWithdraw(o)
    [] o.kind = "phoenix_to_moonlight"     -> PhoenixToMoonlightOp(o)
    [] o.kind = "moonlight_to_phoenix"     -> MoonlightToPhoenixOp(o)
    [] o.kind = "phoenix_deploy"           -> PhoenixDeploy(o)
    [] o.kind = "moonlight_deploy"         -> MoonlightDeploy(o)

NewOp(kind, p, amt, arg) ==
  [st |-> "asking", kind |-> kind, p |-> p, amt |-> amt, arg |-> arg, notes |-> {}, opened |-> {},
   openings |-> {}, root |-> <<>>, nonce |-> 0, owner |-> NoOne, value |-> 0, todo |-> <<>>, sure |-> FALSE]

opUnchanged == UNCHANGED <<chain, live, spent, lastPos, sync, settled, changes, past>>

\* The operations that name a stake owner, and those without an amount.
StakeKinds == {"phoenix_stake", "moonlight_stake"}
FixedKinds == {"phoenix_unstake", "moonlight_unstake", "phoenix_stake_withdraw", "moonlight_stake_withdraw",
               "phoenix_deploy", "moonlight_deploy"}

\* A user asks for an operation, one at a time; a stake of nothing is refused, a
\* transfer of nothing carries a memo.
Ask(kind, p, amt, arg) ==
  /\ kind \in StakeKinds => amt # 0
  /\ kind \notin StakeKinds => arg = NoOne
  /\ kind \in FixedKinds => amt = 0
  /\ LET o == NewOp(kind, p, amt, arg)
     IN op' = [o EXCEPT !.todo = Operation(o).plan,
                        !.sure = (settled /\ live[p] \subseteq OnChain(p))
                                   \/ Operation(o).tx.model = "moonlight"]
  /\ outcome' = NoOutcome
  /\ UNCHANGED sentTx /\ opUnchanged

\* Mutated form of NextNonce: the nonce of the account is used as it is.
CurrentNonce(p) == chain.nonce[p]
NextNonce(p) == chain.nonce[p] + 1

\* find_stake_owner_idx, and the owner of a new stake.
Owner(p) == chain.stake[p].owner
StakeOwner(o) == IF Owner(o.p) # NoOne THEN Owner(o.p) ELSE IF o.arg = NoOne THEN o.p ELSE o.arg

\* The answers that end an operation with an error.
Refuses(o, what) ==
  \/ what = "owner" /\ Owner(o.p) \notin Profiles                      \* NotStaked, Unauthorized
  \/ what = "stakeOwner" /\ \/ o.arg \notin {NoOne, StakeOwner(o)}     \* Unauthorized
                            \/ Owner(o.p) \notin Profiles \cup {NoOne}
  \/ what = "staked" /\ chain.stake[o.p].amount = 0                    \* NotStaked
  \/ what = "rewardOrNone" /\ chain.stake[o.p] = NoStake               \* NoReward
  \/ what = "inputs" /\ PickNotes(live[o.p], Operation(o).cost) = {}   \* NotEnoughBalance

Fetched(o, what) ==
  LET next == [o EXCEPT !.todo = Tail(@)] IN
  CASE what = "nonce"      -> [next EXCEPT !.nonce = NextNonce(o.p)]
    [] what = "root"       -> [next EXCEPT !.root = Root]
    [] what = "owner"      -> [next EXCEPT !.owner = Owner(o.p)]
    [] what = "stakeOwner" -> [next EXCEPT !.owner = StakeOwner(o)]
    [] what = "staked"     -> [next EXCEPT !.value = chain.stake[o.p].amount]
    [] what \in {"reward", "rewardOrNone"} -> [next EXCEPT !.value = chain.stake[o.p].reward]
    [] what = "inputs"     -> LET picked == PickNotes(live[o.p], Operation(o).cost)
                              IN [next EXCEPT !.notes = picked, !.opened = picked]

\* The opening of the note that took the place of a reverted one.
OtherLeaf == <<0>>

\* An answer of the node or of the cache; after the notes the node is asked for
\* their openings, one by one.
Fetch ==
  /\ op # NoOp /\ op.opened = {} /\ op.todo # <<>>
  /\ op' = IF Refuses(op, Head(op.todo)) THEN NoOp ELSE Fetched(op, Head(op.todo))
  /\ UNCHANGED <<sentTx, outcome>> /\ opUnchanged

FetchOpening ==
  /\ op # NoOp /\ op.opened # {}
  /\ LET note == CHOOSE n \in op.opened : TRUE
         opening == IF note \in OnChain(op.p) THEN Root ELSE OtherLeaf
     IN op' = IF note.pos >= Len(chain.notes) THEN NoOp       \* NoteNotFound
              ELSE [op EXCEPT !.opened = @ \ {note}, !.openings = @ \cup {opening}]
  /\ UNCHANGED <<sentTx, outcome>> /\ opUnchanged

\* What the node refuses and the wallet does not check: a withdrawal or a
\* conversion of nothing, a new stake below the minimum, and a public
\* transaction that its account cannot pay.
Unchecked(tx) ==
  \/ tx.call.fn \in {"withdraw", "convert"} /\ tx.call.value = 0
  \/ tx.call.fn = "stake" /\ chain.stake[tx.from].amount = 0 /\ tx.call.value < MinStake
  \/ tx.model = "moonlight" /\ MaxCost(tx) > chain.account[tx.from]

\* With all answers the transaction is built, proved, preverified and propagated.
Propagate ==
  /\ op # NoOp /\ op.opened = {} /\ op.todo = <<>>
  /\ LET tx == Operation(op).tx
     IN /\ sentTx' = IF tx # Refused /\ Preverifies(tx) THEN tx ELSE Refused
        /\ outcome' = [sure |-> op.sure /\ ~(tx # Refused /\ Unchecked(tx)),
                       ok |-> tx # Refused /\ TxSucceeds(tx)]
  /\ op' = NoOp /\ opUnchanged

\* A request fails, or the user stops it.
GiveUp ==
  /\ op # NoOp /\ op' = NoOp
  /\ UNCHANGED <<sentTx, outcome>> /\ opUnchanged

-----------------------------------------------------------------------------
WalletNext ==
  \/ \E owner \in Profiles \cup {Someone}, v \in Payments : Pay(owner, v)
  \/ \E p \in Profiles : Reward(p)
  \/ \E i \in DOMAIN chain.notes : SpendElsewhere(chain.notes[i])
  \/ Mine
  \/ Revert
  \/ \E s \in Syncs : Begin(s) \/ CheckNote(s) \/ InsertNote(s) \/ CheckUnspent(s) \/ MoveNote(s)
                       \/ DeleteNote(s) \/ NextProfile(s) \/ SavePosition(s) \/ Break(s)
  \/ /\ op = NoOp /\ sentTx = Refused
     /\ \E kind \in Kinds, p \in Users, amt \in Amounts, arg \in Profiles \cup {NoOne} : Ask(kind, p, amt, arg)
  \/ Fetch \/ FetchOpening \/ Propagate \/ GiveUp

WalletSpec == WalletInit /\ [][WalletNext]_walletVars

-----------------------------------------------------------------------------
(* What a user may rely on *)

\* Whatever synchronisations broke off or ran into each other before, one that
\* runs undisturbed leaves exactly the unspent notes of every profile in the
\* cache: a note is neither skipped by the saved position nor offered again
\* after it was spent, and the spent ones are kept for the history.  A revert
\* of the node leaves three kinds of notes it does not answer for: those that
\* were reverted may stay in the cache, those at positions it had already seen
\* are skipped, and those that are unspent again may still count as spent.
CacheSettled ==
  settled => \A p \in Profiles :
    LET known == {n \in OnChain(p) : n.pos \notin past.replaced
                                     /\ n.id \notin past.freed \ chain.nullified}
    IN /\ \A n \in known : /\ n \in live[p] <=> n.id \notin chain.nullified
                           /\ n \in spent[p] <=> n.id \in chain.nullified
       /\ \A n \in live[p] : n.id \notin chain.nullified
       /\ Ids((live[p] \cup spent[p]) \ OnChain(p)) \subseteq past.orphans

\* The balance that a settled cache shows as spendable is what a transaction can
\* be built for: notes are found exactly up to it, they cover the cost, and they
\* are as many as a transaction may have.
PicksCover ==
  settled => \A p \in Profiles : LET balance == Balance(live[p]) IN \A cost \in 1 .. balance.value + 1 :
    LET picked == PickNotes(live[p], cost) IN
    IF cost > balance.spendable THEN picked = {}
    ELSE /\ picked \subseteq live[p] /\ ValueOf(picked) >= cost
         /\ Cardinality(picked) = IF Cardinality(live[p]) < MaxInputs THEN Cardinality(live[p]) ELSE MaxInputs

\* An operation that starts from a settled cache without reverted notes, while
\* the chain stands still, is never refused by the node nor by the contracts:
\* its answers fit each other, the stake's owner signs, and a withdrawal is tied
\* to the inputs or the nonce of its own transaction.  What the wallet leaves
\* to the node to check (Unchecked) is the exception.
TransactionsAccepted == outcome.sure => outcome.ok

\* What the wallet shows as spendable can be spent: the notes it picks cover the
\* cost, and the transaction it builds from a settled cache is accepted.
OperationsSucceed == PicksCover /\ TransactionsAccepted
=============================================================================
