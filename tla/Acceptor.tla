------------------------------ MODULE Acceptor ------------------------------
(***************************************************************************)
(* The acceptor of one node (node/src/chain/acceptor.rs): the ledger in    *)
(* RocksDB, the block labels that rolling finality maintains, the state    *)
(* commits of the VM, and the three ways in which the tip moves: accepting *)
(* a successor, falling back to a lower-iteration block of the same        *)
(* height, and recovering from a stalled fork.  Every operation is split   *)
(* at its durable writes, and the process may crash between any two.       *)
(*                                                                         *)
(* A block stands for its header.  Its state root is identified with the   *)
(* block itself: every accepted block mints the block reward, so no two    *)
(* blocks have the same root.                                              *)
(***************************************************************************)
EXTENDS RollingFinality

CONSTANTS
  Blocks,       \* the headers of the block tree the network can produce
  Genesis,      \* the genesis block
  NoBlock,      \* "no entry", for a missing height and for "nothing pending"
  Parent,       \* header.prev_block_hash
  Height,       \* header.height
  Iter,         \* header.iteration
  Pni,          \* previous non-attested iterations, from header.failed_iterations
  MaxHeight,    \* bound: no block above this height is accepted
  MaxCrashes,   \* bound: number of crashes
  MaxReverts,   \* bound: number of reverts started
  MaxDbErrors,  \* bound: number of ledger transactions that fail to commit
  StallRecovery \* whether the chain may be found stalled on a fork

Heights == 0..MaxHeight

ASSUME TreeAssumption ==
  /\ Genesis \in Blocks
  /\ NoBlock \notin Blocks
  /\ MaxHeight \in Nat
  /\ Height \in [Blocks -> Heights]
  /\ Parent \in [Blocks -> Blocks]
  /\ Iter \in [Blocks -> Nat]
  /\ Pni \in [Blocks -> Nat]
  /\ Height[Genesis] = 0
  /\ \A b \in Blocks \ {Genesis} : Height[b] = Height[Parent[b]] + 1

ASSUME BoundAssumption ==
  /\ MaxCrashes \in Nat
  /\ MaxReverts \in Nat
  /\ MaxDbErrors \in Nat
  /\ StallRecovery \in BOOLEAN

VARIABLES
  \* RocksDB, durable
  blocks,    \* CF_LEDGER: the stored blocks, by hash
  blockAt,   \* CF_LEDGER_HEIGHT: height -> hash
  labelAt,   \* CF_LEDGER_HEIGHT: height -> label
  mdHash,    \* MD_HASH_KEY: the register that names the tip
  \* the VM
  commits,   \* durable: the commits a session can be opened on
  stateId,   \* durable: the state.id file, the last finalized root
  vmBase,    \* RuskTip.base, in memory
  vmCurrent, \* RuskTip.current, in memory
  \* the acceptor, in memory
  tip,       \* Acceptor.tip
  pc,        \* where the running operation stands between durable writes
  pending,   \* the block the running operation will accept or is accepting
  target,    \* the block whose state the running revert goes to
  toMerge,   \* old_finals_to_merge, not merged yet
  newBase,   \* the new final state of the running finalization
  origin,    \* which caller started the running revert
  \* spent budgets
  crashes, reverts, dbErrors

ledger == <<blocks, blockAt, labelAt, mdHash>>
vm     == <<commits, stateId, vmBase, vmCurrent>>
op     == <<pc, pending, target, toMerge, newBase, origin>>
budget == <<crashes, reverts, dbErrors>>
vars   == <<ledger, vm, tip, op, budget>>

Phases == {"idle", "vmAccepted", "dbStored", "merging", "vmReverted",
           "dbDeleted", "revertDone", "down", "regenerated"}

Origins == {"none", "fallback", "stalled", "operator"}

TypeOK ==
  /\ blocks \in SUBSET Blocks
  /\ blockAt \in [Heights -> Blocks \cup {NoBlock}]
  /\ labelAt \in [Heights -> Labels]
  /\ mdHash \in Blocks
  /\ commits \in SUBSET Blocks
  /\ stateId \in Blocks
  /\ vmBase \in Blocks
  /\ vmCurrent \in Blocks
  /\ tip \in Blocks
  /\ pc \in Phases
  /\ pending \in Blocks \cup {NoBlock}
  /\ target \in Blocks
  /\ toMerge \in SUBSET Blocks
  /\ newBase \in Blocks
  /\ origin \in Origins
  /\ crashes \in 0..MaxCrashes
  /\ reverts \in 0..MaxReverts
  /\ dbErrors \in 0..MaxDbErrors

-----------------------------------------------------------------------------
(* Rolling finality over this ledger *)

\* The counts the stored labels carry.
After == [h \in Heights |->
            IF blockAt[h] = NoBlock THEN 0 ELSE ConfirmedAfter(Pni[blockAt[h]])]

\* The heights rolling_finality turns Final when b is accepted; a block with
\* PNI > 0 runs no scan.
NewFinals(b, lfb) ==
  IF Pni[b] = 0 THEN FinalHeights(labelAt, After, lfb, Height[b]) ELSE {}

\* All labels once b is stored.
LabelsAfter(b, lfb) ==
  [h \in Heights |->
     IF h = Height[b] THEN BlockLabel(Pni[b])
     ELSE IF Pni[b] = 0 THEN ScannedLabel(labelAt, After, lfb, Height[b], h)
     ELSE labelAt[h]]

-----------------------------------------------------------------------------
(* The node starts on an empty database: load_tip stores the genesis block. *)
Init ==
  /\ blocks = {Genesis}
  /\ blockAt = [h \in Heights |-> IF h = 0 THEN Genesis ELSE NoBlock]
  /\ labelAt = [h \in Heights |-> IF h = 0 THEN "Final" ELSE "None"]
  /\ mdHash = Genesis
  /\ commits = {Genesis}
  /\ stateId = Genesis
  /\ vmBase = Genesis
  /\ vmCurrent = Genesis
  /\ tip = Genesis
  /\ pc = "idle"
  /\ pending = NoBlock
  /\ target = Genesis
  /\ toMerge = {}
  /\ newBase = Genesis
  /\ origin = "none"
  /\ crashes = 0
  /\ reverts = 0
  /\ dbErrors = 0

-----------------------------------------------------------------------------
(* try_accept_block *)

\* Mutated form of ValidSuccessor: the height is checked, the parent is not.
ValidByHeight(b, prev) ==
  /\ b # Genesis
  /\ Height[b] = Height[prev] + 1
  /\ b \notin blocks

\* Header checks against the tip: height, prev_block_hash, not in the ledger.
ValidSuccessor(b, prev) ==
  /\ b # Genesis
  /\ Parent[b] = prev
  /\ b \notin blocks

\* vm.accept executes the block on the current root, which must be the tip's
\* (new_block_session), and commits the resulting state.
VmAccept(b) ==
  /\ \/ pc = "idle"
     \/ pc = "revertDone" /\ b = pending
  /\ ValidSuccessor(b, tip)
  /\ vmCurrent = tip
  /\ commits' = commits \cup {b}
  /\ vmCurrent' = b
  /\ pc' = "vmAccepted"
  /\ pending' = b
  /\ origin' = "none"
  /\ UNCHANGED <<ledger, stateId, vmBase, tip, target, toMerge, newBase, budget>>

\* Mutated form of OldFinals: the new final state is merged as well.
OldFinalsAndNew(finals, top, lfb) == finals \cup {lfb}

\* old_finals_to_merge: the new finals but the last, and the previous one.
OldFinals(finals, top, lfb) == (finals \ {top}) \cup {lfb}

\* The ledger transaction: labels of the older blocks, then the block itself
\* and the register; then the tip in memory.
StoreBlock(lfb) ==
  LET finals == NewFinals(pending, lfb) IN
  /\ pc = "vmAccepted"
  /\ IsLastFinal(labelAt, lfb, Height[pending])
  /\ labelAt' = LabelsAfter(pending, lfb)
  /\ blockAt' = [blockAt EXCEPT ![Height[pending]] = pending]
  /\ blocks' = blocks \cup {pending}
  /\ mdHash' = pending
  /\ tip' = pending
  /\ pending' = NoBlock
  /\ \/ /\ finals = {}
        /\ pc' = "idle"
        /\ UNCHANGED <<toMerge, newBase>>
     \/ \E top \in finals :
          /\ \A h \in finals : h <= top
          /\ newBase' = blockAt[top]
          /\ toMerge' = {blockAt[h] : h \in OldFinals(finals, top, lfb)}
          /\ pc' = "dbStored"
  /\ UNCHANGED <<vm, target, origin, budget>>

\* The transaction fails: the error leaves try_accept_block, the VM keeps the
\* commit and the current root it has just moved to.
StoreFails ==
  /\ pc = "vmAccepted"
  /\ dbErrors < MaxDbErrors
  /\ dbErrors' = dbErrors + 1
  /\ pc' = "idle"
  /\ pending' = NoBlock
  /\ UNCHANGED <<ledger, vm, tip, target, toMerge, newBase, origin, crashes, reverts>>

\* finalize_state, first half: RuskTip.base.
SetBase ==
  /\ pc = "dbStored"
  /\ vmBase' = newBase
  /\ pc' = "merging"
  /\ UNCHANGED <<ledger, commits, stateId, vmCurrent, tip, pending, target,
                 toMerge, newBase, origin, budget>>

\* The order of old_finals_to_merge: the new finals upwards, the previous last
\* final block (the lowest of all) at the end.
MergesBefore(d, e) ==
  IF \A f \in toMerge : Height[e] <= Height[f] THEN TRUE
  ELSE /\ Height[d] <= Height[e]
       /\ \E f \in toMerge : Height[f] < Height[d]

\* Mutated form of CommitsWithout: finalize_commit does not close the commit.
CommitsKept(d) == commits

CommitsWithout(d) == commits \ {d}

\* vm.finalize_commit: no session can be opened on a merged commit.
MergeCommit(d) ==
  /\ pc = "merging"
  /\ d \in toMerge
  /\ \A e \in toMerge \ {d} : MergesBefore(d, e)
  /\ commits' = CommitsWithout(d)
  /\ toMerge' = toMerge \ {d}
  /\ UNCHANGED <<ledger, stateId, vmBase, vmCurrent, tip, pc, pending, target,
                 newBase, origin, budget>>

\* Mutated form of WriteStateId: the file is not written.
StateIdNotWritten ==
  /\ pc = "merging"
  /\ toMerge = {}
  /\ pc' = "idle"
  /\ UNCHANGED <<ledger, vm, tip, pending, target, toMerge, newBase, origin, budget>>

\* finalize_state, last write: the state.id file.
WriteStateId ==
  /\ pc = "merging"
  /\ toMerge = {}
  /\ stateId' = vmBase
  /\ pc' = "idle"
  /\ UNCHANGED <<ledger, commits, vmBase, vmCurrent, tip, pending, target,
                 toMerge, newBase, origin, budget>>

-----------------------------------------------------------------------------
(* try_revert and its callers *)

\* verify_header_against_local: the remote block must be a valid successor of
\* the local block's parent, whose state must still be open in the VM.
VerifyAgainstLocal(local, remote) ==
  /\ ValidSuccessor(remote, Parent[local])
  /\ Parent[local] \in commits

\* The VM moves first.
StartRevert(to, remote, who) ==
  /\ pc = "idle"
  /\ reverts < MaxReverts
  /\ to \in commits
  /\ vmCurrent' = to
  /\ target' = to
  /\ pending' = remote
  /\ origin' = who
  /\ pc' = "vmReverted"
  /\ reverts' = reverts + 1
  /\ UNCHANGED <<ledger, commits, stateId, vmBase, tip, toMerge, newBase,
                 crashes, dbErrors>>

\* Mutated form of AboveLastFinal: get_last_final_block is not consulted.
AnyHeight(remote) == TRUE

AboveLastFinal(remote) ==
  \E lfb \in Heights : /\ IsLastFinal(labelAt, lfb, Height[tip] + 1)
                       /\ Height[remote] > lfb

\* InSync: a remote block of a height the ledger already has replaces the local
\* one if it is above the last final block and has a lower iteration.
Fallback(remote) ==
  LET local == blockAt[Height[remote]] IN
  /\ pc = "idle"
  /\ Height[remote] \in 1..Height[tip]
  /\ remote \notin blocks
  /\ AboveLastFinal(remote)
  /\ Parent[remote] \in blocks
  /\ Iter[remote] < Iter[local]
  /\ VerifyAgainstLocal(local, remote)
  /\ StartRevert(Parent[remote], remote, "fallback")

\* Stalled: any verified block that conflicts with the ledger is taken for the
\* main branch.
StalledOnFork(remote) ==
  LET local == blockAt[Height[remote]] IN
  /\ StallRecovery
  /\ pc = "idle"
  /\ Height[remote] \in 1..Height[tip]
  /\ remote \notin blocks
  /\ VerifyAgainstLocal(local, remote)
  /\ StartRevert(Parent[local], remote, "stalled")

\* revert_last_final: the operator's command; the ledger must hold the block.
RevertLastFinal ==
  /\ vmBase \in blocks
  /\ StartRevert(vmBase, NoBlock, "operator")

\* Mutated form of Deleted: the loop stops one block early.
DeletedAllButOne(h) == h > Height[target] + 1

Deleted(h) == h > Height[target]

\* One ledger transaction deletes every block above the target.
DeleteBlocks ==
  /\ pc = "vmReverted"
  /\ blocks' = {b \in blocks : ~Deleted(Height[b])}
  /\ blockAt' = [h \in Heights |-> IF Deleted(h) THEN NoBlock ELSE blockAt[h]]
  /\ labelAt' = [h \in Heights |-> IF Deleted(h) THEN "None" ELSE labelAt[h]]
  /\ pc' = "dbDeleted"
  /\ UNCHANGED <<mdHash, vm, tip, pending, target, toMerge, newBase, origin, budget>>

\* Mutated form of UpdateTip: the register gets the pending block.
UpdateTipToPending ==
  /\ pc = "dbDeleted"
  /\ target \in blocks
  /\ mdHash' = pending
  /\ tip' = target
  /\ pc' = IF pending = NoBlock THEN "idle" ELSE "revertDone"
  /\ UNCHANGED <<blocks, blockAt, labelAt, vm, pending, target, toMerge, newBase,
                 origin, budget>>

\* A second transaction writes the register; then the tip in memory.
UpdateTip ==
  /\ pc = "dbDeleted"
  /\ target \in blocks
  /\ mdHash' = target
  /\ tip' = target
  /\ pc' = IF pending = NoBlock THEN "idle" ELSE "revertDone"
  /\ UNCHANGED <<blocks, blockAt, labelAt, vm, pending, target, toMerge, newBase,
                 origin, budget>>

\* try_accept_block refuses the remote block after the revert (its faults do
\* not verify): the node stays on the target.
RejectPending ==
  /\ pc = "revertDone"
  /\ pc' = "idle"
  /\ pending' = NoBlock
  /\ UNCHANGED <<ledger, vm, tip, target, toMerge, newBase, origin, budget>>

-----------------------------------------------------------------------------
(* Crash and restart *)

Crash ==
  /\ pc \notin {"down", "regenerated"}
  /\ crashes < MaxCrashes
  /\ crashes' = crashes + 1
  /\ pc' = "down"
  /\ UNCHANGED <<ledger, vm, tip, pending, target, toMerge, newBase, origin,
                 reverts, dbErrors>>

\* Mutated form of RestoredRoot: the VM stays on the finalized root.
FinalizedRoot == stateId

\* init_consensus moves the VM from the finalized root to the tip's.
RestoredRoot == IF Height[mdHash] > 0 THEN mdHash ELSE stateId

\* load_tip and init_consensus: the tip is the block the register names, the VM
\* opens on the state.id root and moves to the tip's commit.
Restart ==
  /\ pc = "down"
  /\ mdHash \in blocks
  /\ mdHash \in commits
  /\ tip' = mdHash
  /\ vmBase' = stateId
  /\ vmCurrent' = RestoredRoot
  /\ pc' = "idle"
  /\ pending' = NoBlock
  /\ toMerge' = {}
  /\ origin' = "none"
  /\ UNCHANGED <<ledger, commits, stateId, target, newBase, budget>>

\* load_tip with a register that names a deleted block: the lookup yields None,
\* so a new genesis block is generated on the VM's root and stored at height 0.
\* What follows is not modelled.
RestartRegenerated ==
  /\ pc = "down"
  /\ mdHash \notin blocks
  /\ vmBase' = stateId
  /\ vmCurrent' = stateId
  /\ pc' = "regenerated"
  /\ UNCHANGED <<ledger, commits, stateId, tip, pending, target, toMerge,
                 newBase, origin, budget>>

Next ==
  \/ \E b \in Blocks : VmAccept(b)
  \/ \E lfb \in Heights : StoreBlock(lfb)
  \/ StoreFails
  \/ SetBase
  \/ \E d \in Blocks : MergeCommit(d)
  \/ WriteStateId
  \/ \E b \in Blocks : Fallback(b)
  \/ \E b \in Blocks : StalledOnFork(b)
  \/ RevertLastFinal
  \/ DeleteBlocks
  \/ UpdateTip
  \/ RejectPending
  \/ Crash
  \/ Restart
  \/ RestartRegenerated

Spec == Init /\ [][Next]_vars

-----------------------------------------------------------------------------
(* Properties *)

\* The height of the highest stored block.
IsTop(n) ==
  /\ blockAt[n] # NoBlock
  /\ \A h \in Heights : h > n => blockAt[h] = NoBlock

\* The heights 0..n name a parent-linked chain from genesis, and nothing is
\* stored above n or off that chain.
ChainTo(n) ==
  /\ \A h \in 0..n : /\ blockAt[h] \in blocks
                     /\ Height[blockAt[h]] = h
                     /\ labelAt[h] # "None"
                     /\ h > 0 => Parent[blockAt[h]] = blockAt[h - 1]
  /\ \A h \in Heights : h > n => blockAt[h] = NoBlock /\ labelAt[h] = "None"
  /\ \A b \in blocks : Height[b] <= n /\ blockAt[Height[b]] = b

\* The two column families of the ledger agree on one chain after every prefix
\* of every operation (store_block, delete_block), crashes included.
LedgerLinked == \E n \in Heights : ChainTo(n)

\* rolling_finality's own assumption ("This should be a bug" otherwise): the
\* Final labels are a prefix of the chain.
FinalPrefix ==
  \A g, h \in Heights : g < h /\ labelAt[h] = "Final" => labelAt[g] = "Final"

\* Every state a revert may ask for is open in the VM: the last final block's
\* and that of every block above it, whatever was merged, leaked by a crash or
\* reverted before (finalize_state merges only older commits).
RevertTargetsOpen ==
  \A h \in Heights :
    /\ blockAt[h] # NoBlock
    /\ h = MaxHeight \/ labelAt[h + 1] # "Final"
    => blockAt[h] \in commits

\* Between operations the ledger, its register, the acceptor and the VM are at
\* the same block; after a failed ledger transaction the VM is one block ahead,
\* and init_consensus leaves it on the finalized root when the tip is genesis.
TipAgreement ==
  pc = "idle" =>
    /\ mdHash = tip
    /\ IsTop(Height[tip]) /\ blockAt[Height[tip]] = tip
    /\ \/ vmCurrent = tip
       \/ dbErrors > 0 /\ vmCurrent \notin blocks /\ Parent[vmCurrent] = tip
       \/ crashes > 0 /\ tip = Genesis /\ vmCurrent = stateId

\* Without a crash, the VM's finalized root is the last final block's state
\* whenever no operation is running.
BaseIsLastFinal ==
  pc = "idle" =>
    /\ vmBase = stateId
    /\ \E h \in Heights : /\ IsLastFinal(labelAt, h, Height[tip] + 1)
                          /\ blockAt[h] = vmBase

\* rolling_finality leaves nothing behind: when the tip is Attested, either all
\* below it is final or some block above the last final one has not yet been
\* buried as deep as its label asks.
FinalityProgress ==
  \A n, lfb \in Heights :
    (pc = "idle" /\ IsTop(n) /\ labelAt[n] = "Attested" /\ IsLastFinal(labelAt, lfb, n)) =>
      \/ lfb = n - 1
      \/ \E g \in (lfb + 1)..(n - 1) :
           labelAt[g] # "Confirmed" /\ n - g < After[g]

\* What is Final stays Final, with the same block.
KeepsFinal ==
  \A h \in Heights : labelAt[h] = "Final" =>
                       labelAt'[h] = "Final" /\ blockAt'[h] = blockAt[h]

\* No step of any operation removes or replaces a Final block.
FinalImmutable == [][KeepsFinal]_vars

\* The abstract ledger: the chain of CF_LEDGER_HEIGHT and the heights it labels
\* Final.
FinalNow == {h \in Heights : labelAt[h] = "Final"}

Ledger == INSTANCE FinalLedger WITH chain <- blockAt, final <- FinalNow

\* Without a crash the acceptor implements the ledger it promises: whatever
\* writes an operation is split into, the stored chain only grows by a child of
\* its last block or is cut back to a block that is not below the last final
\* one, and finality moves only when a block is stored.
ImplementsLedger == Ledger!LedgerSpec

\* A fallback never removes a Final block, even when a crash has separated the
\* labels from the VM's finalized root.
FallbackKeepsFinal == [][origin = "fallback" => KeepsFinal]_vars

\* load_tip never meets a register that names a block the ledger lacks.
RegisterFound == pc # "regenerated"

-----------------------------------------------------------------------------
(* The inductive strengthening of LedgerLinked, FinalPrefix and              *)
(* RevertTargetsOpen: what every phase of an operation knows.                *)

\* The highest stored block: the one the register names, unless a revert has
\* deleted it and not yet rewritten the register.
TopBlock == IF pc = "dbDeleted" \/ mdHash \notin blocks THEN target ELSE mdHash

RegisterInv ==
  /\ pc \notin {"dbDeleted", "down", "regenerated"} => mdHash = tip /\ tip \in blocks
  /\ pc = "dbDeleted" /\ mdHash \in blocks => mdHash = target

PhaseInv ==
  /\ pc = "vmAccepted" => /\ pending \in Blocks \ (blocks \cup {Genesis})
                          /\ Parent[pending] = tip
                          /\ pending \in commits
  /\ pc = "vmReverted" => target \in blocks /\ target \in commits
  /\ pc \in {"dbStored", "merging"} =>
       \A d \in toMerge : /\ Height[d] < MaxHeight
                          /\ labelAt[Height[d] + 1] = "Final"

AcceptorInv ==
  /\ TypeOK
  /\ TopBlock \in blocks
  /\ ChainTo(Height[TopBlock])
  /\ FinalPrefix
  /\ RevertTargetsOpen
  /\ RegisterInv
  /\ PhaseInv
=============================================================================
