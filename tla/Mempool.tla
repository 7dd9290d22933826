------------------------------- MODULE Mempool -------------------------------
(***************************************************************************)
(* The mempool of one node (node/src/mempool.rs and the mempool column     *)
(* families of database/rocksdb.rs), with the three other parties that     *)
(* write it: the acceptor, which removes the transactions of an accepted   *)
(* block and resubmits those of a reverted one; the block generator, which *)
(* discards what cannot be executed; and a crash.                          *)
(*                                                                         *)
(* check_tx reads in one database view, asks the VM, reads in a second     *)
(* view and writes in a transaction of its own, and the others may act     *)
(* between any two of these.  A database transaction that loops over       *)
(* transactions is one step per element; nothing else moves until its      *)
(* batch is done.  The VM's state and the ledger are the same chain here.  *)
(***************************************************************************)
EXTENDS Integers, FiniteSets, Sequences

CONSTANTS
  Txs,         \* transactions, by hash
  NoTx,        \* "no entry"
  Nullifiers,  \* the spending ids of Phoenix transactions
  Accounts,    \* the senders of Moonlight transactions
  MaxNonce,    \* bound: nonces are 1..MaxNonce
  ToSpendIds,  \* [Txs -> set of spending ids]
  GasPrice,    \* [Txs -> Nat]
  MaxTxnCount, \* conf.max_mempool_txn_count
  MaxBlocks,   \* bound: length of the chain
  MaxReverts,  \* bound: number of reverts
  MaxDiscards, \* bound: number of calls that discard transactions
  MaxCrashes   \* bound: number of crashes

AccountNonces == Accounts \X (1..MaxNonce)

SpendIds == Nullifiers \cup AccountNonces

\* A Moonlight transaction has one spending id, its sender and nonce.
IsMoonlight(t) == \E id \in AccountNonces : ToSpendIds[t] = {id}

ASSUME TxAssumption ==
  /\ NoTx \notin Txs
  /\ MaxNonce \in Nat
  /\ Nullifiers \cap AccountNonces = {}
  /\ ToSpendIds \in [Txs -> SUBSET SpendIds]
  /\ \A t \in Txs : IsMoonlight(t) \/ ToSpendIds[t] \subseteq Nullifiers
  /\ GasPrice \in [Txs -> Nat]

ASSUME MempoolBounds ==
  /\ MaxTxnCount \in Nat
  /\ MaxBlocks \in Nat
  /\ MaxReverts \in Nat
  /\ MaxDiscards \in Nat
  /\ MaxCrashes \in Nat

VARIABLES
  pool,     \* mempool_cf (and fees_cf, which has the same transactions)
  index,    \* spending_id_cf: spending id -> transaction
  chain,    \* the accepted blocks, as sets of transactions
  included, \* the transactions of the accepted block not yet cleaned up
  batch,    \* the running looping transaction and what it has still to do
  check,    \* the running check_tx
  reverts, discards, crashes

vars == <<pool, index, chain, included, batch, check, reverts, discards, crashes>>

BatchOps == {"none", "cleanup", "resubmit", "expire", "discard"}

CheckPhases == {"idle", "viewed", "future", "ready"}

NoBatch == [op |-> "none", todo |-> {}]

NoCheck == [phase |-> "idle", tx |-> NoTx, base |-> 0]

TypeOK ==
  /\ pool \subseteq Txs
  /\ index \in [SpendIds -> Txs \cup {NoTx}]
  /\ chain \in Seq(SUBSET Txs)
  /\ included \subseteq Txs
  /\ batch \in [op : BatchOps, todo : SUBSET Txs]
  /\ check \in [phase : CheckPhases, tx : Txs \cup {NoTx}, base : Nat]
  /\ check.phase # "idle" => check.tx \in Txs
  /\ reverts \in Nat
  /\ discards \in Nat
  /\ crashes \in Nat

Init ==
  /\ pool = {}
  /\ index = [id \in SpendIds |-> NoTx]
  /\ chain = <<>>
  /\ included = {}
  /\ batch = NoBatch
  /\ check = NoCheck
  /\ reverts = 0 /\ discards = 0 /\ crashes = 0

-----------------------------------------------------------------------------
(* The ledger and the account state *)

LedgerTxs == UNION {chain[i] : i \in 1..Len(chain)}

Spent == UNION {ToSpendIds[t] : t \in LedgerTxs}

\* The nonces of an account are spent in order: this is the last one.
AccountNonce(a) == Cardinality({n \in 1..MaxNonce : <<a, n>> \in Spent})

\* t's nonce is the next one, once the transactions of B are executed.
NonceReady(t, B) ==
  \A a \in Accounts, n \in 1..MaxNonce : ToSpendIds[t] = {<<a, n>>} =>
    \A k \in 1..(n - 1) :
      <<a, k>> \in Spent \/ \E u \in B : ToSpendIds[u] = {<<a, k>>}

\* A block the VM executes in full.
Executable(B) ==
  \A t \in B :
    /\ ToSpendIds[t] \cap Spent = {}
    /\ \A u \in B \ {t} : ToSpendIds[t] \cap ToSpendIds[u] = {}
    /\ NonceReady(t, B)

-----------------------------------------------------------------------------
(* Writes to the mempool column families *)

\* store_mempool_tx: an entry of the index is overwritten.
Store(t) ==
  /\ pool' = pool \cup {t}
  /\ index' = [id \in SpendIds |-> IF id \in ToSpendIds[t] THEN t ELSE index[id]]

\* mempool_txs_by_spendable_ids
ByIds(ids) == {index[id] : id \in ids} \ {NoTx}

\* Mutated form of Unindexed: the secondary index is not deleted.
IndexKept(D) == index

\* The index without the spending ids of D, whatever they point to.
Unindexed(D) ==
  [id \in SpendIds |->
     IF \E t \in D \cap pool : id \in ToSpendIds[t] THEN NoTx ELSE index[id]]

\* delete_mempool_tx of every member of D, without cascade.
Delete(D) ==
  /\ pool' = pool \ D
  /\ index' = Unindexed(D)

\* Mutated form of Dependants: delete_mempool_tx without cascade.
NoDependants(t) == {}

\* The transactions of the next nonces, up to the first that is not indexed.
Dependants(t) ==
  ByIds({next \in AccountNonces : \E id \in AccountNonces \cap ToSpendIds[t] :
           /\ next[1] = id[1] /\ next[2] > id[2]
           /\ \A k \in (id[2] + 1)..next[2] : index[<<id[1], k>>] # NoTx})

\* delete_mempool_tx with cascade.
DeleteCascade(t) == Delete(IF t \in pool THEN {t} \cup Dependants(t) ELSE {})

-----------------------------------------------------------------------------
(* check_tx *)

\* Mutated form of HasRoom: one transaction too many.
HasRoomForOne == Cardinality(pool) <= MaxTxnCount

\* With a full mempool check_tx asks for the transaction with the lowest fee.
\* The iterator that should yield it is never positioned, so there is none, and
\* check_tx fails: nothing is evicted.
HasRoom == Cardinality(pool) < MaxTxnCount

CheckView(t) ==
  /\ check.phase = "idle"
  /\ t \notin pool
  /\ t \notin LedgerTxs
  /\ HasRoom
  /\ check' = [phase |-> "viewed", tx |-> t, base |-> 0]
  /\ UNCHANGED <<pool, index, chain, included, batch, reverts, discards, crashes>>

\* vm.preverify: nothing spent twice; a nonce beyond the next one is a
\* FutureNonce, and the account's nonce is remembered.
Preverify ==
  /\ check.phase = "viewed"
  /\ ToSpendIds[check.tx] \cap Spent = {}
  /\ \/ /\ NonceReady(check.tx, {})
        /\ check' = [check EXCEPT !.phase = "ready"]
     \/ \E a \in Accounts, n \in 1..MaxNonce :
          /\ ToSpendIds[check.tx] = {<<a, n>>}
          /\ n > AccountNonce(a) + 1
          /\ check' = [check EXCEPT !.phase = "future", !.base = AccountNonce(a)]
  /\ UNCHANGED <<pool, index, chain, included, batch, reverts, discards, crashes>>

\* The nonces between the account's and the transaction's are in the mempool.
CheckNonces ==
  /\ check.phase = "future"
  /\ \E a \in Accounts, n \in 1..MaxNonce :
       /\ ToSpendIds[check.tx] = {<<a, n>>}
       /\ \A k \in (check.base + 1)..(n - 1) : ByIds({<<a, k>>}) # {}
  /\ check' = [check EXCEPT !.phase = "ready"]
  /\ UNCHANGED <<pool, index, chain, included, batch, reverts, discards, crashes>>

\* Mutated form of Conflicts: the spending ids are not looked up.
NoConflicts(t) == {}

Conflicts(t) == ByIds(ToSpendIds[t]) \cap pool

\* The last transaction: cheaper transactions with the same spending ids are
\* replaced, and t is stored.
AcceptTx ==
  LET t == check.tx IN
  /\ check.phase = "ready"
  /\ \A u \in Conflicts(t) : GasPrice[u] < GasPrice[t]
  /\ pool' = (pool \ Conflicts(t)) \cup {t}
  /\ index' = [id \in SpendIds |->
                 IF id \in ToSpendIds[t] THEN t ELSE Unindexed(Conflicts(t))[id]]
  /\ check' = NoCheck
  /\ UNCHANGED <<chain, included, batch, reverts, discards, crashes>>

\* Every error return, and a transaction the VM refuses: nothing is written.
Refuse ==
  /\ check.phase # "idle"
  /\ check' = NoCheck
  /\ UNCHANGED <<pool, index, chain, included, batch, reverts, discards, crashes>>

-----------------------------------------------------------------------------
(* The acceptor, the idle timer of the service, the block generator *)

\* try_accept_block, up to the ledger transaction.
AcceptBlock(B) ==
  /\ included = {}
  /\ Len(chain) < MaxBlocks
  /\ B # {} /\ Executable(B)
  /\ chain' = Append(chain, B)
  /\ included' = B
  /\ UNCHANGED <<pool, index, batch, check, reverts, discards, crashes>>

\* The clean-up transaction that follows it.
StartCleanup ==
  /\ included # {}
  /\ batch' = [op |-> "cleanup", todo |-> included]
  /\ included' = {}
  /\ UNCHANGED <<pool, index, chain, check, reverts, discards, crashes>>

\* try_revert: the ledger transaction deletes the blocks above n and resubmits.
Revert(n) ==
  /\ included = {}
  /\ reverts < MaxReverts
  /\ n \in 0..(Len(chain) - 1)
  /\ chain' = SubSeq(chain, 1, n)
  /\ batch' = [op |-> "resubmit",
               todo |-> UNION {chain[i] : i \in (n + 1)..Len(chain)}]
  /\ reverts' = reverts + 1
  /\ UNCHANGED <<pool, index, included, check, discards, crashes>>

\* The idle event of the service loop, which also runs check_tx.
StartExpire(S) ==
  /\ check.phase = "idle"
  /\ S # {} /\ S \subseteq pool
  /\ batch' = [op |-> "expire", todo |-> S]
  /\ UNCHANGED <<pool, index, chain, included, check, reverts, discards, crashes>>

\* execute_state_transition: what fails to execute is discarded, unless its
\* nonce is not ready.
StartDiscard(S) ==
  /\ discards < MaxDiscards
  /\ S # {} /\ S \subseteq pool
  /\ \A t \in S : NonceReady(t, pool)
  /\ batch' = [op |-> "discard", todo |-> S]
  /\ discards' = discards + 1
  /\ UNCHANGED <<pool, index, chain, included, check, reverts, crashes>>

\* The clean-up deletes t, then what the index finds under its spending ids:
\* nothing, if t was there.
CleanTx(t) == Delete(IF t \in pool THEN {t} ELSE ByIds(ToSpendIds[t]))

\* One turn of the running loop.
BatchStep(t) ==
  /\ t \in batch.todo
  /\ \/ batch.op = "cleanup" /\ CleanTx(t)
     \/ batch.op = "resubmit" /\ Store(t)
     \/ batch.op \in {"expire", "discard"} /\ DeleteCascade(t)
  /\ batch' = IF batch.todo = {t} THEN NoBatch ELSE [batch EXCEPT !.todo = @ \ {t}]
  /\ UNCHANGED <<chain, included, check, reverts, discards, crashes>>

\* Database transactions are atomic; a check and a clean-up are lost.
Crash ==
  /\ crashes < MaxCrashes
  /\ check' = NoCheck
  /\ included' = {}
  /\ crashes' = crashes + 1
  /\ UNCHANGED <<pool, index, chain, batch, reverts, discards>>

Next ==
  \/ /\ batch.op = "none"
     /\ \/ \E t \in Txs : CheckView(t)
        \/ Preverify
        \/ CheckNonces
        \/ AcceptTx
        \/ Refuse
        \/ \E B \in SUBSET Txs : AcceptBlock(B)
        \/ StartCleanup
        \/ \E n \in 0..MaxBlocks : Revert(n)
        \/ \E S \in SUBSET pool : StartExpire(S)
        \/ \E S \in SUBSET pool : StartDiscard(S)
        \/ Crash
  \/ \E t \in Txs : BatchStep(t)

Spec == Init /\ [][Next]_vars

-----------------------------------------------------------------------------
(* Properties *)

\* What the index returns is in the mempool and spends that id, whatever was
\* overwritten by a resubmission: delete_mempool_tx never leaves an entry of a
\* transaction it has removed.
IndexSound ==
  \A id \in SpendIds : index[id] # NoTx =>
    index[id] \in pool /\ id \in ToSpendIds[index[id]]

\* Until a block is reverted, every pending transaction is found under all its
\* spending ids; so no two of them spend the same one, although check_tx looks
\* at the mempool long before it writes.
IndexComplete ==
  reverts = 0 =>
    \A t \in pool : \A id \in ToSpendIds[t] : index[id] = t

\* Unless the block generator discards transactions or a block is reverted, no
\* pending transaction waits for a nonce that is neither spent nor pending,
\* through replacements, clean-ups and expiry.
NoncesContiguous ==
  (reverts = 0 /\ discards = 0) => \A t \in pool : NonceReady(t, pool)

\* Only resubmitted transactions can exceed the configured limit.
PoolBounded == reverts = 0 => Cardinality(pool) <= MaxTxnCount
=============================================================================
