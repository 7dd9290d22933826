---------------------------- MODULE MempoolProofs ----------------------------
(***************************************************************************)
(* Proofs about the mempool: the index is sound whatever happens, complete *)
(* until a block is reverted, and the size is bounded until then; the      *)
(* pending nonces of an account have no gaps until then, unless the block  *)
(* generator discards transactions.                                        *)
(*                                                                         *)
(* The actions write pool and index in three ways only: Delete, Store (by  *)
(* a revert) and the replacement of AcceptTx.  Each is treated once.       *)
(***************************************************************************)
EXTENDS Mempool, FiniteSetTheorems, TLAPS

\* Transactions are resubmitted by a revert only.
ResubmitInv == batch.op = "resubmit" => reverts > 0

IndexInv == TypeOK /\ ResubmitInv /\ IndexSound /\ IndexComplete

tables == <<pool, index>>

-----------------------------------------------------------------------------
(* The three ways to write *)

\* Every action is one of these.
Writes ==
  \/ UNCHANGED tables
  \/ \E D : Delete(D)
  \/ batch.op = "resubmit" /\ \E t \in Txs : Store(t)
  \/ AcceptTx

LEMMA NextWrites == [Next]_vars => Writes /\ (reverts' = reverts \/ UNCHANGED tables)
<1> SUFFICES ASSUME [Next]_vars
             PROVE  Writes /\ (reverts' = reverts \/ UNCHANGED tables)
  OBVIOUS
<1>1. CASE AcceptTx
  BY <1>1 DEF AcceptTx, Writes
<1>2. CASE \E t \in Txs : BatchStep(t)
  BY <1>2 DEF BatchStep, CleanTx, DeleteCascade, Writes
<1>3. CASE UNCHANGED vars
  BY <1>3 DEF vars, tables, Writes
<1>4. CASE \/ \E t \in Txs : CheckView(t)
           \/ Preverify \/ CheckNonces \/ Refuse
           \/ \E B \in SUBSET Txs : AcceptBlock(B)
           \/ StartCleanup
           \/ \E n \in 0..MaxBlocks : Revert(n)
           \/ \E S \in SUBSET pool : StartExpire(S)
           \/ \E S \in SUBSET pool : StartDiscard(S)
           \/ Crash
  <2>1. UNCHANGED tables
    BY <1>4 DEF CheckView, Preverify, CheckNonces, Refuse, AcceptBlock,
       StartCleanup, Revert, StartExpire, StartDiscard, Crash, tables
  <2> QED BY <2>1 DEF Writes
<1> QED BY <1>1, <1>2, <1>3, <1>4 DEF Next

\* A deletion leaves no entry behind, and takes none from another transaction
\* as long as the index is complete.
LEMMA DeleteIndex ==
  ASSUME TypeOK, IndexSound, IndexComplete, NEW D, Delete(D), reverts' = reverts
  PROVE  IndexSound' /\ IndexComplete'
<1>1. IndexSound'
  BY DEF TypeOK, IndexSound, Delete, Unindexed
<1>2. IndexComplete'
  <2> SUFFICES ASSUME reverts = 0, NEW t \in pool \ D, NEW id \in ToSpendIds[t]
               PROVE  index'[id] = t
    BY DEF IndexComplete, Delete
  <2>1. id \in SpendIds /\ index[id] = t
    BY TxAssumption DEF IndexComplete, TypeOK
  <2>2. ~ \E u \in D \cap pool : id \in ToSpendIds[u]
    BY <2>1 DEF IndexComplete
  <2> QED BY <2>1, <2>2 DEF Delete, Unindexed
<1> QED BY <1>1, <1>2

\* A resubmitted transaction takes over the entries of its spending ids.
LEMMA StoreIndex ==
  ASSUME TypeOK, IndexSound, NEW t \in Txs, Store(t)
  PROVE  IndexSound'
BY TxAssumption DEF TypeOK, IndexSound, Store

\* A replacement removes all that the new transaction conflicts with.
LEMMA AcceptTxIndex ==
  ASSUME TypeOK, IndexSound, IndexComplete, AcceptTx
  PROVE  IndexSound' /\ IndexComplete'
<1> DEFINE t == check.tx
<1>1. t \in Txs /\ ToSpendIds[t] \subseteq SpendIds
  BY TxAssumption DEF TypeOK, AcceptTx
<1>2. /\ pool' = (pool \ Conflicts(t)) \cup {t}
      /\ reverts' = reverts
      /\ \A id \in SpendIds : index'[id] =
           IF id \in ToSpendIds[t] THEN t
           ELSE IF \E u \in Conflicts(t) \cap pool : id \in ToSpendIds[u] THEN NoTx
           ELSE index[id]
  BY DEF AcceptTx, Unindexed
<1>3. IndexSound'
  <2> SUFFICES ASSUME NEW id \in SpendIds, index'[id] # NoTx
               PROVE  index'[id] \in pool' /\ id \in ToSpendIds[index'[id]]
    BY DEF IndexSound
  <2>1. CASE id \in ToSpendIds[t]
    BY <2>1, <1>2
  <2>2. CASE id \notin ToSpendIds[t]
    BY <2>2, <1>2 DEF IndexSound
  <2> QED BY <2>1, <2>2
<1>4. IndexComplete'
  <2> SUFFICES ASSUME reverts = 0, NEW u \in pool', NEW id \in ToSpendIds[u]
               PROVE  index'[id] = u
    BY <1>2 DEF IndexComplete
  <2>1. CASE u = t
    BY <2>1, <1>1, <1>2
  <2>2. CASE u # t
    <3>1. u \in pool /\ u \notin Conflicts(t)
      BY <2>2, <1>2
    <3>2. id \in SpendIds /\ index[id] = u
      BY <3>1, TxAssumption DEF IndexComplete, TypeOK
    <3>3. u # NoTx
      BY <3>1, TxAssumption DEF TypeOK
    <3>4. id \notin ToSpendIds[t]
      BY <3>1, <3>2, <3>3 DEF Conflicts, ByIds
    <3>5. ~ \E w \in Conflicts(t) \cap pool : id \in ToSpendIds[w]
      BY <3>1, <3>2 DEF IndexComplete
    <3> QED BY <1>2, <3>2, <3>4, <3>5
  <2> QED BY <2>1, <2>2
<1> QED BY <1>3, <1>4

-----------------------------------------------------------------------------
(* Types *)

LEMMA TablesTyped ==
  ASSUME TypeOK, Writes
  PROVE  pool' \subseteq Txs /\ index' \in [SpendIds -> Txs \cup {NoTx}]
<1>1. CASE UNCHANGED tables
  BY <1>1 DEF tables, TypeOK
<1>2. CASE \E D : Delete(D)
  BY <1>2 DEF TypeOK, Delete, Unindexed
<1>3. CASE \E t \in Txs : Store(t)
  BY <1>3 DEF TypeOK, Store
<1>4. CASE AcceptTx
  <2>1. check.tx \in Txs
    BY <1>4 DEF AcceptTx, TypeOK
  <2> QED BY <1>4, <2>1 DEF TypeOK, AcceptTx, Unindexed
<1> QED BY <1>1, <1>2, <1>3, <1>4 DEF Writes

LEMMA TypeStep == TypeOK /\ [Next]_vars => TypeOK'
<1> SUFFICES ASSUME TypeOK, [Next]_vars
             PROVE  TypeOK'
  OBVIOUS
<1>1. pool' \subseteq Txs /\ index' \in [SpendIds -> Txs \cup {NoTx}]
  BY NextWrites, TablesTyped
<1> DEFINE CheckOK == /\ check \in [phase : CheckPhases, tx : Txs \cup {NoTx}, base : Nat]
                      /\ check.phase # "idle" => check.tx \in Txs
           RestOK == /\ chain \in Seq(SUBSET Txs) /\ included \subseteq Txs
                     /\ batch \in [op : BatchOps, todo : SUBSET Txs]
                     /\ reverts \in Nat /\ discards \in Nat /\ crashes \in Nat
<1>2. CheckOK /\ RestOK
  BY DEF TypeOK
<1> SUFFICES CheckOK' /\ RestOK'
  BY <1>1 DEF TypeOK
<1>3. ASSUME NEW t \in Txs, CheckView(t)
      PROVE  CheckOK' /\ RestOK'
  BY <1>2, <1>3 DEF CheckView, CheckPhases
<1>4. CASE Preverify
  <2>1. ASSUME NEW a \in Accounts PROVE AccountNonce(a) \in Nat
    <3>1. IsFiniteSet({n \in 1..MaxNonce : <<a, n>> \in Spent})
      <4>1. IsFiniteSet(1..MaxNonce)
        BY TxAssumption, FS_Interval
      <4> QED BY <4>1, FS_Subset
    <3> QED BY <3>1, FS_CardinalityType DEF AccountNonce
  <2> QED BY <1>2, <1>4, <2>1 DEF Preverify, CheckPhases
<1>5. CASE CheckNonces
  BY <1>2, <1>5 DEF CheckNonces, CheckPhases
<1>6. CASE AcceptTx
  BY <1>2, <1>6 DEF AcceptTx, NoCheck, CheckPhases
<1>7. CASE Refuse
  BY <1>2, <1>7 DEF Refuse, NoCheck, CheckPhases
<1>8. ASSUME NEW B \in SUBSET Txs, AcceptBlock(B)
      PROVE  CheckOK' /\ RestOK'
  BY <1>2, <1>8 DEF AcceptBlock
<1>9. CASE StartCleanup
  BY <1>2, <1>9 DEF StartCleanup, BatchOps
<1>10. ASSUME NEW n \in 0..MaxBlocks, Revert(n)
       PROVE  CheckOK' /\ RestOK'
  <2>1. n \in Nat /\ n + 1 \in Nat /\ Len(chain) \in Nat
    BY <1>2, MempoolBounds
  <2>2. chain' \in Seq(SUBSET Txs)
    BY <1>2, <1>10, <2>1 DEF Revert
  <2>3. UNION {chain[i] : i \in (n + 1)..Len(chain)} \subseteq Txs
    BY <1>2, <2>1
  <2> QED BY <1>2, <1>10, <2>2, <2>3 DEF Revert, BatchOps
<1>11. ASSUME NEW S \in SUBSET pool, StartExpire(S)
       PROVE  CheckOK' /\ RestOK'
  BY <1>2, <1>11 DEF StartExpire, BatchOps, TypeOK
<1>12. ASSUME NEW S \in SUBSET pool, StartDiscard(S)
       PROVE  CheckOK' /\ RestOK'
  BY <1>2, <1>12 DEF StartDiscard, BatchOps, TypeOK
<1>13. CASE Crash
  BY <1>2, <1>13 DEF Crash, NoCheck, CheckPhases
<1>14. ASSUME NEW t \in Txs, BatchStep(t)
       PROVE  CheckOK' /\ RestOK'
  BY <1>2, <1>14 DEF BatchStep, NoBatch, BatchOps
<1>15. CASE UNCHANGED vars
  BY <1>2, <1>15 DEF vars
<1> QED
  BY <1>3, <1>4, <1>5, <1>6, <1>7, <1>8, <1>9, <1>10, <1>11, <1>12, <1>13,
     <1>14, <1>15 DEF Next

-----------------------------------------------------------------------------
(* The index *)

LEMMA IndexInvInit == Init => IndexInv
BY DEF Init, IndexInv, TypeOK, ResubmitInv, IndexSound, IndexComplete, NoBatch,
   NoCheck, BatchOps, CheckPhases

\* Only Revert starts to resubmit, and it counts.
LEMMA RevertsStep ==
  ASSUME TypeOK, ResubmitInv, [Next]_vars
  PROVE  ResubmitInv' /\ (reverts' = 0 => reverts = 0)
<1>1. ASSUME NEW n \in 0..MaxBlocks, Revert(n)
      PROVE  reverts' > 0 /\ reverts' # 0
  BY <1>1 DEF Revert, TypeOK
<1>2. ASSUME NEW t \in Txs, BatchStep(t)
      PROVE  reverts' = reverts /\ (batch'.op = "resubmit" => batch.op = "resubmit")
  BY <1>2 DEF BatchStep, NoBatch, TypeOK
<1>3. CASE \/ \E t \in Txs : CheckView(t)
           \/ Preverify \/ CheckNonces \/ AcceptTx \/ Refuse
           \/ \E B \in SUBSET Txs : AcceptBlock(B)
           \/ Crash \/ UNCHANGED vars
  <2>1. reverts' = reverts /\ batch' = batch
    BY <1>3 DEF CheckView, Preverify, CheckNonces, AcceptTx, Refuse, AcceptBlock,
       Crash, vars
  <2> QED BY <2>1 DEF ResubmitInv
<1>4. CASE \/ StartCleanup
           \/ \E S \in SUBSET pool : StartExpire(S)
           \/ \E S \in SUBSET pool : StartDiscard(S)
  <2>1. reverts' = reverts /\ batch'.op # "resubmit"
    BY <1>4 DEF StartCleanup, StartExpire, StartDiscard
  <2> QED BY <2>1 DEF ResubmitInv
<1> QED BY <1>1, <1>2, <1>3, <1>4 DEF Next, ResubmitInv

LEMMA IndexInvStep == IndexInv /\ [Next]_vars => IndexInv'
<1> SUFFICES ASSUME IndexInv, [Next]_vars
             PROVE  IndexInv'
  OBVIOUS
<1>0. TypeOK /\ ResubmitInv /\ IndexSound /\ IndexComplete
  BY DEF IndexInv
<1>1. TypeOK' /\ ResubmitInv' /\ (reverts' = 0 => reverts = 0)
  BY <1>0, TypeStep, RevertsStep
<1>2. Writes /\ (reverts' = reverts \/ UNCHANGED tables)
  BY NextWrites
<1>3. CASE UNCHANGED tables
  BY <1>0, <1>1, <1>3 DEF IndexInv, tables, IndexSound, IndexComplete
<1>4. CASE reverts' = reverts
  <2>1. ASSUME NEW D, Delete(D)
        PROVE  IndexSound' /\ IndexComplete'
    BY <1>0, <1>4, <2>1, DeleteIndex
  <2>2. CASE batch.op = "resubmit" /\ \E t \in Txs : Store(t)
    <3>1. IndexSound'
      BY <1>0, <2>2, StoreIndex
    <3>2. reverts' # 0
      BY <1>0, <1>4, <2>2 DEF ResubmitInv, TypeOK
    <3> QED BY <1>1, <3>1, <3>2 DEF IndexInv, IndexComplete
  <2>3. CASE AcceptTx
    BY <1>0, <1>1, <2>3, AcceptTxIndex DEF IndexInv
  <2> QED BY <1>1, <1>2, <1>3, <2>1, <2>2, <2>3 DEF Writes, IndexInv
<1> QED BY <1>2, <1>3, <1>4

\* The index is sound, and complete while no block has been reverted.
THEOREM IndexInvariant == Spec => []IndexInv
BY IndexInvInit, IndexInvStep, PTL DEF Spec

\* mempool_txs_by_spendable_ids only returns pending transactions that spend
\* the id, after any sequence of replacements, clean-ups and reverts.
THEOREM IndexAlwaysSound == Spec => []IndexSound
<1>1. IndexInv => IndexSound
  BY DEF IndexInv
<1> QED BY <1>1, IndexInvariant, PTL

\* No two pending transactions share a spending id until a block is reverted.
THEOREM IndexAlwaysComplete == Spec => []IndexComplete
<1>1. IndexInv => IndexComplete
  BY DEF IndexInv
<1> QED BY <1>1, IndexInvariant, PTL
-----------------------------------------------------------------------------
(* The size *)

\* A running check has seen room, and nothing but a revert adds transactions
\* meanwhile.
RoomInv ==
  /\ IsFiniteSet(pool)
  /\ reverts = 0 => Cardinality(pool) <= MaxTxnCount
  /\ (reverts = 0 /\ check.phase # "idle") => Cardinality(pool) < MaxTxnCount

LEMMA RoomInit == Init => RoomInv
<1>1. IsFiniteSet({}) /\ Cardinality({}) = 0
  BY FS_EmptySet
<1> QED BY <1>1, MempoolBounds DEF Init, RoomInv, NoCheck

\* A check starts with room and no action but AcceptTx ends it otherwise.
LEMMA CheckStep ==
  ASSUME [Next]_vars, check'.phase # "idle"
  PROVE  check.phase # "idle" \/ (HasRoom /\ UNCHANGED tables)
<1>1. ASSUME NEW t \in Txs, CheckView(t)
      PROVE  HasRoom /\ UNCHANGED tables
  BY <1>1 DEF CheckView, tables
<1>2. CASE Preverify \/ CheckNonces \/ Refuse
  BY <1>2 DEF Preverify, CheckNonces, Refuse
<1>3. CASE AcceptTx \/ Crash
  BY <1>3 DEF AcceptTx, Crash, NoCheck
<1>4. CASE \/ \E B \in SUBSET Txs : AcceptBlock(B)
           \/ StartCleanup
           \/ \E n \in 0..MaxBlocks : Revert(n)
           \/ \E S \in SUBSET pool : StartExpire(S)
           \/ \E S \in SUBSET pool : StartDiscard(S)
           \/ \E t \in Txs : BatchStep(t)
           \/ UNCHANGED vars
  <2>1. check' = check
    BY <1>4 DEF AcceptBlock, StartCleanup, Revert, StartExpire, StartDiscard,
       BatchStep, vars
  <2> QED BY <2>1
<1> QED BY <1>1, <1>2, <1>3, <1>4 DEF Next

LEMMA RoomStep == IndexInv /\ RoomInv /\ [Next]_vars => RoomInv'
<1> SUFFICES ASSUME IndexInv, RoomInv, [Next]_vars
             PROVE  RoomInv'
  OBVIOUS
<1>1. TypeOK /\ ResubmitInv /\ (reverts' = 0 => reverts = 0)
  BY RevertsStep DEF IndexInv
<1>2. Cardinality(pool) \in Nat
  BY FS_CardinalityType DEF RoomInv
<1>3. CASE pool' \subseteq pool /\ ~AcceptTx
  <2>1. IsFiniteSet(pool') /\ Cardinality(pool') <= Cardinality(pool)
    BY <1>3, FS_Subset DEF RoomInv
  <2>2. Cardinality(pool') \in Nat
    BY <2>1, FS_CardinalityType
  <2>3. ASSUME reverts' = 0, check'.phase # "idle"
        PROVE  Cardinality(pool') < MaxTxnCount
    BY <1>1, <1>2, <2>1, <2>2, <2>3, CheckStep, MempoolBounds DEF RoomInv, HasRoom
  <2> QED BY <1>1, <1>2, <2>1, <2>2, <2>3, MempoolBounds DEF RoomInv
<1>4. CASE AcceptTx
  <2> DEFINE rest == pool \ Conflicts(check.tx)
  <2>1. IsFiniteSet(rest) /\ Cardinality(rest) <= Cardinality(pool)
    BY FS_Subset, rest \subseteq pool DEF RoomInv
  <2>2. Cardinality(rest) \in Nat
    BY <2>1, FS_CardinalityType
  <2>3. pool' = rest \cup {check.tx} /\ check'.phase = "idle" /\ check.phase # "idle"
    BY <1>4 DEF AcceptTx, NoCheck
  <2>4. IsFiniteSet(pool') /\ Cardinality(pool') <= Cardinality(rest) + 1
    <3> HIDE DEF rest
    <3> QED BY <2>1, <2>2, <2>3, FS_AddElement
  <2>5. Cardinality(pool') \in Nat
    BY <2>4, FS_CardinalityType
  <2> QED
    BY <1>1, <1>2, <2>1, <2>2, <2>3, <2>4, <2>5, MempoolBounds DEF RoomInv
<1>5. CASE batch.op = "resubmit" /\ \E t \in Txs : Store(t)
  <2>1. PICK t \in Txs : pool' = pool \cup {t}
    BY <1>5 DEF Store
  <2>2. IsFiniteSet(pool')
    BY <2>1, FS_AddElement DEF RoomInv
  <2>3. reverts' # 0
    BY <1>1, <1>5 DEF ResubmitInv, TypeOK
  <2> QED BY <2>2, <2>3 DEF RoomInv
<1> QED
  BY <1>3, <1>4, <1>5, NextWrites DEF Writes, Delete, tables

\* The mempool exceeds max_mempool_txn_count only by resubmitted transactions,
\* although check_tx counts in one transaction and stores in another.
THEOREM SizeBounded == Spec => []PoolBounded
<1>1. Spec => []RoomInv
  BY RoomInit, RoomStep, IndexInvariant, PTL DEF Spec
<1>2. RoomInv => PoolBounded
  BY DEF RoomInv, PoolBounded
<1> QED BY <1>1, <1>2, PTL
-----------------------------------------------------------------------------
(* The nonces *)

\* A nonce is spent or pending.
Covered(a, k) == <<a, k>> \in Spent \/ \E u \in pool : ToSpendIds[u] = {<<a, k>>}

\* The transactions with a higher nonce of the same account need it to be.
LowerCovered(t) ==
  \A a \in Accounts, n \in 1..MaxNonce : ToSpendIds[t] = {<<a, n>>} =>
    \A k \in 1..(n - 1) : Covered(a, k)

\* The VM executes the nonces of an account in order.
SpentInOrder ==
  \A a \in Accounts, n \in 1..MaxNonce : <<a, n>> \in Spent =>
    \A k \in 1..(n - 1) : <<a, k>> \in Spent

\* A FutureNonce answer remembers nonces that are all spent.
BaseSpent ==
  \A a \in Accounts, n \in 1..MaxNonce : ToSpendIds[check.tx] = {<<a, n>>} =>
    \A k \in 1..(n - 1) : k <= check.base => <<a, k>> \in Spent

\* The clean-up removes what the ledger has.
LedgerOrder ==
  /\ SpentInOrder
  /\ included \subseteq LedgerTxs
  /\ batch.op = "cleanup" => batch.todo \subseteq LedgerTxs

\* What a check has seen of the lower nonces stays true.
PendingOrder ==
  /\ \A t \in pool : LowerCovered(t)
  /\ check.phase = "ready" => LowerCovered(check.tx)
  /\ check.phase = "future" => BaseSpent

\* Only a discard, which counts, and a revert break the order, and expiry never
\* runs during a check.
NonceInv ==
  /\ batch.op = "discard" => discards > 0
  /\ batch.op = "expire" => check.phase = "idle"
  /\ reverts = 0 => LedgerOrder
  /\ (reverts = 0 /\ discards = 0) => PendingOrder

\* What a transaction that spends a nonce looks like.
LEMMA NonceFacts ==
  ASSUME NEW t \in Txs, NEW id \in ToSpendIds[t], id \in AccountNonces
  PROVE  ToSpendIds[t] = {id}
<1>1. ~(ToSpendIds[t] \subseteq Nullifiers)
  BY TxAssumption
<1>2. PICK jd \in AccountNonces : ToSpendIds[t] = {jd}
  BY <1>1, TxAssumption DEF IsMoonlight
<1> QED BY <1>2

\* An account's nonces up to the last one are all spent.
LEMMA NoncesBelow ==
  ASSUME SpentInOrder, NEW a \in Accounts, NEW k \in 1..MaxNonce, k <= AccountNonce(a)
  PROVE  <<a, k>> \in Spent
<1> SUFFICES ASSUME <<a, k>> \notin Spent PROVE FALSE
  OBVIOUS
<1> DEFINE S == {n \in 1..MaxNonce : <<a, n>> \in Spent}
<1>0. k \in Nat /\ MaxNonce \in Nat
  BY TxAssumption
<1>1. S \subseteq 1..(k - 1)
  <2> SUFFICES ASSUME NEW n \in S PROVE n < k
    BY <1>0
  <2>1. n \in 1..MaxNonce /\ <<a, n>> \in Spent
    OBVIOUS
  <2>2. k \notin 1..(n - 1) /\ n # k
    BY <2>1 DEF SpentInOrder
  <2> QED BY <1>0, <2>1, <2>2
<1>2. IsFiniteSet(1..(k - 1)) /\ Cardinality(1..(k - 1)) = k - 1
  BY <1>0, FS_Interval
<1>3. Cardinality(S) <= k - 1 /\ Cardinality(S) \in Nat
  <2> HIDE DEF S
  <2> QED BY <1>1, <1>2, FS_Subset, FS_CardinalityType
<1>4. AccountNonce(a) = Cardinality(S)
  BY DEF AccountNonce
<1> HIDE DEF S
<1> QED BY <1>0, <1>3, <1>4

\* What is covered stays covered, so every transaction keeps what it needs.
CoverGrows == \A a \in Accounts, k \in 1..MaxNonce : Covered(a, k) => Covered(a, k)'

LEMMA LowerGrows ==
  ASSUME CoverGrows, NEW t, LowerCovered(t)
  PROVE  \A a \in Accounts, n \in 1..MaxNonce : ToSpendIds[t] = {<<a, n>>} =>
           \A k \in 1..(n - 1) : Covered(a, k)'
<1> SUFFICES ASSUME NEW a \in Accounts, NEW n \in 1..MaxNonce,
                    ToSpendIds[t] = {<<a, n>>}, NEW k \in 1..(n - 1)
             PROVE  Covered(a, k)'
  OBVIOUS
<1>1. k \in 1..MaxNonce
  BY TxAssumption
<1> QED BY <1>1 DEF LowerCovered, CoverGrows

\* A replacement keeps the nonce it replaces.
LEMMA AcceptTxCovers ==
  ASSUME TypeOK, IndexSound, AcceptTx
  PROVE  CoverGrows
<1> DEFINE t == check.tx
<1>1. t \in Txs /\ pool' = (pool \ Conflicts(t)) \cup {t} /\ chain' = chain
  BY DEF TypeOK, AcceptTx
<1>2. Spent' = Spent
  BY <1>1 DEF Spent, LedgerTxs
<1> SUFFICES ASSUME NEW a \in Accounts, NEW k \in 1..MaxNonce,
                    NEW u \in pool, ToSpendIds[u] = {<<a, k>>}
             PROVE  \E w \in pool' : ToSpendIds[w] = {<<a, k>>}
  BY <1>2 DEF CoverGrows, Covered
<1>3. CASE u \notin Conflicts(t)
  BY <1>1, <1>3
<1>4. CASE u \in Conflicts(t)
  <2>1. PICK id \in ToSpendIds[t] : index[id] = u /\ u # NoTx
    BY <1>4 DEF Conflicts, ByIds
  <2>2. id \in SpendIds
    BY <1>1, TxAssumption
  <2>3. id = <<a, k>> /\ id \in AccountNonces
    BY <2>1, <2>2 DEF IndexSound, AccountNonces
  <2>4. ToSpendIds[t] = {<<a, k>>}
    BY <1>1, <2>1, <2>3, NonceFacts
  <2> QED BY <1>1, <2>4
<1> QED BY <1>3, <1>4

\* The clean-up removes transactions whose nonces are spent.
LEMMA CleanTxCovers ==
  ASSUME TypeOK, IndexSound, NEW t \in LedgerTxs, t \in Txs, CleanTx(t), chain' = chain
  PROVE  CoverGrows
<1>1. Spent' = Spent
  BY DEF Spent, LedgerTxs
<1>2. pool' = pool \ (IF t \in pool THEN {t} ELSE ByIds(ToSpendIds[t]))
  BY DEF CleanTx, Delete
<1> SUFFICES ASSUME NEW a \in Accounts, NEW k \in 1..MaxNonce,
                    NEW u \in pool, ToSpendIds[u] = {<<a, k>>}, u \notin pool'
             PROVE  <<a, k>> \in Spent
  BY <1>1 DEF CoverGrows, Covered
<1>3. CASE u = t
  BY <1>3 DEF Spent
<1>4. CASE u # t
  <2>1. PICK id \in ToSpendIds[t] : index[id] = u /\ u # NoTx
    BY <1>2, <1>4 DEF ByIds
  <2>2. id \in SpendIds
    BY TxAssumption
  <2>3. id = <<a, k>>
    BY <2>1, <2>2 DEF IndexSound
  <2> QED BY <2>1, <2>3 DEF Spent
<1> QED BY <1>3, <1>4

\* Expiry with its cascade takes no nonce a remaining transaction needs: the
\* nonces after the expired one go as far as they are pending, and from there on
\* what a transaction needs includes a nonce that is spent, hence all below it.
LEMMA ExpireKeepsLower ==
  ASSUME TypeOK, IndexSound, IndexComplete, reverts = 0, SpentInOrder,
         \A u \in pool : LowerCovered(u),
         NEW t \in pool, Delete({t} \cup Dependants(t)), chain' = chain
  PROVE  \A u \in pool' : LowerCovered(u)'
<1> DEFINE D == {t} \cup Dependants(t)
<1>1. Spent' = Spent /\ pool' = pool \ D
  BY DEF Spent, LedgerTxs, Delete
<1> SUFFICES ASSUME NEW u \in pool \ D, NEW a \in Accounts, NEW m \in 1..MaxNonce,
                    ToSpendIds[u] = {<<a, m>>}, NEW j \in 1..(m - 1),
                    <<a, j>> \notin Spent
             PROVE  \E w \in pool \ D : ToSpendIds[w] = {<<a, j>>}
  BY <1>1 DEF LowerCovered, Covered
<1>2. MaxNonce \in Nat /\ j \in 1..MaxNonce /\ j < m /\ m \in 1..MaxNonce
  BY TxAssumption
<1>3. PICK w \in pool : ToSpendIds[w] = {<<a, j>>}
  BY <1>2 DEF LowerCovered, Covered
<1> SUFFICES ASSUME w \in D PROVE FALSE
  BY <1>3
<1>4. /\ <<a, j>> \in SpendIds /\ index[<<a, j>>] = w /\ w \in Txs /\ w # NoTx
      /\ <<a, m>> \in SpendIds /\ index[<<a, m>>] = u /\ u \in Txs /\ u # NoTx
  BY <1>2, <1>3, TxAssumption DEF IndexComplete, TypeOK, SpendIds, AccountNonces
\* The expired transaction is one of the same account.
<1>5. PICK n \in 1..MaxNonce :
        /\ ToSpendIds[t] = {<<a, n>>} /\ n <= j
        /\ \A k \in (n + 1)..j : index[<<a, k>>] # NoTx
  <2>1. CASE w = t
    BY <2>1, <1>2, <1>3
  <2>2. CASE w # t
    <3>1. PICK next \in AccountNonces, id \in AccountNonces \cap ToSpendIds[t] :
            /\ index[next] = w /\ next[1] = id[1] /\ next[2] > id[2]
            /\ \A k \in (id[2] + 1)..next[2] : index[<<id[1], k>>] # NoTx
      BY <2>2 DEF Dependants, ByIds
    <3>2. next \in SpendIds /\ next \in ToSpendIds[w]
      BY <3>1, <1>4 DEF IndexSound, SpendIds
    <3>3. next = <<a, j>> /\ next[1] = a /\ next[2] = j
      BY <3>2, <1>3
    <3>4. PICK b \in Accounts, n \in 1..MaxNonce : id = <<b, n>>
      BY DEF AccountNonces
    <3>5. ToSpendIds[t] = {id}
      BY NonceFacts DEF TypeOK
    <3> QED BY <1>2, <3>1, <3>3, <3>4, <3>5
  <2> QED BY <2>1, <2>2
\* So is the remaining one, and it escaped the cascade at some nonce k.
<1>6. PICK k \in (n + 1)..m : index[<<a, k>>] = NoTx
  <2> SUFFICES ASSUME \A k \in (n + 1)..m : index[<<a, k>>] # NoTx PROVE FALSE
    OBVIOUS
  <2> DEFINE next == <<a, m>>
             id == <<a, n>>
  <2>1. next \in AccountNonces /\ id \in AccountNonces \cap ToSpendIds[t]
    BY <1>5 DEF AccountNonces
  <2>2. next[1] = id[1] /\ next[2] > id[2] /\ index[next] = u
    BY <1>2, <1>4, <1>5
  <2>3. \A k \in (id[2] + 1)..next[2] : index[<<id[1], k>>] # NoTx
    OBVIOUS
  <2>4. u \in Dependants(t)
    <3> HIDE DEF next, id
    <3> QED BY <1>4, <2>1, <2>2, <2>3 DEF Dependants, ByIds
  <2> QED BY <2>4
<1>7. k \in 1..(m - 1) /\ k > j
  BY <1>2, <1>4, <1>5, <1>6
<1>8. <<a, k>> \in Spent
  <2>1. Covered(a, k)
    BY <1>2, <1>7 DEF LowerCovered
  <2>2. ASSUME NEW v \in pool, ToSpendIds[v] = {<<a, k>>} PROVE FALSE
    BY <2>2, <1>6, TxAssumption DEF IndexComplete, TypeOK
  <2> QED BY <2>1, <2>2 DEF Covered
<1> QED BY <1>2, <1>7, <1>8 DEF SpentInOrder

\* An accepted block adds to what is spent, in order.
LEMMA AcceptBlockSpends ==
  ASSUME TypeOK, NEW B \in SUBSET Txs, AcceptBlock(B)
  PROVE  /\ LedgerTxs' = LedgerTxs \cup B
         /\ Spent \subseteq Spent'
         /\ SpentInOrder => SpentInOrder'
         /\ CoverGrows
<1>1. chain' = Append(chain, B) /\ chain \in Seq(SUBSET Txs) /\ pool' = pool
  BY DEF AcceptBlock, TypeOK
<1>2. LedgerTxs' = LedgerTxs \cup B
  <2>1. Len(chain') = Len(chain) + 1 /\ Len(chain) \in Nat
    BY <1>1
  <2>2. \A i \in 1..Len(chain) : chain'[i] = chain[i]
    BY <1>1
  <2>3. chain'[Len(chain) + 1] = B
    BY <1>1
  <2> QED BY <2>1, <2>2, <2>3 DEF LedgerTxs
<1>3. Spent' = Spent \cup UNION {ToSpendIds[t] : t \in B}
  BY <1>2 DEF Spent
<1>4. ASSUME SpentInOrder PROVE SpentInOrder'
  <2> SUFFICES ASSUME NEW a \in Accounts, NEW n \in 1..MaxNonce, <<a, n>> \in Spent',
                      NEW k \in 1..(n - 1)
               PROVE  <<a, k>> \in Spent'
    BY DEF SpentInOrder
  <2>1. CASE <<a, n>> \in Spent
    BY <1>3, <1>4, <2>1 DEF SpentInOrder
  <2>2. CASE <<a, n>> \notin Spent
    <3>1. PICK t \in B : <<a, n>> \in ToSpendIds[t]
      BY <1>3, <2>2
    <3>2. ToSpendIds[t] = {<<a, n>>}
      BY <3>1, NonceFacts DEF AccountNonces
    <3>3. NonceReady(t, B)
      BY DEF AcceptBlock, Executable
    <3>4. <<a, k>> \in Spent \/ \E u \in B : ToSpendIds[u] = {<<a, k>>}
      BY <3>2, <3>3 DEF NonceReady
    <3> QED BY <1>3, <3>4
  <2> QED BY <2>1, <2>2
<1>5. CoverGrows
  BY <1>1, <1>3 DEF CoverGrows, Covered
<1> QED BY <1>2, <1>3, <1>4, <1>5

\* What PendingOrder says survives a step that keeps what is covered and spent,
\* adds no other transaction and does not advance the check.
LEMMA PendingKept ==
  ASSUME PendingOrder, CoverGrows, Spent \subseteq Spent', pool' \subseteq pool,
         check' = check \/ check'.phase = "idle"
  PROVE  PendingOrder'
<1>1. \A t \in pool' : LowerCovered(t)'
  BY LowerGrows DEF PendingOrder, LowerCovered
<1>2. ASSUME check'.phase = "ready" PROVE LowerCovered(check.tx)'
  <2>1. check' = check /\ LowerCovered(check.tx)
    BY <1>2 DEF PendingOrder
  <2>2. PICK t : t = check.tx
    OBVIOUS
  <2>3. \A a \in Accounts, n \in 1..MaxNonce : ToSpendIds[t] = {<<a, n>>} =>
          \A k \in 1..(n - 1) : Covered(a, k)'
    BY <2>1, <2>2, LowerGrows
  <2> QED BY <2>1, <2>2, <2>3 DEF LowerCovered
<1>3. ASSUME check'.phase = "future" PROVE BaseSpent'
  <2>1. check' = check /\ BaseSpent
    BY <1>3 DEF PendingOrder
  <2> QED BY <2>1 DEF BaseSpent
<1> QED BY <1>1, <1>2, <1>3 DEF PendingOrder

\* A transaction is stored with its lower nonces covered.
LEMMA AcceptTxOrder ==
  ASSUME TypeOK, IndexSound, PendingOrder, AcceptTx
  PROVE  PendingOrder'
<1>1. CoverGrows
  BY AcceptTxCovers
<1>2. /\ pool' = (pool \ Conflicts(check.tx)) \cup {check.tx}
      /\ check'.phase = "idle" /\ check.phase = "ready"
  BY DEF AcceptTx, NoCheck
<1>3. ASSUME NEW t \in pool' PROVE LowerCovered(t)
  BY <1>2, <1>3 DEF PendingOrder
<1>4. \A t \in pool' : LowerCovered(t)'
  BY <1>1, <1>3, LowerGrows DEF LowerCovered
<1> QED BY <1>2, <1>4 DEF PendingOrder

LEMMA OneNonce ==
  ASSUME NEW a, NEW n, NEW b, NEW m, {<<a, n>>} = {<<b, m>>}
  PROVE  b = a /\ m = n
<1>1. <<a, n>> = <<b, m>>
  OBVIOUS
<1> QED BY <1>1

\* preverify: a ready nonce needs none, a future one remembers what is spent.
LEMMA PreverifyOrder ==
  ASSUME TypeOK, SpentInOrder, PendingOrder, Preverify
  PROVE  PendingOrder'
<1>1. Spent' = Spent /\ pool' = pool /\ check.phase = "viewed"
  <2>1. chain' = chain /\ pool' = pool /\ check.phase = "viewed"
    BY DEF Preverify
  <2> QED BY <2>1 DEF Spent, LedgerTxs
<1>2. \A t \in pool' : LowerCovered(t)'
  BY <1>1 DEF PendingOrder, LowerCovered, Covered
<1>3. check \in [phase : CheckPhases, tx : Txs \cup {NoTx}, base : Nat]
  BY DEF TypeOK
<1>4. CASE /\ NonceReady(check.tx, {})
           /\ check' = [check EXCEPT !.phase = "ready"]
  <2>1. check'.tx = check.tx /\ check'.phase = "ready"
    BY <1>3, <1>4
  <2>2. LowerCovered(check.tx)'
    BY <1>1, <1>4, <2>1 DEF LowerCovered, Covered, NonceReady
  <2> QED BY <1>2, <2>1, <2>2 DEF PendingOrder
<1>5. CASE \E a \in Accounts, n \in 1..MaxNonce :
             /\ ToSpendIds[check.tx] = {<<a, n>>}
             /\ n > AccountNonce(a) + 1
             /\ check' = [check EXCEPT !.phase = "future", !.base = AccountNonce(a)]
  <2>1. PICK a \in Accounts, n \in 1..MaxNonce :
             /\ ToSpendIds[check.tx] = {<<a, n>>}
             /\ check' = [check EXCEPT !.phase = "future", !.base = AccountNonce(a)]
    BY <1>5
  <2>2. check'.tx = check.tx /\ check'.phase = "future" /\ check'.base = AccountNonce(a)
    BY <1>3, <2>1
  <2>3. BaseSpent'
    <3>1. ASSUME NEW k \in 1..(n - 1), k <= AccountNonce(a)
          PROVE  <<a, k>> \in Spent
      <4>1. k \in 1..MaxNonce
        BY TxAssumption
      <4> QED BY <3>1, <4>1, NoncesBelow
    <3>2. ASSUME NEW b \in Accounts, NEW m \in 1..MaxNonce,
                 ToSpendIds[check.tx] = {<<b, m>>}
          PROVE  b = a /\ m = n
      <4>1. {<<a, n>>} = {<<b, m>>}
        BY <2>1, <3>2
      <4> QED BY <4>1, OneNonce
    <3> QED BY <1>1, <2>2, <3>1, <3>2 DEF BaseSpent
  <2> QED BY <1>2, <2>2, <2>3 DEF PendingOrder
<1> QED BY <1>4, <1>5 DEF Preverify

\* The second view: what is not spent up to the nonce is pending.
LEMMA CheckNoncesOrder ==
  ASSUME TypeOK, IndexSound, PendingOrder, CheckNonces
  PROVE  PendingOrder'
<1>1. Spent' = Spent /\ pool' = pool /\ check.phase = "future" /\ BaseSpent
  BY DEF CheckNonces, Spent, LedgerTxs, PendingOrder
<1>2. \A t \in pool' : LowerCovered(t)'
  BY <1>1 DEF PendingOrder, LowerCovered, Covered
<1>3. check'.tx = check.tx /\ check'.phase = "ready" /\ check.base \in Nat
  BY DEF TypeOK, CheckNonces
<1>4. PICK a \in Accounts, n \in 1..MaxNonce :
        /\ ToSpendIds[check.tx] = {<<a, n>>}
        /\ \A k \in (check.base + 1)..(n - 1) : ByIds({<<a, k>>}) # {}
  BY DEF CheckNonces
<1>5. ASSUME NEW k \in 1..(n - 1) PROVE Covered(a, k)
  <2>0. k \in 1..MaxNonce
    BY TxAssumption
  <2>1. CASE k <= check.base
    BY <1>1, <1>4, <2>1 DEF BaseSpent, Covered
  <2>2. CASE ~(k <= check.base)
    <3>1. <<a, k>> \in AccountNonces /\ <<a, k>> \in SpendIds
      BY <2>0 DEF AccountNonces, SpendIds
    <3>2. k \in (check.base + 1)..(n - 1)
      BY <1>3, <2>2
    <3>3. index[<<a, k>>] # NoTx
      BY <1>4, <3>2 DEF ByIds
    <3>4. index[<<a, k>>] \in pool /\ <<a, k>> \in ToSpendIds[index[<<a, k>>]]
      BY <3>1, <3>3 DEF IndexSound
    <3>5. ToSpendIds[index[<<a, k>>]] = {<<a, k>>}
      BY <3>1, <3>4, NonceFacts DEF TypeOK
    <3> QED BY <3>4, <3>5 DEF Covered
  <2> QED BY <2>1, <2>2
<1>6. ASSUME NEW b \in Accounts, NEW m \in 1..MaxNonce, ToSpendIds[check.tx] = {<<b, m>>}
      PROVE  b = a /\ m = n
  <2>1. {<<a, n>>} = {<<b, m>>}
    BY <1>4, <1>6
  <2> QED BY <2>1, OneNonce
<1>7. LowerCovered(check.tx)'
  BY <1>1, <1>3, <1>5, <1>6 DEF LowerCovered, Covered
<1> QED BY <1>2, <1>3, <1>7 DEF PendingOrder

LEMMA NonceInvInit == Init => NonceInv
<1> SUFFICES ASSUME Init PROVE NonceInv
  OBVIOUS
<1>1. LedgerTxs = {} /\ Spent = {}
  BY DEF Init, LedgerTxs, Spent
<1>2. LedgerOrder
  BY <1>1 DEF Init, LedgerOrder, SpentInOrder, NoBatch
<1>3. PendingOrder
  BY DEF Init, PendingOrder, NoCheck
<1> QED BY <1>2, <1>3 DEF NonceInv, Init, NoBatch

\* A step that leaves the chain and the pool alone.
LEMMA NothingMoves ==
  ASSUME chain' = chain, pool' = pool
  PROVE  /\ LedgerTxs' = LedgerTxs /\ Spent' = Spent
         /\ SpentInOrder <=> SpentInOrder'
         /\ CoverGrows
<1>1. LedgerTxs' = LedgerTxs /\ Spent' = Spent
  BY DEF LedgerTxs, Spent
<1> QED BY <1>1 DEF SpentInOrder, CoverGrows, Covered

\* One turn of a loop, before a revert: a clean-up, or a cascade.
LEMMA BatchOrder ==
  ASSUME IndexInv, NonceInv, NEW t \in Txs, BatchStep(t)
  PROVE  NonceInv'
<1>1. /\ TypeOK /\ ResubmitInv /\ IndexSound /\ IndexComplete
      /\ batch.op = "discard" => discards > 0
      /\ batch.op = "expire" => check.phase = "idle"
      /\ reverts = 0 => LedgerOrder
      /\ (reverts = 0 /\ discards = 0) => PendingOrder
  BY DEF IndexInv, NonceInv
<1>2. /\ chain' = chain /\ included' = included /\ check' = check
      /\ reverts' = reverts /\ discards' = discards /\ t \in batch.todo
      /\ batch'.op \in {"none", batch.op} /\ batch'.todo \subseteq batch.todo
  BY <1>1 DEF BatchStep, NoBatch, TypeOK
<1>3. LedgerTxs' = LedgerTxs /\ Spent' = Spent
  BY <1>2 DEF LedgerTxs, Spent
<1>4. ASSUME reverts = 0 PROVE LedgerOrder'
  BY <1>1, <1>2, <1>3, <1>4 DEF LedgerOrder, SpentInOrder
<1>5. ASSUME reverts = 0, discards = 0 PROVE PendingOrder'
  <2>1. CASE batch.op = "cleanup"
    <3>1. t \in LedgerTxs /\ CleanTx(t)
      BY <1>1, <1>2, <1>5, <2>1 DEF LedgerOrder, BatchStep
    <3>2. CoverGrows
      BY <1>1, <1>2, <3>1, CleanTxCovers
    <3>3. pool' \subseteq pool
      BY <3>1 DEF CleanTx, Delete
    <3> QED BY <1>1, <1>2, <1>3, <1>5, <3>2, <3>3, PendingKept
  <2>2. CASE batch.op = "expire"
    <3>1. DeleteCascade(t) /\ check'.phase = "idle"
      BY <1>1, <1>2, <2>2 DEF BatchStep
    <3>2. CASE t \in pool
      <4>1. Delete({t} \cup Dependants(t))
        BY <3>1, <3>2 DEF DeleteCascade
      <4>2. SpentInOrder /\ \A u \in pool : LowerCovered(u)
        BY <1>1, <1>5 DEF LedgerOrder, PendingOrder
      <4>3. \A u \in pool' : LowerCovered(u)'
        BY <1>1, <1>2, <1>5, <3>2, <4>1, <4>2, ExpireKeepsLower
      <4> QED BY <3>1, <4>3 DEF PendingOrder
    <3>3. CASE t \notin pool
      <4>1. pool' = pool
        BY <3>1, <3>3 DEF DeleteCascade, Delete
      <4>2. CoverGrows
        BY <1>2, <4>1, NothingMoves
      <4> QED BY <1>1, <1>2, <1>3, <1>5, <4>1, <4>2, PendingKept
    <3> QED BY <3>2, <3>3
  <2>3. batch.op # "discard" /\ batch.op # "resubmit"
    BY <1>1, <1>5 DEF ResubmitInv, TypeOK
  <2> QED BY <2>1, <2>2, <2>3 DEF BatchStep
<1> QED BY <1>1, <1>2, <1>4, <1>5 DEF NonceInv

LEMMA NonceInvStep == IndexInv /\ NonceInv /\ [Next]_vars => NonceInv'
<1> SUFFICES ASSUME IndexInv, NonceInv, [Next]_vars
             PROVE  NonceInv'
  OBVIOUS
<1>0. /\ TypeOK /\ IndexSound
      /\ batch.op = "discard" => discards > 0
      /\ batch.op = "expire" => check.phase = "idle"
      /\ reverts = 0 => LedgerOrder
      /\ (reverts = 0 /\ discards = 0) => PendingOrder
  BY DEF IndexInv, NonceInv
<1>1. CASE \E t \in Txs : BatchStep(t)
  BY <1>1, BatchOrder
<1>2. CASE UNCHANGED vars
  <2>1. /\ chain' = chain /\ pool' = pool /\ check' = check /\ batch' = batch
        /\ included' = included /\ reverts' = reverts /\ discards' = discards
    BY <1>2 DEF vars
  <2>2. PendingOrder => PendingOrder'
    BY <2>1, NothingMoves, PendingKept
  <2>3. LedgerOrder => LedgerOrder'
    BY <2>1, NothingMoves DEF LedgerOrder
  <2> QED BY <1>0, <2>1, <2>2, <2>3 DEF NonceInv
<1>3. ASSUME batch.op = "none",
             \/ \E t \in Txs : CheckView(t)
             \/ Preverify \/ CheckNonces \/ AcceptTx \/ Refuse
      PROVE  NonceInv'
  <2>1. /\ chain' = chain /\ batch' = batch /\ included' = included
        /\ reverts' = reverts /\ discards' = discards
    BY <1>3 DEF CheckView, Preverify, CheckNonces, AcceptTx, Refuse
  <2>2. LedgerOrder => LedgerOrder'
    BY <2>1 DEF LedgerOrder, SpentInOrder, Spent, LedgerTxs
  <2>3. ASSUME reverts = 0, PendingOrder PROVE PendingOrder'
    <3>1. ASSUME NEW t \in Txs, CheckView(t) PROVE PendingOrder'
      <4>1. pool' = pool /\ check'.phase = "viewed"
        BY <3>1 DEF CheckView
      <4>2. \A u \in pool' : LowerCovered(u)'
        BY <2>1, <2>3, <4>1 DEF PendingOrder, LowerCovered, Covered, Spent, LedgerTxs
      <4> QED BY <4>1, <4>2 DEF PendingOrder
    <3>2. CASE Preverify
      BY <1>0, <2>3, <3>2, PreverifyOrder DEF LedgerOrder
    <3>3. CASE CheckNonces
      BY <1>0, <2>3, <3>3, CheckNoncesOrder
    <3>4. CASE AcceptTx
      BY <1>0, <2>3, <3>4, AcceptTxOrder
    <3>5. CASE Refuse
      <4>1. pool' = pool /\ check'.phase = "idle"
        BY <3>5 DEF Refuse, NoCheck
      <4> QED BY <2>1, <2>3, <4>1, NothingMoves, PendingKept
    <3> QED BY <1>3, <3>1, <3>2, <3>3, <3>4, <3>5
  <2> QED BY <1>0, <1>3, <2>1, <2>2, <2>3 DEF NonceInv
<1>4. ASSUME NEW B \in SUBSET Txs, AcceptBlock(B), batch.op = "none"
      PROVE  NonceInv'
  <2>1. /\ included' = B /\ pool' = pool /\ batch' = batch /\ check' = check
        /\ reverts' = reverts /\ discards' = discards
    BY <1>4 DEF AcceptBlock
  <2>2. /\ LedgerTxs' = LedgerTxs \cup B /\ Spent \subseteq Spent'
        /\ SpentInOrder => SpentInOrder'
        /\ CoverGrows
    BY <1>0, <1>4, AcceptBlockSpends
  <2>3. LedgerOrder => LedgerOrder'
    BY <2>1, <2>2 DEF LedgerOrder
  <2>4. PendingOrder => PendingOrder'
    BY <2>1, <2>2, PendingKept
  <2> QED BY <1>0, <2>1, <2>3, <2>4 DEF NonceInv
<1>5. ASSUME batch.op = "none",
             \/ StartCleanup
             \/ \E S \in SUBSET pool : StartExpire(S)
             \/ \E S \in SUBSET pool : StartDiscard(S)
             \/ Crash
      PROVE  NonceInv'
  <2>1. /\ chain' = chain /\ pool' = pool /\ reverts' = reverts
        /\ check' = check \/ check'.phase = "idle"
        /\ included' \subseteq included
        /\ batch'.op = "cleanup" => batch'.todo = included
        /\ batch'.op = "expire" => check'.phase = "idle"
        /\ batch'.op = "discard" => discards' > 0
        /\ discards' = 0 => discards = 0
    BY <1>0, <1>5 DEF StartCleanup, StartExpire, StartDiscard, Crash, NoCheck, TypeOK
  <2>2. LedgerOrder => LedgerOrder'
    BY <2>1, NothingMoves DEF LedgerOrder
  <2>3. PendingOrder => PendingOrder'
    BY <2>1, NothingMoves, PendingKept
  <2> QED BY <1>0, <2>1, <2>2, <2>3 DEF NonceInv
<1>6. ASSUME NEW n \in 0..MaxBlocks, Revert(n)
      PROVE  NonceInv'
  <2>1. reverts' # 0 /\ batch'.op = "resubmit"
    BY <1>0, <1>6 DEF Revert, TypeOK
  <2> QED BY <2>1 DEF NonceInv
<1> QED BY <1>1, <1>2, <1>3, <1>4, <1>5, <1>6 DEF Next

\* No pending transaction waits for a nonce that is neither spent nor pending,
\* until the block generator discards transactions or a block is reverted:
\* check_tx reads the account, the index and the mempool at three different
\* times, and blocks are accepted and cleaned up in between.
THEOREM NoncesStayContiguous == Spec => []NoncesContiguous
<1>1. Spec => []NonceInv
  BY NonceInvInit, NonceInvStep, IndexInvariant, PTL DEF Spec
<1>2. NonceInv => NoncesContiguous
  BY DEF NonceInv, PendingOrder, NoncesContiguous, LowerCovered, Covered, NonceReady
<1> QED BY <1>1, <1>2, PTL
=============================================================================
