---------------------------- MODULE LedgerStore ----------------------------
(***************************************************************************)
(* The node's RocksDB store without its mempool indexes: the column        *)
(* families of the ledger, of candidates and of validation results, the    *)
(* tip register, and the operations on them.  An update is one atomic      *)
(* transaction, an operator from a store to a store.  A view takes no      *)
(* snapshot (OptimisticTransactionOptions::default), so every get of it    *)
(* sees the last commit; the readers below are single gets.                *)
(* Blocks are names of a fixed tree, so a store holds names of records.    *)
(***************************************************************************)
EXTENDS Naturals, Sequences, FiniteSets, SequencesExt

CONSTANTS
  Tree,            \* block -> [prev, height, iter, txs, faults]
  Genesis0,        \* the genesis block of Tree
  FaultHeader,     \* signed message of a fault -> [round, prev]
  EpochBlocks,     \* EPOCH
  CandidateOffset  \* CANDIDATES_DELETION_OFFSET

AllBlocks == DOMAIN Tree
Txs(b) == Tree[b].txs
Faults(b) == Tree[b].faults
Height(b) == Tree[b].height
IterKey(b) == <<Tree[b].prev, Tree[b].iter>>

\* A key-value pair is written.
Put(f, key, value) == [k \in DOMAIN f \cup {key} |-> IF k = key THEN value ELSE f[k]]

\* store_block: the light block, the tip register, the records of its
\* transactions and faults, and the entry of its height, in one transaction.
StoreBlock(db, b) ==
  [db EXCEPT !.ledger = @ \cup {b}, !.tip = b,
             !.txs = @ \cup Txs(b), !.faults = @ \cup Faults(b),
             !.heights = Put(@, Height(b), b)]

\* Mutated form of DeleteBlock: the entry of the height is left behind.
DeleteBlockKeepsHeight(db, b) ==
  [db EXCEPT !.ledger = @ \ {b}, !.txs = @ \ Txs(b), !.faults = @ \ Faults(b)]

DeleteBlock(db, b) ==
  [db EXCEPT !.ledger = @ \ {b}, !.txs = @ \ Txs(b), !.faults = @ \ Faults(b),
             !.heights = Restrict(@, DOMAIN @ \ {Height(b)})]

\* Reverting a block returns its transactions to the mempool.
RevertBlock(db, b) == [DeleteBlock(db, b) EXCEPT !.pool = @ \cup Txs(b), !.tip = Tree[b].prev]

\* The loop of try_revert: n blocks, from the tip down, found by their heights.
RevertBlocks(db, n) ==
  LET store[k \in 0 .. n] ==
        IF k = 0 THEN db
        ELSE RevertBlock(store[k - 1], store[k - 1].heights[Height(store[k - 1].tip)])
  IN store[n]

StoreCandidate(db, b) ==
  [db EXCEPT !.candidates = @ \cup {b}, !.candidateHeights = @ \cup {<<Height(b), b>>}]

\* delete_candidate walks the index of heights.
DeleteCandidates(db, threshold) ==
  LET old == {e \in db.candidateHeights : e[1] <= threshold}
  IN [db EXCEPT !.candidates = @ \ {e[2] : e \in old}, !.candidateHeights = @ \ old]

StoreValidationResult(db, key) == [db EXCEPT !.results = @ \cup {key}]

\* The cleanup after a block is accepted.
CleanUp(db) ==
  LET h == Height(db.tip)
      threshold == IF h >= CandidateOffset THEN h - CandidateOffset ELSE 0
  IN [DeleteCandidates(db, threshold) EXCEPT !.pool = @ \ Txs(db.tip)]

\* candidate_by_iteration: the first match in the order of hashes.
CandidateByIteration(db, key) ==
  LET found == {b \in db.candidates : IterKey(b) = key}
  IN IF found = {} THEN {} ELSE {CHOOSE b \in found : TRUE}

EmptyStore ==
  [ledger |-> {Genesis0}, tip |-> Genesis0, heights |-> [h \in {0} |-> Genesis0],
   txs |-> {}, faults |-> {}, candidates |-> {}, candidateHeights |-> {}, results |-> {}, pool |-> {}]

-----------------------------------------------------------------------------
(* Faults *)

\* A fault is the pair of messages its author signed, in either order.

Same(f, g) == {f[1], f[2]} = {g[1], g[2]}

\* The blocks from b down to height h, which faults_by_block walks.
Branch(b, h) ==
  LET walk[n \in 0 .. Height(b)] == IF n = 0 THEN b ELSE Tree[walk[n - 1]].prev
  IN {walk[n] : n \in {n \in 0 .. Height(b) : Height(b) - n >= h}}

FaultsByBlock(db, h) == UNION {Faults(b) : b \in Branch(db.tip, h)}

Minus(a, b) == IF a >= b THEN a - b ELSE 0

VerifyFaults(db, height, fs) ==
  \A f \in fs :
    LET header == FaultHeader[f[1]]
    IN /\ FaultHeader[f[2]] = header
       /\ f[1] # f[2]
       /\ header.round # 0
       /\ header.round \in Minus(height, EpochBlocks) .. height
       /\ header.prev \in db.ledger /\ Height(header.prev) = header.round - 1
       /\ \A g \in FaultsByBlock(db, Minus(header.round, EpochBlocks)) : ~Same(f, g)

-----------------------------------------------------------------------------
\* A tree of valid blocks: the virtual machine executes no transaction twice on
\* one branch (its nonce or its nullifiers are used), and the genesis block has
\* no transactions.
ASSUME StoreAssumption ==
  /\ {EpochBlocks, CandidateOffset} \subseteq Nat
  /\ \A b \in AllBlocks : Height(b) \in Nat
  /\ Genesis0 \in AllBlocks /\ Height(Genesis0) = 0
  /\ Txs(Genesis0) = {} /\ Faults(Genesis0) = {} /\ Tree[Genesis0].prev \notin AllBlocks
  /\ \A b \in AllBlocks \ {Genesis0} :
       Tree[b].prev \in AllBlocks /\ Height(b) = Height(Tree[b].prev) + 1
  /\ \A b \in AllBlocks : \A c \in Branch(b, 0) \ {b} : Txs(b) \cap Txs(c) = {}
=============================================================================
