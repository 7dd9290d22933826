---------------------------- MODULE FinalLedger -----------------------------
(***************************************************************************)
(* What the acceptor promises to the readers of the ledger (the database   *)
(* API, the consensus, the archive): one chain of blocks from genesis with *)
(* a final prefix.  The chain grows by one block at a time or is cut back  *)
(* to a block that is final or above the final ones; finality only grows,  *)
(* and only together with the chain.                                       *)
(***************************************************************************)
EXTENDS Naturals

CONSTANTS
  Blocks, Genesis, NoBlock, Parent, \* as in Acceptor
  Heights                           \* 0..MaxHeight

VARIABLES
  chain, \* height -> the block of the chain, or NoBlock
  final  \* the heights whose block is final

ledgerVars == <<chain, final>>

IsEnd(n) == chain[n] # NoBlock /\ \A h \in Heights : h > n => chain[h] = NoBlock

LedgerInit ==
  /\ chain = [h \in Heights |-> IF h = 0 THEN Genesis ELSE NoBlock]
  /\ final = {0}

\* A child of the last block is appended, and the chain is final up to some
\* block at or above the ones that were.
Extend(n, b) ==
  /\ n + 1 \in Heights
  /\ b # Genesis
  /\ Parent[b] = chain[n]
  /\ chain' = [chain EXCEPT ![n + 1] = b]
  /\ \E k \in 0..n : final \subseteq 0..k /\ final' = 0..k

\* The blocks above n are removed; none of them is final.
Rollback(n) ==
  /\ chain[n] # NoBlock
  /\ final \subseteq 0..n
  /\ chain' = [h \in Heights |-> IF h > n THEN NoBlock ELSE chain[h]]
  /\ UNCHANGED final

LedgerNext ==
  \E n \in Heights :
    \/ IsEnd(n) /\ \E b \in Blocks : Extend(n, b)
    \/ Rollback(n)

LedgerSpec == LedgerInit /\ [][LedgerNext]_ledgerVars
=============================================================================
