------------------------------ MODULE MCMempool ------------------------------
(* A few transactions of one account and of one note owner.                  *)
EXTENDS Mempool

CONSTANTS
  m1, m1b, m2, m3, \* Moonlight, nonces 1, 1, 2 and 3 of one account
  p1, p12,         \* Phoenix, the second with the nullifier of the first
  acc, n1, n2

MCToSpendIds ==
  [t \in Txs |-> CASE t \in {m1, m1b} -> {<<acc, 1>>}
                   [] t = m2  -> {<<acc, 2>>}
                   [] t = m3  -> {<<acc, 3>>}
                   [] t = p1  -> {n1}
                   [] t = p12 -> {n1, n2}]

\* m1b outbids m1, and p12 outbids p1.
MCGasPrice == [t \in Txs |-> IF t \in {m1b, p12} THEN 2 ELSE 1]
=============================================================================
