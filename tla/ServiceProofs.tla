---------------------------- MODULE ServiceProofs ----------------------------
(***************************************************************************)
(* Theorems about the services of a node, for any tree of valid blocks,    *)
(* any requests, locations and mempools, any number of websockets and any  *)
(* capacities.                                                             *)
(***************************************************************************)
EXTENDS DataBroker, RuesServer, HttpCalls, FiniteSetTheorems, SequenceTheorems, TLAPS

-----------------------------------------------------------------------------
(* Induction and recursion over numbers *)

\* Induction up to n, for a set of numbers.
LEMMA UpTo ==
  ASSUME NEW n \in Nat, NEW T, 0 \in T, \A k \in 0..(n - 1) : k \in T => k + 1 \in T
  PROVE  0..n \subseteq T
<1> DEFINE B == (0..n) \ T
<1> SUFFICES ASSUME B # {} PROVE FALSE
  OBVIOUS
<1>1. PICK x \in B : \A y \in B : ~(<<y, x>> \in OpToRel(<, Nat))
  <2>1. B \subseteq Nat
    OBVIOUS
  <2> HIDE DEF B
  <2> QED BY <2>1, NatLessThanWellFounded, WFMin
<1>2. \A y \in B : ~(y < x)
  <2> SUFFICES ASSUME NEW y \in B, y < x PROVE FALSE
    OBVIOUS
  <2> DEFINE p == <<y, x>>
  <2>1. p \in Nat \X Nat /\ p[1] < p[2]
    OBVIOUS
  <2>2. p \in OpToRel(<, Nat)
    <3> HIDE DEF p
    <3> QED BY <2>1 DEF OpToRel
  <2> QED BY <1>1, <2>2
<1>3. x # 0 /\ x - 1 \in 0..(n - 1) /\ x - 1 \notin B
  BY <1>2
<1> QED BY <1>3

\* The four loops of the model: down a branch, through the blocks to revert,
\* through the actions of a client, and through the gas prices of a mempool.
Advance(loop, q, n, x) ==
  CASE loop = "walk"   -> Tree[x].prev
    [] loop = "revert" -> RevertBlock(x, x.heights[Height(x.tip)])
    [] loop = "apply"  -> AfterAction(x, q[n])
    [] loop = "total"  -> x + q[n]

LoopStep(loop, q, base, f, n) == IF n = 0 THEN base ELSE Advance(loop, q, n, f[n - 1])
LoopRec(loop, q, base, l, f) == [n \in 0..l |-> LoopStep(loop, q, base, f, n)]
Loop(loop, q, base, l) == CHOOSE f : f = LoopRec(loop, q, base, l, f)

LEMMA LoopExists ==
  ASSUME NEW m, NEW q, NEW base, NEW l \in Nat
  PROVE  \E f : f = LoopRec(m, q, base, l, f)
<1> DEFINE N == {n \in 0..l : \E f : f = LoopRec(m, q, base, n, f)}
<1>1. 0 \in N
  <2> DEFINE h == [n \in 0..0 |-> base]
  <2>1. h = LoopRec(m, q, base, 0, h)
    BY DEF LoopRec, LoopStep
  <2> HIDE DEF h
  <2> QED BY <2>1
<1>2. ASSUME NEW k \in 0..(l - 1), k \in N
      PROVE  k + 1 \in N
  <2>1. PICK g : g = LoopRec(m, q, base, k, g)
    BY <1>2
  <2>2. PICK j \in 0..l : j = k + 1
    OBVIOUS
  <2> DEFINE h == LoopRec(m, q, base, j, g)
  <2>3. \A n \in 0..k : h[n] = g[n]
    <3> SUFFICES ASSUME NEW n \in 0..k PROVE h[n] = g[n]
      OBVIOUS
    <3>1. n \in 0..j
      BY <2>2
    <3>2. h[n] = LoopStep(m, q, base, g, n)
      BY <3>1 DEF LoopRec
    <3>3. g[n] = LoopStep(m, q, base, g, n)
      BY <2>1 DEF LoopRec
    <3> QED BY <3>2, <3>3
  <2>4. ASSUME NEW n \in 0..j PROVE h[n] = LoopStep(m, q, base, h, n)
    <3>1. h[n] = LoopStep(m, q, base, g, n)
      BY DEF LoopRec
    <3>2. n # 0 => n - 1 \in 0..k
      BY <2>2
    <3> HIDE DEF h
    <3> QED BY <2>3, <3>1, <3>2 DEF LoopStep
  <2>5. h = [n \in 0..j |-> h[n]]
    BY DEF LoopRec
  <2> HIDE DEF h
  <2>6. h = LoopRec(m, q, base, j, h)
    BY <2>4, <2>5 DEF LoopRec
  <2>7. j \in N
    BY <2>6
  <2> QED BY <2>2, <2>7
<1>3. 0..l \subseteq N
  <2> HIDE DEF N
  <2> QED BY <1>1, <1>2, UpTo
<1>4. l \in 0..l
  OBVIOUS
<1> QED BY <1>3, <1>4

LEMMA LoopFacts ==
  ASSUME NEW m, NEW q, NEW base, NEW l \in Nat, NEW f, f = Loop(m, q, base, l)
  PROVE  f[0] = base /\ \A n \in 1..l : f[n] = Advance(m, q, n, f[n - 1])
<1>1. f = LoopRec(m, q, base, l, f)
  BY LoopExists DEF Loop
<1>2. \A n \in 0..l : f[n] = LoopStep(m, q, base, f, n)
  BY <1>1 DEF LoopRec
<1> QED BY <1>2 DEF LoopStep

LEMMA BranchLoop ==
  ASSUME NEW b, NEW h
  PROVE  Branch(b, h) =
    {Loop("walk", <<>>, b, Height(b))[n] : n \in {n \in 0 .. Height(b) : Height(b) - n >= h}}
BY Zenon DEF Branch, Loop, LoopRec, LoopStep, Advance

LEMMA RevertLoop == \A s, n : RevertBlocks(s, n) = Loop("revert", <<>>, s, n)[n]
BY Zenon DEF RevertBlocks, Loop, LoopRec, LoopStep, Advance

LEMMA EffectLoop == \A q : Effect(q) = Loop("apply", q, {}, Len(q))[Len(q)]
BY Zenon DEF Effect, Loop, LoopRec, LoopStep, Advance

LEMMA TotalLoop == \A q : Total(q) = Loop("total", q, 0, Len(q))[Len(q)]
BY Zenon DEF Total, Loop, LoopRec, LoopStep, Advance

-----------------------------------------------------------------------------
(* The store *)

\* The fields of a store that a block changes.
IsStore(s) ==
  s = [ledger |-> s.ledger, tip |-> s.tip, heights |-> s.heights, txs |-> s.txs, faults |-> s.faults,
       candidates |-> s.candidates, candidateHeights |-> s.candidateHeights, results |-> s.results,
       pool |-> s.pool]

\* The index of heights is the branch of the tip, block by block.
Linked(s) ==
  /\ s.tip \in AllBlocks
  /\ s.heights \in [0..Height(s.tip) -> AllBlocks]
  /\ s.heights[Height(s.tip)] = s.tip
  /\ \A h \in 0..Height(s.tip) : Height(s.heights[h]) = h
  /\ \A h \in 1..Height(s.tip) : Tree[s.heights[h]].prev = s.heights[h - 1]

\* The other families hold what the index names.
Indexed(s) ==
  /\ s.ledger = {s.heights[h] : h \in 0..Height(s.tip)}
  /\ s.txs = UNION {Txs(s.heights[h]) : h \in 0..Height(s.tip)}
  /\ s.faults = UNION {Faults(s.heights[h]) : h \in 0..Height(s.tip)}

\* A fault is stored no earlier than the round it happened in.  VerifyFaults
\* looks for it in the blocks from an epoch before that round on, so this is
\* what makes the search complete.
FaultsDated(s) ==
  \A h \in 0..Height(s.tip) : \A f \in Faults(s.heights[h]) :
    FaultHeader[f[2]] = FaultHeader[f[1]] /\ FaultHeader[f[1]].round \in 0..h

FaultsApart(s) ==
  \A h, k \in 0..Height(s.tip) : \A f \in Faults(s.heights[h]), g \in Faults(s.heights[k]) :
    Same(f, g) => h = k

StoreInv(s) == IsStore(s) /\ Linked(s) /\ Indexed(s) /\ FaultsDated(s) /\ FaultsApart(s)

LEMMA HeightNat == \A b \in AllBlocks : Height(b) \in Nat
BY StoreAssumption

LEMMA StoreFields ==
  ASSUME NEW s, IsStore(s), NEW b, NEW r, r = StoreBlock(s, b)
  PROVE  /\ IsStore(r) /\ r.tip = b
         /\ r.ledger = s.ledger \cup {b} /\ r.heights = Put(s.heights, Height(b), b)
         /\ r.txs = s.txs \cup Txs(b) /\ r.faults = s.faults \cup Faults(b)
BY DEF IsStore, StoreBlock

LEMMA RevertFields ==
  ASSUME NEW s, IsStore(s), NEW b, NEW r, r = RevertBlock(s, b)
  PROVE  /\ IsStore(r) /\ r.tip = Tree[b].prev
         /\ r.ledger = s.ledger \ {b}
         /\ r.heights = [h \in DOMAIN s.heights \ {Height(b)} |-> s.heights[h]]
         /\ r.txs = s.txs \ Txs(b) /\ r.faults = s.faults \ Faults(b)
BY DEF IsStore, RevertBlock, DeleteBlock, Restrict

\* Walking from the tip meets the blocks of the index.
LEMMA BranchOfTip ==
  ASSUME NEW s, Linked(s), NEW h \in Nat
  PROVE  Branch(s.tip, h) = {s.heights[k] : k \in {k \in 0..Height(s.tip) : k >= h}}
<1>1. PICK H \in Nat : H = Height(s.tip)
  BY HeightNat DEF Linked
<1>2. PICK w : w = Loop("walk", <<>>, s.tip, H)
  OBVIOUS
<1>3. w[0] = s.tip /\ \A n \in 1..H : w[n] = Tree[w[n - 1]].prev
  BY <1>2, LoopFacts DEF Advance
<1> DEFINE T == {n \in 0..H : w[n] = s.heights[H - n]}
<1>4. 0 \in T
  BY <1>1, <1>3 DEF Linked
<1>5. ASSUME NEW n \in 0..(H - 1), n \in T PROVE n + 1 \in T
  <2>1. PICK m \in 1..H : m = n + 1 /\ m - 1 = n
    OBVIOUS
  <2>2. w[m] = Tree[s.heights[H - n]].prev
    BY <1>3, <1>5, <2>1
  <2>3. H - n \in 1..H /\ (H - n) - 1 = H - m
    BY <2>1
  <2>4. Tree[s.heights[H - n]].prev = s.heights[(H - n) - 1]
    BY <1>1, <2>3 DEF Linked
  <2> QED BY <2>1, <2>2, <2>3, <2>4
<1>6. \A n \in 0..H : w[n] = s.heights[H - n]
  <2>1. 0..H \subseteq T
    <3> HIDE DEF T
    <3> QED BY <1>4, <1>5, UpTo
  <2> QED BY <2>1
<1>7. Branch(s.tip, h) = {w[n] : n \in {n \in 0..H : H - n >= h}}
  BY <1>1, <1>2, BranchLoop
<1>8. ASSUME NEW k \in 0..H, k >= h PROVE s.heights[k] \in Branch(s.tip, h)
  <2>1. H - k \in {n \in 0..H : H - n >= h} /\ H - (H - k) = k
    BY <1>8
  <2>2. w[H - k] = s.heights[k]
    BY <1>6, <2>1
  <2> QED BY <1>7, <2>1, <2>2
<1>9. ASSUME NEW x \in Branch(s.tip, h) PROVE \E k \in 0..H : k >= h /\ x = s.heights[k]
  <2>1. PICK n \in 0..H : H - n >= h /\ x = w[n]
    BY <1>7
  <2>2. H - n \in 0..H /\ x = s.heights[H - n]
    BY <1>6, <2>1
  <2> QED BY <2>1, <2>2
<1> QED BY <1>1, <1>8, <1>9

-----------------------------------------------------------------------------
(* Blocks are stored and reverted *)

LEMMA EmptyStoreInv == StoreInv(EmptyStore)
<1>1. PICK s : s = EmptyStore
  OBVIOUS
<1>2. /\ IsStore(s) /\ s.tip = Genesis0 /\ s.ledger = {Genesis0} /\ s.heights = [h \in {0} |-> Genesis0]
      /\ s.txs = {} /\ s.faults = {}
  BY <1>1 DEF EmptyStore, IsStore
<1>3. Height(s.tip) = 0 /\ 0..0 = {0} /\ 1..0 = {} /\ s.heights[0] = Genesis0
  BY <1>2, StoreAssumption
<1>4. Linked(s)
  BY <1>2, <1>3, StoreAssumption DEF Linked
<1>5. Indexed(s)
  BY <1>2, <1>3, StoreAssumption DEF Indexed
<1>6. FaultsDated(s) /\ FaultsApart(s)
  BY <1>2, <1>3, StoreAssumption DEF FaultsDated, FaultsApart
<1> QED BY <1>1, <1>2, <1>4, <1>5, <1>6 DEF StoreInv

\* VerifyFaults is right: a fault it lets pass is in no block of the branch.
LEMMA FaultIsNew ==
  ASSUME NEW s, StoreInv(s), NEW height \in Nat, NEW fs, VerifyFaults(s, height, fs),
         NEW f \in fs, NEW k \in 0..Height(s.tip), NEW g \in Faults(s.heights[k])
  PROVE  ~Same(f, g)
<1> SUFFICES ASSUME Same(f, g) PROVE FALSE
  OBVIOUS
<1>1. PICK H \in Nat : H = Height(s.tip)
  BY HeightNat DEF StoreInv, Linked
<1>2. PICK r : r = FaultHeader[f[1]].round
  OBVIOUS
<1>3. /\ FaultHeader[f[2]] = FaultHeader[f[1]] /\ r \in Minus(height, EpochBlocks)..height
      /\ \A x \in FaultsByBlock(s, Minus(r, EpochBlocks)) : ~Same(f, x)
  BY <1>2 DEF VerifyFaults
<1>4. FaultHeader[g[1]] = FaultHeader[f[1]]
  BY <1>3 DEF Same
<1>5. r \in 0..k /\ r \in Nat
  BY <1>1, <1>2, <1>4 DEF StoreInv, FaultsDated
<1>6. Minus(r, EpochBlocks) \in Nat /\ Minus(r, EpochBlocks) <= k
  BY <1>5, StoreAssumption DEF Minus
<1>7. s.heights[k] \in Branch(s.tip, Minus(r, EpochBlocks))
  BY <1>1, <1>6, BranchOfTip DEF StoreInv
<1>8. g \in FaultsByBlock(s, Minus(r, EpochBlocks))
  BY <1>7 DEF FaultsByBlock
<1> QED BY <1>3, <1>8

\* Same does not depend on the order.
LEMMA SameSymmetric == \A f, g : Same(f, g) => Same(g, f)
BY DEF Same

LEMMA StoreBlockInv ==
  ASSUME NEW s, StoreInv(s), NEW b \in AllBlocks, Tree[b].prev = s.tip,
         VerifyFaults(s, Height(b), Faults(b))
  PROVE  StoreInv(StoreBlock(s, b))
<1>1. PICK H \in Nat : H = Height(s.tip)
  BY HeightNat DEF StoreInv, Linked
<1>2. b # Genesis0 /\ Height(b) = H + 1
  BY <1>1, StoreAssumption DEF StoreInv, Linked
<1>3. PICK r : r = StoreBlock(s, b)
  OBVIOUS
<1>4. /\ IsStore(r) /\ r.tip = b
      /\ r.ledger = s.ledger \cup {b} /\ r.heights = Put(s.heights, H + 1, b)
      /\ r.txs = s.txs \cup Txs(b) /\ r.faults = s.faults \cup Faults(b)
  BY <1>2, <1>3, StoreFields DEF StoreInv
<1>5. s.heights \in [0..H -> AllBlocks]
  BY <1>1 DEF StoreInv, Linked
<1>6. 0..(H + 1) = (0..H) \cup {H + 1} /\ H + 1 \notin 0..H /\ H \in 0..H
  BY <1>1
<1>7. r.heights \in [0..(H + 1) -> AllBlocks] /\ r.heights[H + 1] = b /\ \A h \in 0..H : r.heights[h] = s.heights[h]
  BY <1>4, <1>5, <1>6 DEF Put
<1>8. /\ s.heights[H] = s.tip
      /\ \A h \in 0..H : Height(s.heights[h]) = h
      /\ \A h \in 1..H : Tree[s.heights[h]].prev = s.heights[h - 1]
  BY <1>1 DEF StoreInv, Linked
<1>9. \A h \in 0..(H + 1) : Height(r.heights[h]) = h
  BY <1>2, <1>6, <1>7, <1>8
<1>10. ASSUME NEW h \in 1..(H + 1) PROVE Tree[r.heights[h]].prev = r.heights[h - 1]
  <2>1. CASE h = H + 1
    <3>1. h - 1 = H
      BY <2>1
    <3> QED BY <1>6, <1>7, <1>8, <2>1, <3>1
  <2>2. CASE h # H + 1
    <3>1. h \in 0..H /\ h - 1 \in 0..H /\ h \in 1..H
      BY <2>2
    <3> QED BY <1>7, <1>8, <3>1
  <2> QED BY <2>1, <2>2
<1>11. Linked(r)
  BY <1>2, <1>4, <1>7, <1>9, <1>10 DEF Linked
<1>12. Indexed(r)
  <2>1. /\ s.ledger = {s.heights[h] : h \in 0..H}
        /\ s.txs = UNION {Txs(s.heights[h]) : h \in 0..H}
        /\ s.faults = UNION {Faults(s.heights[h]) : h \in 0..H}
    BY <1>1 DEF StoreInv, Indexed
  <2>2. r.ledger = {r.heights[h] : h \in 0..(H + 1)}
    BY <1>4, <1>6, <1>7, <2>1
  <2>3. r.txs = UNION {Txs(r.heights[h]) : h \in 0..(H + 1)}
    BY <1>4, <1>6, <1>7, <2>1
  <2>4. r.faults = UNION {Faults(r.heights[h]) : h \in 0..(H + 1)}
    BY <1>4, <1>6, <1>7, <2>1
  <2> QED BY <1>2, <1>4, <2>2, <2>3, <2>4 DEF Indexed
<1>13. ASSUME NEW h \in 0..(H + 1), NEW f \in Faults(r.heights[h])
       PROVE  FaultHeader[f[2]] = FaultHeader[f[1]] /\ FaultHeader[f[1]].round \in 0..h
  <2>1. CASE h = H + 1
    <3>1. FaultHeader[f[2]] = FaultHeader[f[1]] /\ FaultHeader[f[1]].round \in Minus(h, EpochBlocks)..h
      BY <1>2, <1>7, <1>13, <2>1 DEF VerifyFaults
    <3>2. Minus(h, EpochBlocks) \in Nat
      BY StoreAssumption DEF Minus
    <3> QED BY <3>1, <3>2
  <2>2. CASE h # H + 1
    <3>1. h \in 0..H /\ f \in Faults(s.heights[h])
      BY <1>6, <1>7, <1>13, <2>2
    <3> QED BY <1>1, <3>1 DEF StoreInv, FaultsDated
  <2> QED BY <2>1, <2>2
<1>14. ASSUME NEW h \in 0..(H + 1), NEW k \in 0..(H + 1), NEW f \in Faults(r.heights[h]),
              NEW g \in Faults(r.heights[k]), Same(f, g)
       PROVE  h = k
  <2>1. ASSUME NEW x \in Faults(b), NEW n \in 0..H, NEW y \in Faults(s.heights[n]) PROVE ~Same(x, y)
    <3>1. Height(b) \in Nat
      BY HeightNat
    <3>2. n \in 0..Height(s.tip)
      BY <1>1
    <3> QED BY <2>1, <3>1, <3>2, FaultIsNew
  <2>2. CASE h = H + 1 /\ k # H + 1
    <3>1. f \in Faults(b) /\ k \in 0..H /\ g \in Faults(s.heights[k])
      BY <1>6, <1>7, <1>14, <2>2
    <3> QED BY <1>14, <2>1, <3>1
  <2>3. CASE h # H + 1 /\ k = H + 1
    <3>1. g \in Faults(b) /\ h \in 0..H /\ f \in Faults(s.heights[h])
      BY <1>6, <1>7, <1>14, <2>3
    <3> QED BY <1>14, <2>1, <3>1, SameSymmetric
  <2>4. CASE h # H + 1 /\ k # H + 1
    <3>1. h \in 0..H /\ k \in 0..H /\ f \in Faults(s.heights[h]) /\ g \in Faults(s.heights[k])
      BY <1>6, <1>7, <1>14, <2>4
    <3> QED BY <1>1, <1>14, <3>1 DEF StoreInv, FaultsApart
  <2> QED BY <2>2, <2>3, <2>4
<1>15. FaultsDated(r) /\ FaultsApart(r)
  BY <1>2, <1>4, <1>13, <1>14 DEF FaultsDated, FaultsApart
<1> QED BY <1>3, <1>4, <1>11, <1>12, <1>15 DEF StoreInv

LEMMA RevertBlockInv ==
  ASSUME NEW s, StoreInv(s), Height(s.tip) > 0, NEW r, r = RevertBlock(s, s.heights[Height(s.tip)])
  PROVE  StoreInv(r) /\ Height(r.tip) = Height(s.tip) - 1
<1>1. PICK H \in Nat : H = Height(s.tip) /\ H > 0
  BY HeightNat DEF StoreInv, Linked
<1>2. /\ s.heights \in [0..H -> AllBlocks]
      /\ s.tip \in AllBlocks /\ s.heights[H] = s.tip
      /\ \A h \in 0..H : Height(s.heights[h]) = h
      /\ \A h \in 1..H : Tree[s.heights[h]].prev = s.heights[h - 1]
  BY <1>1 DEF StoreInv, Linked
<1>3. /\ IsStore(r) /\ r.tip = Tree[s.tip].prev
      /\ r.ledger = s.ledger \ {s.tip}
      /\ r.heights = [h \in DOMAIN s.heights \ {H} |-> s.heights[h]]
      /\ r.txs = s.txs \ Txs(s.tip) /\ r.faults = s.faults \ Faults(s.tip)
  <2>1. PICK b : b = s.heights[Height(s.tip)]
    OBVIOUS
  <2>2. b = s.tip /\ Height(b) = H /\ r = RevertBlock(s, b) /\ IsStore(s)
    BY <1>1, <1>2, <2>1 DEF StoreInv
  <2>3. /\ IsStore(r) /\ r.tip = Tree[b].prev
        /\ r.ledger = s.ledger \ {b}
        /\ r.heights = [h \in DOMAIN s.heights \ {Height(b)} |-> s.heights[h]]
        /\ r.txs = s.txs \ Txs(b) /\ r.faults = s.faults \ Faults(b)
    BY <2>2, RevertFields
  <2> HIDE DEF IsStore
  <2> QED BY <2>2, <2>3
<1>4. /\ 0..H = (0..(H - 1)) \cup {H} /\ H \notin 0..(H - 1) /\ H - 1 \in 0..(H - 1) /\ H \in 1..H
      /\ \A h \in 1..(H - 1) : h - 1 \in 0..(H - 1) /\ h \in 1..H /\ h \in 0..(H - 1)
  BY <1>1
<1>5. r.heights \in [0..(H - 1) -> AllBlocks] /\ \A h \in 0..(H - 1) : r.heights[h] = s.heights[h]
  BY <1>2, <1>3, <1>4
<1>6. r.tip = s.heights[H - 1]
  BY <1>2, <1>3, <1>4
<1>7. Height(r.tip) = H - 1
  BY <1>2, <1>4, <1>6
<1>8. Linked(r)
  <2>1. \A h \in 0..(H - 1) : Height(r.heights[h]) = h
    BY <1>2, <1>4, <1>5
  <2>2. \A h \in 1..(H - 1) : Tree[r.heights[h]].prev = r.heights[h - 1]
    BY <1>2, <1>4, <1>5
  <2>3. r.tip \in AllBlocks /\ r.heights[H - 1] = r.tip
    BY <1>2, <1>4, <1>5, <1>6
  <2> QED BY <1>5, <1>7, <2>1, <2>2, <2>3 DEF Linked
<1>9. ASSUME NEW h \in 0..(H - 1)
      PROVE  /\ s.heights[h] # s.tip
             /\ Txs(s.heights[h]) \cap Txs(s.tip) = {}
             /\ Faults(s.heights[h]) \cap Faults(s.tip) = {}
  <2>1. h \in 0..H /\ h # H /\ H \in 0..H
    BY <1>4
  <2>2. s.heights[h] # s.tip
    BY <1>2, <2>1
  <2>3. s.heights[h] \in Branch(s.tip, 0)
    <3>1. 0 \in Nat /\ h >= 0
      BY <2>1
    <3> QED BY <1>1, <2>1, <3>1, BranchOfTip DEF StoreInv
  <2>4. Txs(s.tip) \cap Txs(s.heights[h]) = {}
    BY <1>2, <2>2, <2>3, StoreAssumption
  <2>5. ASSUME NEW f \in Faults(s.heights[h]), f \in Faults(s.tip) PROVE FALSE
    <3>1. Same(f, f)
      BY DEF Same
    <3>2. f \in Faults(s.heights[H])
      BY <1>2, <2>5
    <3> QED BY <1>1, <2>1, <3>1, <3>2 DEF StoreInv, FaultsApart
  <2> QED BY <2>2, <2>4, <2>5
<1>10. Indexed(r)
  <2>1. /\ s.ledger = {s.heights[h] : h \in 0..H}
        /\ s.txs = UNION {Txs(s.heights[h]) : h \in 0..H}
        /\ s.faults = UNION {Faults(s.heights[h]) : h \in 0..H}
    BY <1>1 DEF StoreInv, Indexed
  <2>2. r.ledger = {r.heights[h] : h \in 0..(H - 1)}
    BY <1>2, <1>3, <1>4, <1>5, <1>9, <2>1
  <2>3. r.txs = UNION {Txs(r.heights[h]) : h \in 0..(H - 1)}
    BY <1>2, <1>3, <1>4, <1>5, <1>9, <2>1
  <2>4. r.faults = UNION {Faults(r.heights[h]) : h \in 0..(H - 1)}
    BY <1>2, <1>3, <1>4, <1>5, <1>9, <2>1
  <2> QED BY <1>7, <2>2, <2>3, <2>4 DEF Indexed
<1>11. FaultsDated(r)
  <2>1. ASSUME NEW h \in 0..(H - 1), NEW f \in Faults(r.heights[h])
        PROVE  FaultHeader[f[2]] = FaultHeader[f[1]] /\ FaultHeader[f[1]].round \in 0..h
    <3>1. h \in 0..H /\ f \in Faults(s.heights[h])
      BY <1>4, <1>5, <2>1
    <3> QED BY <1>1, <3>1 DEF StoreInv, FaultsDated
  <2> QED BY <1>7, <2>1 DEF FaultsDated
<1>12. FaultsApart(r)
  <2>1. ASSUME NEW h \in 0..(H - 1), NEW k \in 0..(H - 1), NEW f \in Faults(r.heights[h]),
               NEW g \in Faults(r.heights[k]), Same(f, g)
        PROVE  h = k
    <3>1. h \in 0..H /\ k \in 0..H /\ f \in Faults(s.heights[h]) /\ g \in Faults(s.heights[k])
      BY <1>4, <1>5, <2>1
    <3> QED BY <1>1, <2>1, <3>1 DEF StoreInv, FaultsApart
  <2> QED BY <1>7, <2>1 DEF FaultsApart
<1> QED BY <1>1, <1>3, <1>7, <1>8, <1>10, <1>11, <1>12 DEF StoreInv

LEMMA RevertBlocksInv ==
  ASSUME NEW s, StoreInv(s), NEW n \in 0..Height(s.tip)
  PROVE  StoreInv(RevertBlocks(s, n))
<1>1. PICK H \in Nat : H = Height(s.tip)
  BY HeightNat DEF StoreInv, Linked
<1>2. n \in Nat
  BY <1>1
<1>3. PICK f : f = Loop("revert", <<>>, s, n)
  OBVIOUS
<1>4. f[0] = s /\ \A k \in 1..n : f[k] = RevertBlock(f[k - 1], f[k - 1].heights[Height(f[k - 1].tip)])
  BY <1>2, <1>3, LoopFacts DEF Advance
<1> DEFINE T == {k \in 0..n : StoreInv(f[k]) /\ Height(f[k].tip) = H - k}
<1>5. 0 \in T
  BY <1>1, <1>2, <1>4
<1>6. ASSUME NEW k \in 0..(n - 1), k \in T PROVE k + 1 \in T
  <2>1. PICK j \in 1..n : j = k + 1 /\ j - 1 = k /\ j \in 0..n
    BY <1>2
  <2>2. StoreInv(f[k]) /\ Height(f[k].tip) = H - k /\ H - k > 0
    BY <1>1, <1>2, <1>6
  <2>3. f[j] = RevertBlock(f[k], f[k].heights[Height(f[k].tip)])
    BY <1>4, <2>1
  <2>4. StoreInv(f[j]) /\ Height(f[j].tip) = (H - k) - 1
    BY <2>2, <2>3, RevertBlockInv
  <2>5. (H - k) - 1 = H - j
    BY <2>1
  <2>6. j \in T
    BY <2>1, <2>4, <2>5
  <2> QED BY <2>1, <2>6
<1>7. n \in T
  <2>1. 0..n \subseteq T
    <3> HIDE DEF T
    <3> QED BY <1>2, <1>5, <1>6, UpTo
  <2>2. n \in 0..n
    BY <1>2
  <2> QED BY <2>1, <2>2
<1> QED BY <1>3, <1>7, RevertLoop

\* Writes that leave the ledger alone.
LEMMA SameLedger ==
  ASSUME NEW s, StoreInv(s), NEW r, IsStore(r), r.tip = s.tip, r.heights = s.heights, r.ledger = s.ledger,
         r.txs = s.txs, r.faults = s.faults
  PROVE  StoreInv(r)
<1>1. Linked(r)
  BY DEF StoreInv, Linked
<1>2. Indexed(r)
  BY DEF StoreInv, Indexed
<1>3. FaultsDated(r) /\ FaultsApart(r)
  BY DEF StoreInv, FaultsDated, FaultsApart
<1> QED BY <1>1, <1>2, <1>3 DEF StoreInv

LEMMA OtherWrites ==
  ASSUME NEW s, StoreInv(s)
  PROVE  /\ StoreInv(CleanUp(s))
         /\ \A b : StoreInv(StoreCandidate(s, b))
         /\ \A key : StoreInv(StoreValidationResult(s, key))
<1>0. IsStore(s)
  BY DEF StoreInv
<1>1. ASSUME NEW t PROVE StoreInv([DeleteCandidates(s, t) EXCEPT !.pool = @ \ Txs(s.tip)])
  <2>1. PICK r : r = [DeleteCandidates(s, t) EXCEPT !.pool = @ \ Txs(s.tip)]
    OBVIOUS
  <2>2. IsStore(r) /\ r.tip = s.tip /\ r.heights = s.heights /\ r.ledger = s.ledger /\ r.txs = s.txs
          /\ r.faults = s.faults
    BY <1>0, <2>1 DEF IsStore, DeleteCandidates
  <2> QED BY <2>1, <2>2, SameLedger
<1>2. StoreInv(CleanUp(s))
  BY <1>1 DEF CleanUp
<1>3. ASSUME NEW b PROVE StoreInv(StoreCandidate(s, b))
  <2>1. PICK r : r = StoreCandidate(s, b)
    OBVIOUS
  <2>2. IsStore(r) /\ r.tip = s.tip /\ r.heights = s.heights /\ r.ledger = s.ledger /\ r.txs = s.txs
          /\ r.faults = s.faults
    BY <1>0, <2>1 DEF IsStore, StoreCandidate
  <2> QED BY <2>1, <2>2, SameLedger
<1>4. ASSUME NEW key PROVE StoreInv(StoreValidationResult(s, key))
  <2>1. PICK r : r = StoreValidationResult(s, key)
    OBVIOUS
  <2>2. IsStore(r) /\ r.tip = s.tip /\ r.heights = s.heights /\ r.ledger = s.ledger /\ r.txs = s.txs
          /\ r.faults = s.faults
    BY <1>0, <2>1 DEF IsStore, StoreValidationResult
  <2> QED BY <2>1, <2>2, SameLedger
<1> QED BY <1>2, <1>3, <1>4

-----------------------------------------------------------------------------
(* LedgerSound *)

LEMMA StoreSound == StoreInv(db) => LedgerSound
<1> SUFFICES ASSUME StoreInv(db) PROVE LedgerSound
  OBVIOUS
<1>1. PICK H \in Nat : H = Height(db.tip)
  BY HeightNat DEF StoreInv, Linked
<1>2. PICK B : B = Branch(db.tip, 0)
  OBVIOUS
<1>3. B = {db.heights[k] : k \in 0..H}
  <2>1. 0 \in Nat /\ {k \in 0..H : k >= 0} = 0..H
    BY <1>1
  <2>2. B = {db.heights[k] : k \in {k \in 0..Height(db.tip) : k >= 0}}
    BY <1>2, <2>1, BranchOfTip DEF StoreInv
  <2> QED BY <1>1, <2>1, <2>2
<1>4. db.heights \in [0..H -> AllBlocks] /\ \A h \in 0..H : Height(db.heights[h]) = h
  BY <1>1 DEF StoreInv, Linked
<1>5. \A h \in 0..H : db.heights[h] = CHOOSE b \in B : Height(b) = h
  <2> SUFFICES ASSUME NEW h \in 0..H PROVE db.heights[h] = CHOOSE b \in B : Height(b) = h
    OBVIOUS
  <2>1. db.heights[h] \in B /\ Height(db.heights[h]) = h
    BY <1>3, <1>4
  <2>2. \A b \in B : Height(b) = h => b = db.heights[h]
    BY <1>3, <1>4
  <2> QED BY <2>1, <2>2
<1>6. db.heights = [h \in 0..H |-> CHOOSE b \in B : Height(b) = h]
  BY <1>4, <1>5
<1>7. db.ledger = B /\ db.txs = UNION {Txs(b) : b \in B} /\ db.faults = UNION {Faults(b) : b \in B}
  <2>1. /\ db.ledger = {db.heights[h] : h \in 0..H}
        /\ db.txs = UNION {Txs(db.heights[h]) : h \in 0..H}
        /\ db.faults = UNION {Faults(db.heights[h]) : h \in 0..H}
    BY <1>1 DEF StoreInv, Indexed
  <2>2. db.txs = UNION {Txs(b) : b \in B}
    BY <1>3, <2>1
  <2>3. db.faults = UNION {Faults(b) : b \in B}
    BY <1>3, <2>1
  <2> QED BY <1>3, <2>1, <2>2, <2>3
<1>8. LedgerWhole
  BY <1>1, <1>2, <1>6, <1>7 DEF LedgerWhole
<1>9. ASSUME NEW b \in B, NEW c \in B, NEW f \in Faults(b), NEW g \in Faults(c), {f[1], f[2]} = {g[1], g[2]}
      PROVE  b = c
  <2>1. PICK h \in 0..H, k \in 0..H : b = db.heights[h] /\ c = db.heights[k]
    BY <1>3
  <2>2. Same(f, g)
    BY <1>9 DEF Same
  <2>3. h = k
    BY <1>1, <2>1, <2>2 DEF StoreInv, FaultsApart
  <2> QED BY <2>1, <2>3
<1>10. FaultsOnce
  BY <1>7, <1>9 DEF FaultsOnce
<1> QED BY <1>8, <1>10 DEF LedgerSound

LEMMA StoreStep == StoreInv(db) /\ [BrokerNext]_brokerVars => StoreInv(db)'
<1> SUFFICES ASSUME StoreInv(db), [BrokerNext]_brokerVars PROVE StoreInv(db')
  BY DEF StoreInv, IsStore, Linked, Indexed, FaultsDated, FaultsApart
<1>1. CASE UNCHANGED db
  BY <1>1
<1>2. ASSUME NEW b \in AllBlocks, CommitBlock(b) PROVE StoreInv(db')
  BY <1>2, StoreBlockInv DEF CommitBlock
<1>3. ASSUME NEW b \in AllBlocks, RevertTo(b) PROVE StoreInv(db')
  <2>1. PICK H \in Nat : H = Height(db.tip)
    BY HeightNat DEF StoreInv, Linked
  <2>2. PICK h \in 0..H : b = db.heights[h] /\ Height(b) = h
    BY <1>3, <2>1 DEF RevertTo, StoreInv, Linked, Indexed
  <2>3. Height(db.tip) - Height(b) \in 0..Height(db.tip)
    BY <2>1, <2>2
  <2> QED BY <1>3, <2>3, RevertBlocksInv DEF RevertTo
<1>4. ASSUME CleanUpDb PROVE StoreInv(db')
  BY <1>4, OtherWrites DEF CleanUpDb
<1>5. ASSUME NEW b, StoreRoundCandidate(b) PROVE StoreInv(db')
  BY <1>5, OtherWrites DEF StoreRoundCandidate
<1>6. ASSUME NEW b, StoreRoundResult(b) PROVE StoreInv(db')
  BY <1>6, OtherWrites DEF StoreRoundResult
<1>7. ASSUME NEW m, Receive(m) PROVE StoreInv(db')
  BY <1>7 DEF Receive
<1>8. ASSUME NEW p, StartRequest(p) PROVE StoreInv(db')
  BY <1>8 DEF StartRequest
<1>9. ASSUME NEW p, ReadLight(p) \/ ReadBlock(p) \/ ReadOther(p) \/ ReadNext(p) \/ Answer(p)
      PROVE  StoreInv(db')
  BY <1>9 DEF ReadLight, ReadBlock, ReadOther, ReadNext, Answer
<1> QED BY <1>1, <1>2, <1>3, <1>4, <1>5, <1>6, <1>7, <1>8, <1>9 DEF BrokerNext, brokerVars

\* The ledger of a node is sound through every reorganisation, for any tree of
\* valid blocks: the column families hold exactly the branch of the tip
\* (store_block, delete_block, try_revert), and no fault is on it twice, though
\* verify_faults looks no further back than an epoch before the fault.
THEOREM LedgerStaysSound == BrokerSpec => []LedgerSound
<1>1. BrokerInit => StoreInv(db)
  BY EmptyStoreInv DEF BrokerInit
<1>2. BrokerSpec => []StoreInv(db)
  BY <1>1, StoreStep, PTL DEF BrokerSpec
<1> QED BY <1>2, StoreSound, PTL

-----------------------------------------------------------------------------
(* AnswersFromLedger *)

IsList(s) == \E S : s \in Seq(S)

Appended(r, s, e) ==
  /\ IsList(r) /\ Len(s) \in Nat /\ Len(r) = Len(s) + 1
  /\ r[Len(s) + 1] = e
  /\ \A i \in 1..Len(s) : r[i] = s[i]

LEMMA AppendFacts ==
  ASSUME NEW s, IsList(s), NEW e
  PROVE  Appended(Append(s, e), s, e)
<1>1. PICK S : s \in Seq(S)
  BY DEF IsList
<1>2. PICK T : T = S \cup {e}
  OBVIOUS
<1>3. s \in Seq(T) /\ e \in T
  BY <1>1, <1>2
<1>4. PICK r : r = Append(s, e)
  OBVIOUS
<1>5. r \in Seq(T) /\ Len(s) \in Nat /\ Len(r) = Len(s) + 1 /\ r[Len(s) + 1] = e
        /\ \A i \in 1..Len(s) : r[i] = s[i]
  BY <1>3, <1>4
<1>6. Appended(r, s, e)
  BY <1>5 DEF Appended, IsList
<1> QED BY <1>4, <1>6, Zenon

LEMMA EmptyList == IsList(<<>>) /\ Len(<<>>) = 0
<1>1. <<>> \in Seq({})
  OBVIOUS
<1> QED BY <1>1 DEF IsList

\* Blocks of one branch that follow the block a.
Follows(a, list) ==
  \A i \in 1..Len(list) :
    Tree[list[i]].prev = (IF i = 1 THEN a ELSE list[i - 1]) /\ Height(list[i]) = Height(a) + i

LastOf(a, list) == IF Len(list) = 0 THEN a ELSE list[Len(list)]

\* On the ledger, at one of the tips: a block, and a block with those that follow it.
InLedger(b, tips) == \E x \in tips : b \in Branch(x, 0)
Snapshot(a, list, tips) ==
  \E x \in tips : a \in Branch(x, 0) /\ \A i \in 1..Len(list) : list[i] \in Branch(x, 0)

AskedFor(item, b) == item.key = IF item.by = "hash" THEN b ELSE Height(b)

\* The blocks found by their hash or height.
FoundOne(item, value, tips) ==
  item.by \in {"hash", "height"} => \A b \in value : AskedFor(item, b) /\ InLedger(b, tips)
Found(list, tips) == \A i \in 1..Len(list) : FoundOne(list[i].item, list[i].value, tips)

IsTask(t) ==
  t = [req |-> t.req, todo |-> t.todo, got |-> t.got, half |-> t.half, prev |-> t.prev, tips |-> t.tips]

Locator(t) == t.req.items[1].key

\* What a task has read was on the ledger since it began; the hashes it has
\* collected form, with its locator, a stretch of the ledger of one moment.
TaskInv(t) ==
  /\ IsTask(t) /\ t.req \in Requests /\ IsList(t.got)
  /\ \A b \in t.half : b \in AllBlocks /\ FoundOne(Head(t.todo), {b}, t.tips) /\ InLedger(b, t.tips)
  /\ t.req.kind = "GetBlocks" =>
       /\ t.todo \in {t.req.items, <<>>} /\ t.half \subseteq {Locator(t)}
       /\ t.prev = {} => t.got = <<>>
  /\ t.prev # {} =>
       /\ t.req.kind = "GetBlocks" /\ t.todo = <<>> /\ t.half = {} /\ Locator(t) \in AllBlocks
       /\ Follows(Locator(t), t.got) /\ t.prev = {LastOf(Locator(t), t.got)}
       /\ Snapshot(Locator(t), t.got, t.tips)
  /\ t.req.kind = "GetResource" => Found(t.got, t.tips)

BrokerInv ==
  /\ mailbox \in Seq(Requests)
  /\ ongoing = [p \in DOMAIN ongoing |-> ongoing[p]]
  /\ \A p \in DOMAIN ongoing : TaskInv(ongoing[p]) /\ db.tip \in ongoing[p].tips
  /\ AnswersFromLedger

Fits(a, list, b) == Tree[b].prev = LastOf(a, list) /\ Height(b) = Height(a) + Len(list) + 1
ExtendsBy(a, list, b) == Follows(a, list) /\ LastOf(a, list) = b

LEMMA FollowsAppend ==
  ASSUME NEW a \in AllBlocks, NEW list, IsList(list), Follows(a, list), NEW b, Fits(a, list, b)
  PROVE  ExtendsBy(a, Append(list, b), b)
<1>0. PICK r : r = Append(list, b)
  OBVIOUS
<1>1. /\ IsList(r) /\ Len(list) \in Nat /\ Len(r) = Len(list) + 1
      /\ r[Len(list) + 1] = b /\ \A i \in 1..Len(list) : r[i] = list[i]
  <2>1. Appended(r, list, b)
    BY <1>0, AppendFacts, Zenon
  <2> QED BY <2>1 DEF Appended
<1>2. PICK n \in Nat : n = Len(list) /\ Len(r) = n + 1
  BY <1>1
<1>3. ASSUME NEW i \in 1..(n + 1)
      PROVE  Tree[r[i]].prev = (IF i = 1 THEN a ELSE r[i - 1]) /\ Height(r[i]) = Height(a) + i
  <2>1. CASE i \in 1..n
    <3>1. i # 1 => i - 1 \in 1..n
      OBVIOUS
    <3> QED BY <1>1, <1>2, <2>1, <3>1 DEF Follows
  <2>2. CASE i = n + 1
    <3>1. r[i] = b /\ (i = 1 <=> n = 0) /\ (i # 1 => n \in 1..n /\ i - 1 = n)
      BY <1>1, <1>2, <2>2
    <3>2. Height(r[i]) = Height(a) + i
      <4>1. PICK A \in Nat : A = Height(a)
        BY HeightNat
      <4>2. Height(b) = A + n + 1
        BY <1>2, <4>1 DEF Fits
      <4> QED BY <2>2, <3>1, <4>1, <4>2
    <3> QED BY <1>1, <1>2, <3>1, <3>2 DEF LastOf, Fits
  <2>3. i \in 1..n \/ i = n + 1
    OBVIOUS
  <2> QED BY <2>1, <2>2, <2>3
<1>4. ExtendsBy(a, r, b)
  BY <1>1, <1>2, <1>3 DEF ExtendsBy, Follows, LastOf
<1> QED BY <1>0, <1>4, Zenon

\* A block of the ledger whose parent ends the list: then the whole list is on
\* the ledger at this moment.
LEMMA SnapshotNow ==
  ASSUME NEW s, StoreInv(s), NEW a \in AllBlocks, NEW list, IsList(list), Follows(a, list),
         NEW b \in s.ledger, Fits(a, list, b)
  PROVE  /\ a \in Branch(s.tip, 0) /\ b \in Branch(s.tip, 0)
         /\ \A i \in 1..Len(list) : list[i] \in Branch(s.tip, 0)
<1>1. PICK H \in Nat : H = Height(s.tip)
  BY HeightNat DEF StoreInv, Linked
<1>2. PICK n \in Nat : n = Len(list)
  BY DEF IsList
<1>3. PICK A \in Nat : A = Height(a)
  BY HeightNat
<1>4. PICK h \in 0..H : b = s.heights[h] /\ Height(b) = h
  BY <1>1 DEF StoreInv, Linked, Indexed
<1>5. h = A + n + 1 /\ Tree[b].prev = s.heights[A + n] /\ A + n \in 0..H
  <2>1. h = A + n + 1
    BY <1>2, <1>3, <1>4 DEF Fits
  <2>2. h \in 1..H /\ h - 1 = A + n
    BY <2>1
  <2> QED BY <1>1, <1>4, <2>1, <2>2 DEF StoreInv, Linked
<1>6. \A k \in 0..H : s.heights[k] \in Branch(s.tip, 0)
  <2>1. 0 \in Nat /\ \A k \in 0..H : k >= 0
    OBVIOUS
  <2> QED BY <1>1, <2>1, BranchOfTip DEF StoreInv
<1> DEFINE e(j) == IF j = 0 THEN a ELSE list[j]
           T == {k \in 0..n : e(n - k) = s.heights[A + (n - k)]}
<1>7. 0 \in T
  <2>1. e(n) = LastOf(a, list)
    BY <1>2 DEF LastOf
  <2>2. n - 0 = n
    OBVIOUS
  <2> QED BY <1>5, <2>1, <2>2 DEF Fits
<1>8. ASSUME NEW k \in 0..(n - 1), k \in T PROVE k + 1 \in T
  <2>1. PICK j \in 1..n : j = n - k /\ j - 1 = n - (k + 1) /\ A + j \in 1..H /\ A + (j - 1) = (A + j) - 1
    BY <1>5
  <2>2. Tree[list[j]].prev = e(j - 1)
    <3>1. j = 1 <=> j - 1 = 0
      OBVIOUS
    <3> QED BY <1>2, <3>1 DEF Follows
  <2>3. list[j] = s.heights[A + j]
    BY <1>8, <2>1
  <2>4. Tree[s.heights[A + j]].prev = s.heights[(A + j) - 1]
    BY <1>1, <2>1 DEF StoreInv, Linked
  <2>5. e(j - 1) = s.heights[A + (j - 1)]
    BY <2>1, <2>2, <2>3, <2>4
  <2> HIDE DEF e
  <2> QED BY <2>1, <2>5
<1>9. ASSUME NEW j \in 0..n PROVE e(j) \in Branch(s.tip, 0)
  <2>1. 0..n \subseteq T
    <3> HIDE DEF T
    <3> QED BY <1>7, <1>8, UpTo
  <2>2. n - j \in 0..n /\ n - (n - j) = j /\ A + j \in 0..H
    BY <1>5
  <2>3. e(j) = s.heights[A + j]
    <3> HIDE DEF e
    <3> QED BY <2>1, <2>2
  <2> QED BY <1>6, <2>2, <2>3
<1>10. e(0) = a /\ \A i \in 1..n : e(i) = list[i] /\ i \in 0..n
  OBVIOUS
<1>11. 0 \in 0..n
  OBVIOUS
<1> HIDE DEF e
<1> QED BY <1>2, <1>4, <1>6, <1>9, <1>10, <1>11

\* The blocks of the ledger are those of the branch of the tip.
LEMMA LedgerBranch ==
  ASSUME NEW s, StoreInv(s), NEW b \in s.ledger
  PROVE  b \in AllBlocks /\ b \in Branch(s.tip, 0)
<1>1. PICK H \in Nat : H = Height(s.tip)
  BY HeightNat DEF StoreInv, Linked
<1>2. PICK h \in 0..H : b = s.heights[h] /\ h >= 0
  BY <1>1 DEF StoreInv, Linked, Indexed
<1>3. b \in AllBlocks
  BY <1>1, <1>2 DEF StoreInv, Linked
<1>4. Branch(s.tip, 0) = {s.heights[k] : k \in {k \in 0..H : k >= 0}}
  <2>1. Linked(s) /\ 0 \in Nat
    BY DEF StoreInv
  <2> QED BY <1>1, <2>1, BranchOfTip
<1>5. h \in {k \in 0..H : k >= 0}
  BY <1>2
<1> QED BY <1>2, <1>3, <1>4, <1>5

LEMMA FoundAppend ==
  ASSUME NEW list, IsList(list), NEW tips, Found(list, tips), NEW item, NEW value, NEW r,
         r = Append(list, [item |-> item, value |-> value]), FoundOne(item, value, tips)
  PROVE  Found(r, tips)
<1>1. PICK e : e = [item |-> item, value |-> value]
  OBVIOUS
<1>2. /\ IsList(r) /\ Len(list) \in Nat /\ Len(r) = Len(list) + 1
      /\ r[Len(list) + 1] = e /\ \A i \in 1..Len(list) : r[i] = list[i]
  <2>1. Appended(r, list, e)
    BY <1>1, AppendFacts, Zenon
  <2> QED BY <2>1 DEF Appended
<1>3. ASSUME NEW i \in 1..Len(r) PROVE i \in 1..Len(list) \/ i = Len(list) + 1
  BY <1>2
<1>4. e.item = item /\ e.value = value
  BY <1>1
<1> QED BY <1>2, <1>3, <1>4 DEF Found

\* More tips.
LEMMA LaterTips ==
  ASSUME NEW tips, NEW more, tips \subseteq more
  PROVE  /\ \A b : InLedger(b, tips) => InLedger(b, more)
         /\ \A a, list : Snapshot(a, list, tips) => Snapshot(a, list, more)
         /\ \A item, value : FoundOne(item, value, tips) => FoundOne(item, value, more)
         /\ \A list : Found(list, tips) => Found(list, more)
<1>1. \A b : InLedger(b, tips) => InLedger(b, more)
  BY DEF InLedger
<1>2. \A a, list : Snapshot(a, list, tips) => Snapshot(a, list, more)
  BY DEF Snapshot
<1>3. \A item, value : FoundOne(item, value, tips) => FoundOne(item, value, more)
  BY <1>1 DEF FoundOne
<1> QED BY <1>1, <1>2, <1>3 DEF Found

LEMMA TaskWitnesses ==
  ASSUME NEW t, TaskInv(t), NEW tip, NEW r, r = [t EXCEPT !.tips = @ \cup {tip}]
  PROVE  TaskInv(r) /\ tip \in r.tips
<1>1. /\ IsTask(r) /\ r.req = t.req /\ r.todo = t.todo /\ r.got = t.got /\ r.half = t.half
      /\ r.prev = t.prev /\ r.tips = t.tips \cup {tip}
  BY DEF TaskInv, IsTask
<1>2. t.tips \subseteq r.tips /\ tip \in r.tips
  BY <1>1
<1>3. \A b \in r.half : b \in AllBlocks /\ FoundOne(Head(r.todo), {b}, r.tips) /\ InLedger(b, r.tips)
  BY <1>1, <1>2, LaterTips DEF TaskInv
<1>4. t.prev # {} => Snapshot(Locator(t), r.got, r.tips)
  BY <1>1, <1>2, LaterTips DEF TaskInv
<1>5. t.req.kind = "GetResource" => Found(r.got, r.tips)
  BY <1>1, <1>2, LaterTips DEF TaskInv
<1>6. Locator(r) = Locator(t)
  BY <1>1 DEF Locator
<1> QED BY <1>1, <1>2, <1>3, <1>4, <1>5, <1>6 DEF TaskInv

\* A new task, and a task that has looked up an item.
LEMMA TaskBegins == \A m \in Requests : TaskInv(Task(m)) /\ db.tip \in Task(m).tips
<1> SUFFICES ASSUME NEW m \in Requests, NEW t, t = Task(m) PROVE TaskInv(t) /\ db.tip \in t.tips
  OBVIOUS
<1>1. /\ IsTask(t) /\ t.req = m /\ t.todo = m.items /\ t.got = <<>> /\ t.half = {} /\ t.prev = {}
      /\ t.tips = {db.tip}
  BY DEF Task, IsTask
<1>2. Found(<<>>, t.tips)
  BY EmptyList DEF Found
<1> QED BY <1>1, <1>2, EmptyList DEF TaskInv

LEMMA TaskCollects ==
  ASSUME NEW t, TaskInv(t), t.req.kind # "GetBlocks", NEW item, NEW found, FoundOne(item, found, t.tips)
  PROVE  TaskInv(Collect(t, item, found)) /\ Collect(t, item, found).tips = t.tips
<1>1. PICK r : r = Collect(t, item, found)
  OBVIOUS
<1>2. IsTask(r) /\ r.req = t.req /\ r.prev = t.prev /\ r.tips = t.tips /\ r.half = {}
  BY <1>1 DEF TaskInv, IsTask, Collect
<1>3. \/ r.got = t.got
      \/ t.req.kind = "Inv" /\ r.got = Append(t.got, item)
      \/ t.req.kind # "Inv" /\ r.got = Append(t.got, [item |-> item, value |-> found])
  BY <1>1 DEF TaskInv, IsTask, Collect
<1>4. IsList(r.got)
  <2>1. IsList(t.got)
    BY DEF TaskInv
  <2>2. \A e : IsList(Append(t.got, e))
    BY <2>1, AppendFacts, Zenon DEF Appended
  <2> QED BY <1>3, <2>1, <2>2
<1>5. t.req.kind = "GetResource" => Found(r.got, r.tips)
  <2> SUFFICES ASSUME t.req.kind = "GetResource" PROVE Found(r.got, t.tips)
    BY <1>2
  <2>1. Found(t.got, t.tips) /\ IsList(t.got)
    BY DEF TaskInv
  <2>2. CASE r.got = t.got
    BY <2>1, <2>2
  <2>3. CASE r.got = Append(t.got, [item |-> item, value |-> found])
    BY <2>1, <2>3, FoundAppend
  <2> QED BY <1>3, <2>2, <2>3
<1>6. t.req \in Requests /\ t.prev = {}
  BY DEF TaskInv
<1> QED BY <1>1, <1>2, <1>4, <1>5, <1>6 DEF TaskInv

\* The table of tasks after a step.
LEMMA TableFacts ==
  ASSUME BrokerInv, NEW p, NEW t
  PROVE  /\ \A q \in DOMAIN Put(ongoing, p, t) :
              q # p => q \in DOMAIN ongoing /\ Put(ongoing, p, t)[q] = ongoing[q]
         /\ Put(ongoing, p, t)[p] = t
         /\ Put(ongoing, p, t) = [q \in DOMAIN Put(ongoing, p, t) |-> Put(ongoing, p, t)[q]]
BY DEF Put

LEMMA TaskContinues ==
  ASSUME BrokerInv, NEW p \in DOMAIN ongoing, NEW t, TaskInv(t), db.tip \in t.tips,
         Continue(p, t), UNCHANGED <<db, mailbox>>
  PROVE  BrokerInv'
<1>1. ongoing' = [ongoing EXCEPT ![p] = t] /\ reply' = reply /\ mailbox' = mailbox
  BY DEF Continue
<1>2. /\ DOMAIN ongoing' = DOMAIN ongoing /\ ongoing'[p] = t
      /\ \A q \in DOMAIN ongoing : q # p => ongoing'[q] = ongoing[q]
      /\ ongoing' = [q \in DOMAIN ongoing' |-> ongoing'[q]]
  BY <1>1
<1>3. \A q \in DOMAIN ongoing' : TaskInv(ongoing'[q]) /\ db.tip \in ongoing'[q].tips
  BY <1>2 DEF BrokerInv
<1>4. AnswersFromLedger'
  BY <1>1 DEF BrokerInv, AnswersFromLedger, HashesOfOneMoment, BlocksOnceOnLedger
<1> QED BY <1>1, <1>2, <1>3, <1>4 DEF BrokerInv, TaskInv, IsTask, IsList, Locator, Follows, LastOf, InLedger, Snapshot, AskedFor, FoundOne, Found

LEMMA TaskEnds ==
  ASSUME BrokerInv, NEW p \in DOMAIN ongoing, End(p), UNCHANGED <<db, mailbox>>, AnswersFromLedger'
  PROVE  BrokerInv'
<1>1. ongoing' = [q \in DOMAIN ongoing \ {p} |-> ongoing[q]]
  BY DEF End, Restrict
<1>2. \A q \in DOMAIN ongoing' : q \in DOMAIN ongoing /\ ongoing'[q] = ongoing[q]
  BY <1>1
<1>3. \A q \in DOMAIN ongoing' : TaskInv(ongoing'[q]) /\ db.tip \in ongoing'[q].tips
  BY <1>2 DEF BrokerInv
<1>4. ongoing' = [q \in DOMAIN ongoing' |-> ongoing'[q]]
  BY <1>1
<1> QED BY <1>3, <1>4 DEF BrokerInv, TaskInv, IsTask, IsList, Locator, Follows, LastOf, InLedger, Snapshot, AskedFor, FoundOne, Found

\* The index gives the block of the height asked for.
LEMMA IndexedHeight ==
  ASSUME StoreInv(db)
  PROVE  \A h \in DOMAIN db.heights : Height(db.heights[h]) = h
BY DEF StoreInv, Linked

LEMMA BrokerStep == StoreInv(db) /\ BrokerInv /\ [BrokerNext]_brokerVars => BrokerInv'
<1> SUFFICES ASSUME StoreInv(db), BrokerInv, [BrokerNext]_brokerVars PROVE BrokerInv'
  OBVIOUS
<1>1. CASE UNCHANGED <<mailbox, ongoing, reply>> /\ db'.tip = db.tip
  <2>1. AnswersFromLedger'
    BY <1>1 DEF BrokerInv, AnswersFromLedger, HashesOfOneMoment, BlocksOnceOnLedger
  <2> QED BY <1>1, <2>1 DEF BrokerInv, TaskInv, IsTask, IsList, Locator, Follows, LastOf, InLedger, Snapshot, AskedFor, FoundOne, Found
<1>2. ASSUME NEW m \in Requests, Receive(m) PROVE BrokerInv'
  <2>1. mailbox' \in Seq(Requests) /\ ongoing' = ongoing /\ reply' = reply /\ db' = db
    BY <1>2 DEF Receive, BrokerInv
  <2>2. AnswersFromLedger'
    BY <2>1 DEF BrokerInv, AnswersFromLedger, HashesOfOneMoment, BlocksOnceOnLedger
  <2> QED BY <2>1, <2>2 DEF BrokerInv, TaskInv, IsTask, IsList, Locator, Follows, LastOf, InLedger, Snapshot, AskedFor, FoundOne, Found
<1>3. ASSUME NEW p, StartRequest(p) PROVE BrokerInv'
  <2>1. PICK m \in Requests : m = Head(mailbox)
    BY <1>3 DEF StartRequest, BrokerInv
  <2>2. mailbox' \in Seq(Requests) /\ reply' = reply /\ db' = db
    BY <1>3 DEF StartRequest, BrokerInv
  <2>3. AnswersFromLedger'
    BY <2>2 DEF BrokerInv, AnswersFromLedger, HashesOfOneMoment, BlocksOnceOnLedger
  <2>4. ongoing' = ongoing \/ ongoing' = Put(ongoing, p, Task(m))
    BY <1>3, <2>1 DEF StartRequest
  <2>5. PICK t : t = Task(m) /\ TaskInv(t) /\ db.tip \in t.tips
    BY TaskBegins
  <2>6. CASE ongoing' = ongoing
    BY <2>2, <2>3, <2>6 DEF BrokerInv, TaskInv, IsTask, IsList, Locator, Follows, LastOf, InLedger, Snapshot, AskedFor, FoundOne, Found
  <2>7. CASE ongoing' = Put(ongoing, p, t)
    <3>1. \A q \in DOMAIN ongoing' : TaskInv(ongoing'[q]) /\ db.tip \in ongoing'[q].tips
      BY <2>5, <2>7, TableFacts DEF BrokerInv
    <3>2. ongoing' = [q \in DOMAIN ongoing' |-> ongoing'[q]]
      BY <2>7, TableFacts
    <3> QED BY <2>2, <2>3, <3>1, <3>2 DEF BrokerInv, TaskInv, IsTask, IsList, Locator, Follows, LastOf, InLedger, Snapshot, AskedFor, FoundOne, Found
  <2> QED BY <2>4, <2>5, <2>6, <2>7
<1>4. ASSUME NEW p \in DOMAIN ongoing,
             ReadLight(p) \/ ReadBlock(p) \/ ReadOther(p) \/ ReadNext(p) \/ Answer(p)
      PROVE  BrokerInv'
  <2>1. PICK t : t = ongoing[p] /\ TaskInv(t) /\ db.tip \in t.tips
    BY DEF BrokerInv
  <2>2. UNCHANGED <<db, mailbox>>
    BY <1>4 DEF ReadLight, ReadBlock, ReadOther, ReadNext, Answer
  <2>3. reply' = reply => AnswersFromLedger'
    BY DEF BrokerInv, AnswersFromLedger, HashesOfOneMoment, BlocksOnceOnLedger
  <2>4. t.req.kind = "GetBlocks" =>
          /\ t.req.items[1].by = "hash" /\ Head(t.req.items) = t.req.items[1]
    <3> SUFFICES ASSUME t.req.kind = "GetBlocks"
                 PROVE  t.req.items[1].by = "hash" /\ Head(t.req.items) = t.req.items[1]
      OBVIOUS
    <3>1. t.req \in Requests
      BY <2>1 DEF TaskInv
    <3>2. PICK key : key = t.req.items[1].key /\ t.req.items = <<[by |-> "hash", key |-> key]>>
      BY <3>1, RequestsAssumption, Zenon
    <3>3. PICK e : e = [by |-> "hash", key |-> key]
      OBVIOUS
    <3>4. e.by = "hash" /\ t.req.items = <<e>>
      BY <3>2, <3>3
    <3> QED BY <3>4
  <2>5. CASE ReadLight(p)
    <3> DEFINE item == Head(t.todo)
               light == HashOf(item) \cap db.ledger
    <3>1. CASE light # {} /\ Continue(p, [t EXCEPT !.half = light])
      <4>1. PICK r : r = [t EXCEPT !.half = light]
        OBVIOUS
      <4>2. /\ IsTask(r) /\ r.req = t.req /\ r.todo = t.todo /\ r.got = t.got /\ r.prev = t.prev
            /\ r.half = light /\ r.tips = t.tips
        BY <2>1, <4>1 DEF TaskInv, IsTask
      <4>3. t.req.kind = "GetBlocks" => light \subseteq {Locator(t)}
        BY <2>1, <2>4, <2>5 DEF ReadLight, TaskInv, HashOf, Locator
      <4>4. t.prev = {}
        BY <2>1, <2>5 DEF ReadLight, TaskInv
      <4>5. ASSUME NEW b \in light
            PROVE  b \in AllBlocks /\ FoundOne(item, {b}, t.tips) /\ InLedger(b, t.tips)
        <5>1. b \in AllBlocks /\ b \in Branch(db.tip, 0)
          BY LedgerBranch
        <5>2. InLedger(b, t.tips)
          BY <2>1, <5>1 DEF InLedger
        <5>3. item.by \in {"hash", "height"} => AskedFor(item, b)
          BY IndexedHeight DEF HashOf, AskedFor
        <5> QED BY <5>1, <5>2, <5>3 DEF FoundOne
      <4>6. TaskInv(r)
        BY <2>1, <4>2, <4>3, <4>4, <4>5 DEF TaskInv, Locator
      <4> QED BY <2>1, <2>2, <3>1, <4>1, <4>2, <4>6, TaskContinues
    <3>2. CASE item.by = "candidate" /\ Continue(p, Collect(t, item, light \cup ({item.key} \cap db.candidates)))
      <4>1. t.req.kind # "GetBlocks"
        BY <2>1, <2>4, <2>5, <3>2 DEF ReadLight
      <4>2. TaskInv(Collect(t, item, light \cup ({item.key} \cap db.candidates)))
        BY <2>1, <3>2, <4>1, TaskCollects DEF FoundOne
      <4>3. Collect(t, item, light \cup ({item.key} \cap db.candidates)).tips = t.tips
        BY <2>1, <3>2, <4>1, TaskCollects DEF FoundOne
      <4> QED BY <2>1, <2>2, <3>2, <4>2, <4>3, TaskContinues
    <3>3. CASE End(p) /\ UNCHANGED reply
      BY <2>2, <2>3, <3>3, TaskEnds
    <3>4. CASE t.req.kind # "GetBlocks" /\ Continue(p, Collect(t, item, {}))
      <4>1. TaskInv(Collect(t, item, {})) /\ Collect(t, item, {}).tips = t.tips
        BY <2>1, <3>4, TaskCollects DEF FoundOne
      <4> QED BY <2>1, <2>2, <3>4, <4>1, TaskContinues
    <3> QED BY <2>1, <2>5, <3>1, <3>2, <3>3, <3>4 DEF ReadLight
  <2>6. CASE ReadBlock(p)
    <3>1. PICK b : b = CHOOSE x \in t.half : TRUE
      OBVIOUS
    <3>2. b \in t.half
      BY <2>1, <2>6, <3>1 DEF ReadBlock
    <3>3. CASE End(p) /\ UNCHANGED reply
      BY <2>2, <2>3, <3>3, TaskEnds
    <3>4. CASE t.req.kind = "GetBlocks" /\ Continue(p, [t EXCEPT !.half = {}, !.prev = {b}, !.todo = <<>>])
      <4>1. PICK r : r = [t EXCEPT !.half = {}, !.prev = {b}, !.todo = <<>>]
        OBVIOUS
      <4>2. /\ IsTask(r) /\ r.req = t.req /\ r.todo = <<>> /\ r.got = t.got /\ r.prev = {b} /\ r.half = {}
            /\ r.tips = t.tips
        BY <2>1, <4>1 DEF TaskInv, IsTask
      <4>3. b = Locator(t)
        BY <2>1, <3>2, <3>4 DEF TaskInv
      <4>4. t.prev = {} /\ t.got = <<>>
        BY <2>1, <3>2, <3>4 DEF TaskInv
      <4>5. Follows(Locator(t), t.got) /\ LastOf(Locator(t), t.got) = Locator(t)
        BY <4>4, EmptyList DEF Follows, LastOf
      <4>6. Snapshot(Locator(t), t.got, t.tips) /\ Locator(t) \in AllBlocks
        <5>1. InLedger(b, t.tips) /\ b \in AllBlocks
          BY <2>1, <3>2 DEF TaskInv
        <5>2. PICK x \in t.tips : Locator(t) \in Branch(x, 0)
          BY <4>3, <5>1 DEF InLedger
        <5>3. \A i \in 1..Len(t.got) : t.got[i] \in Branch(x, 0)
          BY <4>4, EmptyList
        <5> QED BY <4>3, <5>1, <5>2, <5>3 DEF Snapshot
      <4>7. TaskInv(r)
        BY <2>1, <3>4, <4>2, <4>3, <4>5, <4>6 DEF TaskInv, Locator
      <4> QED BY <2>1, <2>2, <3>4, <4>1, <4>2, <4>7, TaskContinues
    <3>5. CASE t.req.kind # "GetBlocks" /\ Continue(p, Collect(t, Head(t.todo), {b}))
      <4>1. FoundOne(Head(t.todo), {b}, t.tips)
        BY <2>1, <3>2 DEF TaskInv
      <4>2. TaskInv(Collect(t, Head(t.todo), {b})) /\ Collect(t, Head(t.todo), {b}).tips = t.tips
        BY <2>1, <3>5, <4>1, TaskCollects
      <4> QED BY <2>1, <2>2, <3>5, <4>2, TaskContinues
    <3> QED BY <2>1, <2>6, <3>1, <3>3, <3>4, <3>5 DEF ReadBlock
  <2>7. CASE ReadOther(p)
    <3>1. PICK item, found : item = Head(t.todo) /\ Continue(p, Collect(t, item, found))
      BY <2>1, <2>7 DEF ReadOther
    <3>2. t.todo # <<>> /\ item.by \notin {"hash", "height"} /\ (item.by = "candidate" => t.req.kind = "Inv")
      BY <2>1, <2>7, <3>1 DEF ReadOther
    <3>3. t.req.kind # "GetBlocks"
      BY <2>1, <2>4, <3>1, <3>2 DEF TaskInv
    <3>4. TaskInv(Collect(t, item, found)) /\ Collect(t, item, found).tips = t.tips
      BY <2>1, <3>2, <3>3, TaskCollects DEF FoundOne
    <3> QED BY <2>1, <2>2, <3>1, <3>4, TaskContinues
  <2>8. CASE ReadNext(p)
    <3>1. /\ t.prev # {} /\ t.req.kind = "GetBlocks" /\ IsList(t.got) /\ Locator(t) \in AllBlocks
          /\ Follows(Locator(t), t.got) /\ t.prev = {LastOf(Locator(t), t.got)}
          /\ Snapshot(Locator(t), t.got, t.tips)
      BY <2>1, <2>8 DEF ReadNext, TaskInv
    <3>2. CASE End(p) /\ UNCHANGED reply
      BY <2>2, <2>3, <3>2, TaskEnds
    <3>3. CASE End(p) /\ reply' = [kind |-> "Inv", locator |-> t.req.items[1].key, list |-> t.got, tips |-> t.tips]
      <4>1. reply'.kind = "Inv" /\ reply'.locator = Locator(t) /\ reply'.list = t.got /\ reply'.tips = t.tips
        BY <3>3 DEF Locator
      <4>2. AnswersFromLedger'
        BY <3>1, <4>1 DEF AnswersFromLedger, HashesOfOneMoment, BlocksOnceOnLedger, Follows, Snapshot
      <4> QED BY <2>2, <3>3, <4>2, TaskEnds
    <3>4. ASSUME NEW b, b \in db.ledger, LinksTo(b, t),
                 Height(b) = 1 + Height(LastOf(Locator(t), t.got)), Continue(p, [t EXCEPT !.got = Append(@, b), !.prev = {b}])
          PROVE  BrokerInv'
      <4>1. PICK list : list = Append(t.got, b)
        OBVIOUS
      <4>2. PICK r : r = [t EXCEPT !.got = list, !.prev = {b}]
        OBVIOUS
      <4>3. /\ IsTask(r) /\ r.req = t.req /\ r.todo = t.todo /\ r.got = list /\ r.prev = {b}
            /\ r.half = t.half /\ r.tips = t.tips
        BY <2>1, <4>2 DEF TaskInv, IsTask
      <4>4. Tree[b].prev = LastOf(Locator(t), t.got)
        BY <3>1, <3>4 DEF LinksTo
      <4>9. Fits(Locator(t), t.got, b)
        <5>1. PICK n \in Nat : n = Len(t.got)
          BY <3>1 DEF IsList
        <5>2. PICK a \in Nat : a = Height(Locator(t))
          BY <3>1, HeightNat
        <5>3. Height(LastOf(Locator(t), t.got)) = a + n
          BY <3>1, <5>1, <5>2 DEF LastOf, Follows
        <5> QED BY <3>4, <4>4, <5>1, <5>2, <5>3 DEF Fits
      <4>10. /\ Locator(t) \in Branch(db.tip, 0) /\ b \in Branch(db.tip, 0)
             /\ \A i \in 1..Len(t.got) : t.got[i] \in Branch(db.tip, 0)
        BY <3>1, <3>4, <4>9, SnapshotNow
      <4>11. Snapshot(Locator(t), list, t.tips)
        <5>1. /\ Len(t.got) \in Nat /\ Len(list) = Len(t.got) + 1 /\ list[Len(t.got) + 1] = b
              /\ \A i \in 1..Len(t.got) : list[i] = t.got[i]
          <6>1. Appended(list, t.got, b)
            BY <3>1, <4>1, AppendFacts, Zenon
          <6> QED BY <6>1 DEF Appended
        <5>2. \A i \in 1..Len(list) : i \in 1..Len(t.got) \/ i = Len(t.got) + 1
          BY <5>1
        <5>3. \A i \in 1..Len(list) : list[i] \in Branch(db.tip, 0)
          BY <4>10, <5>1, <5>2
        <5> QED BY <2>1, <4>10, <5>3 DEF Snapshot
      <4>5. Follows(Locator(t), list) /\ LastOf(Locator(t), list) = b
        <5>1. IsList(t.got) /\ Follows(Locator(t), t.got) /\ Fits(Locator(t), t.got, b)
          BY <3>1, <4>9
        <5>2. ExtendsBy(Locator(t), Append(t.got, b), b)
          BY <3>1, <5>1, FollowsAppend, Zenon
        <5> QED BY <4>1, <5>2, Zenon DEF ExtendsBy
      <4>6. IsList(list)
        BY <3>1, <4>1, AppendFacts, Zenon DEF Appended
      <4>7. TaskInv(r)
        BY <2>1, <3>1, <4>3, <4>5, <4>6, <4>11 DEF TaskInv, Locator
      <4>8. Continue(p, r)
        BY <3>4, <4>1, <4>2
      <4> QED BY <2>1, <2>2, <4>3, <4>7, <4>8, TaskContinues
    <3>5. PICK x : x = LastOf(Locator(t), t.got) /\ (CHOOSE y \in t.prev : TRUE) = x
      BY <3>1
    <3>6. \A h \in DOMAIN db.heights : Height(db.heights[h]) = h
      BY IndexedHeight
    <3> QED BY <2>1, <2>8, <3>2, <3>3, <3>4, <3>5, <3>6 DEF ReadNext
  <2>9. CASE Answer(p)
    <3>1. End(p)
      BY <2>9 DEF Answer
    <3>2. CASE reply' = [kind |-> "Blocks", list |-> t.got, tips |-> t.tips] /\ t.req.kind = "GetResource"
      <4>1. reply'.kind = "Blocks" /\ reply'.list = t.got /\ reply'.tips = t.tips /\ Found(t.got, t.tips)
        BY <2>1, <3>2 DEF TaskInv
      <4>2. AnswersFromLedger'
        BY <4>1 DEF AnswersFromLedger, HashesOfOneMoment, BlocksOnceOnLedger, Found, FoundOne, AskedFor, InLedger
      <4> QED BY <2>2, <3>1, <4>2, TaskEnds
    <3>3. ASSUME reply'.kind \in {"GetResource", "Pool"} PROVE BrokerInv'
      <4>1. AnswersFromLedger'
        BY <3>3 DEF AnswersFromLedger, HashesOfOneMoment, BlocksOnceOnLedger
      <4> QED BY <2>2, <3>1, <4>1, TaskEnds
    <3>4. CASE UNCHANGED reply
      BY <2>2, <2>3, <3>1, <3>4, TaskEnds
    <3> QED BY <2>1, <2>9, <3>2, <3>3, <3>4 DEF Answer
  <2> QED BY <1>4, <2>5, <2>6, <2>7, <2>8, <2>9
<1>5. ASSUME NEW b, StoreRoundCandidate(b) \/ StoreRoundResult(b) \/ CleanUpDb
      PROVE  BrokerInv'
  <2>1. UNCHANGED <<mailbox, ongoing, reply>>
    BY <1>5 DEF StoreRoundCandidate, StoreRoundResult, CleanUpDb
  <2>2. IsStore(db)
    BY DEF StoreInv
  <2>3. db'.tip = db.tip
    BY <1>5, <2>2 DEF StoreRoundCandidate, StoreRoundResult, CleanUpDb, IsStore, CleanUp, DeleteCandidates,
      StoreCandidate, StoreValidationResult
  <2> QED BY <1>1, <2>1, <2>3
<1>7. ASSUME NEW b, CommitBlock(b) \/ RevertTo(b) PROVE BrokerInv'
  <2>1. PICK tip : tip = db'.tip
    OBVIOUS
  <2>2. /\ UNCHANGED <<mailbox, reply>>
        /\ ongoing' = [p \in DOMAIN ongoing |-> [ongoing[p] EXCEPT !.tips = @ \cup {tip}]]
    BY <1>7, <2>1 DEF CommitBlock, RevertTo, Witness
  <2>3. \A q \in DOMAIN ongoing' : TaskInv(ongoing'[q]) /\ tip \in ongoing'[q].tips
    BY <2>2, TaskWitnesses DEF BrokerInv
  <2>4. \A q \in DOMAIN ongoing' : TaskInv(ongoing'[q]) /\ db'.tip \in ongoing'[q].tips
    BY <2>1, <2>3
  <2>5. mailbox' \in Seq(Requests)
    BY <2>2 DEF BrokerInv
  <2>6. ongoing' = [q \in DOMAIN ongoing' |-> ongoing'[q]]
    BY <2>2
  <2>7. AnswersFromLedger'
    BY <2>2 DEF BrokerInv, AnswersFromLedger, HashesOfOneMoment, BlocksOnceOnLedger
  <2> QED BY <2>4, <2>5, <2>6, <2>7 DEF BrokerInv, TaskInv, IsTask, IsList, Locator, Follows, LastOf, InLedger, Snapshot, AskedFor, FoundOne, Found
<1>6. CASE UNCHANGED brokerVars
  BY <1>1, <1>6 DEF brokerVars
<1> QED BY <1>2, <1>3, <1>4, <1>5, <1>6, <1>7 DEF BrokerNext

\* What the broker sends a peer was on the ledger while the request was served,
\* for any tree of blocks, any requests and however the ledger is reorganised
\* between two reads of a task: the hashes that answer a GetBlocks are a stretch
\* of the ledger of one moment (handle_get_blocks), and every block that answers
\* a GetResource is the one asked for and was on the ledger at some moment.
THEOREM AnswersComeFromLedger == BrokerSpec => []AnswersFromLedger
<1>1. BrokerInit => StoreInv(db) /\ BrokerInv
  <2> SUFFICES ASSUME BrokerInit PROVE StoreInv(db) /\ BrokerInv
    OBVIOUS
  <2>1. StoreInv(db)
    BY EmptyStoreInv DEF BrokerInit
  <2>2. mailbox = <<>> /\ ongoing = <<>> /\ reply.kind = "none"
    BY DEF BrokerInit, NoReply
  <2> QED BY <2>1, <2>2 DEF BrokerInv, AnswersFromLedger, HashesOfOneMoment, BlocksOnceOnLedger
<1>2. StoreInv(db) /\ BrokerInv /\ [BrokerNext]_brokerVars => (StoreInv(db) /\ BrokerInv)'
  BY StoreStep, BrokerStep
<1>3. BrokerInv => AnswersFromLedger
  BY DEF BrokerInv
<1> QED BY <1>1, <1>2, <1>3, PTL DEF BrokerSpec

-----------------------------------------------------------------------------
(* What a client reads in a frame *)

Lowered(uri) == /\ uri = Uri(uri.component, uri.entity, uri.topic)
                /\ Lowercase(uri.component) = uri.component /\ Lowercase(uri.topic) = uri.topic

LEMMA LowercaseTwice == \A name : Lowercase(Lowercase(name)) = Lowercase(name)
BY LowerAssumption DEF Lowercase

LEMMA SubscriptionsLowered == \A u \in Subscriptions : Lowered(u)
<1> SUFFICES ASSUME NEW p \in Paths, NEW u, u = ParseFromPath(p), u # NoUri PROVE Lowered(u)
  BY DEF Subscriptions
<1>1. PICK a, e, b : u = Uri(Lowercase(a), e, Lowercase(b))
  BY DEF ParseFromPath
<1>2. PICK c, d : c = Lowercase(a) /\ d = Lowercase(b) /\ u = Uri(c, e, d)
  BY <1>1
<1>3. Lowercase(c) = c /\ Lowercase(d) = d
  BY <1>2, LowercaseTwice
<1>4. u.component = c /\ u.entity = e /\ u.topic = d
  BY <1>2 DEF Uri
<1> QED BY <1>2, <1>3, <1>4 DEF Lowered

\* Display and parse_from_path are inverse on a location in lower case.
LEMMA LocationParsed ==
  ASSUME NEW u, Lowered(u)
  PROVE  ParseFromPath(Location(u)) = u
<1>1. \E s : Location(u) = [on |-> TRUE, segments |-> <<s, Segment(u.component, u.entity), Segment(u.topic, None)>>]
  BY Zenon DEF Location
<1>2. PICK s : Location(u) = [on |-> TRUE, segments |-> <<s, Segment(u.component, u.entity), Segment(u.topic, None)>>]
  BY <1>1
<1>3. PICK p : p = Location(u)
  OBVIOUS
<1>4. PICK b, d : b = Segment(u.component, u.entity) /\ d = Segment(u.topic, None)
  OBVIOUS
<1>5. p.on = TRUE /\ p.segments = <<s, b, d>>
  BY <1>2, <1>3, <1>4
<1>6. Len(p.segments) = 3 /\ p.segments[2] = b /\ p.segments[3] = d
  BY <1>5
<1>7. b.name = u.component /\ b.entity = u.entity /\ d.name = u.topic
  BY <1>4 DEF Segment
<1>8. ParseFromPath(p) = Uri(Lowercase(u.component), u.entity, Lowercase(u.topic))
  BY <1>5, <1>6, <1>7 DEF ParseFromPath
<1> QED BY <1>3, <1>8 DEF Lowered

\* A chunk is parsed back into what was put together.
LEMMA ChunkParsed ==
  ASSUME NEW S, NEW h \in Seq(S), NEW data \in Seq(S), NEW n \in S, n = Len(h)
  PROVE  ParseChunk(<<n>> \o h \o data) = <<h, data>>
<1>1. PICK bytes : bytes = <<n>> \o h \o data
  OBVIOUS
<1>2. bytes \in Seq(S) /\ bytes # <<>> /\ Head(bytes) = n
  BY <1>1
<1>3. PICK rest : rest = Tail(bytes)
  OBVIOUS
<1>4. /\ rest \in Seq(S) /\ Len(rest) = n + Len(data)
      /\ \A i \in 1..n : rest[i] = h[i]
      /\ \A i \in 1..Len(data) : rest[n + i] = data[i]
  BY <1>1, <1>3
<1>5. SubSeq(rest, 1, n) = h
  BY <1>4
<1>6. SubSeq(rest, n + 1, Len(rest)) = data
  <2>1. PICK k \in Nat : k = Len(data) /\ n \in Nat /\ Len(rest) = n + k
    BY <1>4
  <2>2. PICK d : d = SubSeq(rest, n + 1, n + k)
    OBVIOUS
  <2>3. d \in Seq(S) /\ Len(d) = k /\ \A i \in 1..k : d[i] = rest[n + i]
    BY <1>4, <2>1, <2>2
  <2>4. \A i \in 1..k : d[i] = data[i]
    BY <1>4, <2>1, <2>3
  <2>5. d = data
    BY <2>1, <2>3, <2>4
  <2> QED BY <2>1, <2>2, <2>5
<1>7. ParseChunk(bytes) = <<SubSeq(rest, 1, n), SubSeq(rest, n + 1, Len(rest))>>
  BY <1>2, <1>3, <1>4 DEF ParseChunk
<1> QED BY <1>1, <1>5, <1>6, <1>7

LEMMA FrameReceived ==
  ASSUME NEW e, NEW n, IsList(e.headers), e.data = <<n>>, Lowered(e.uri)
  PROVE  Received(ToBytes(e)).number = n /\ Received(ToBytes(e)).uri = e.uri
<1>1. PICK l : l = [location |-> Location(e.uri)]
  OBVIOUS
<1>2. PICK h : h = Append(e.headers, l)
  OBVIOUS
<1>3. PICK m : m = Len(h)
  OBVIOUS
<1>4. PICK T : e.headers \in Seq(T)
  BY DEF IsList
<1>5. PICK S : S = T \cup {l, m, n}
  OBVIOUS
<1>6. e.headers \in Seq(S) /\ l \in S /\ m \in S /\ n \in S
  BY <1>4, <1>5
<1>7. h \in Seq(S) /\ Len(h) > 0 /\ h[Len(h)] = l /\ e.data \in Seq(S)
  BY <1>2, <1>6
<1>8. ToBytes(e) = <<m>> \o h \o e.data
  BY <1>1, <1>2, <1>3, Zenon DEF ToBytes
<1>9. ParseHeader(ToBytes(e)) = <<h, e.data>>
  <2>1. PICK d : d = e.data /\ d \in Seq(S)
    BY <1>7
  <2>2. ParseChunk(<<m>> \o h \o d) = <<h, d>>
    BY <1>3, <1>6, <1>7, <2>1, ChunkParsed, Zenon
  <2> QED BY <1>8, <2>1, <2>2, Zenon DEF ParseHeader
<1>10. PICK parsed : parsed = ParseHeader(ToBytes(e)) /\ parsed[1] = h /\ parsed[2] = e.data
  BY <1>9
<1>11. Head(parsed[2]) = n /\ Last(parsed[1]) = l
  BY <1>7, <1>10 DEF Last
<1>12. l.location = Location(e.uri)
  BY <1>1
<1>13. ParseFromPath(Last(parsed[1]).location) = e.uri
  BY <1>11, <1>12, LocationParsed
<1>14. PICK r : r = [number |-> n, uri |-> e.uri]
  OBVIOUS
<1>15. Received(ToBytes(e)) = r
  BY <1>10, <1>11, <1>13, <1>14 DEF Received
<1>16. r.number = n /\ r.uri = e.uri
  BY <1>14
<1> QED BY <1>15, <1>16

-----------------------------------------------------------------------------
(* SubscriptionsServed *)

\* The subscriptions after the first n actions of a list.
Applied(list, n) == Loop("apply", list, {}, Len(list))[n]

LEMMA AppliedFacts ==
  ASSUME NEW list, Len(list) \in Nat
  PROVE  /\ Applied(list, 0) = {}
         /\ \A n \in 1..Len(list) : Applied(list, n) = AfterAction(Applied(list, n - 1), list[n])
         /\ Applied(list, Len(list)) = Effect(list)
<1>1. PICK f : f = Loop("apply", list, {}, Len(list))
  OBVIOUS
<1>2. f[0] = {} /\ \A n \in 1..Len(list) : f[n] = AfterAction(f[n - 1], list[n])
  BY <1>1, LoopFacts DEF Advance
<1>3. \A n : Applied(list, n) = f[n]
  BY <1>1 DEF Applied
<1>4. Effect(list) = f[Len(list)]
  BY <1>1, EffectLoop
<1> QED BY <1>2, <1>3, <1>4

LEMMA AppliedAppend ==
  ASSUME NEW list, NEW a, NEW r, Appended(r, list, a), NEW n \in 0..Len(list)
  PROVE  Applied(r, n) = Applied(list, n)
<1>1. PICK l \in Nat : l = Len(list) /\ Len(r) = l + 1 /\ \A i \in 1..l : r[i] = list[i]
  BY DEF Appended
<1> DEFINE T == {k \in 0..l : Applied(r, k) = Applied(list, k)}
<1>2. 0 \in T
  <2>1. Len(r) \in Nat /\ Len(list) \in Nat
    BY <1>1
  <2>2. Applied(r, 0) = {} /\ Applied(list, 0) = {}
    BY <2>1, AppliedFacts
  <2>3. 0 \in 0..l
    OBVIOUS
  <2> QED BY <2>2, <2>3, Zenon
<1>3. ASSUME NEW k \in 0..(l - 1), k \in T PROVE k + 1 \in T
  <2>1. PICK j \in 1..l : j = k + 1 /\ j - 1 = k /\ j \in 0..l /\ j \in 1..Len(r) /\ Len(r) \in Nat
    BY <1>1
  <2>2. Applied(r, j) = AfterAction(Applied(r, k), r[j])
    <3>1. Applied(r, j) = AfterAction(Applied(r, j - 1), r[j])
      BY <1>1, <2>1, AppliedFacts
    <3> QED BY <2>1, <3>1
  <2>3. Applied(list, j) = AfterAction(Applied(list, k), list[j])
    <3>1. Applied(list, j) = AfterAction(Applied(list, j - 1), list[j])
      BY <1>1, <2>1, AppliedFacts
    <3> QED BY <2>1, <3>1
  <2>4. Applied(r, j) = Applied(list, j)
    BY <1>1, <1>3, <2>1, <2>2, <2>3
  <2> QED BY <2>1, <2>4
<1>4. 0..l \subseteq T
  <2> HIDE DEF T
  <2> QED BY <1>1, <1>2, <1>3, UpTo
<1> QED BY <1>1, <1>4

IsSession(x) == x = [st |-> x.st, sid |-> x.sid, subs |-> x.subs, queue |-> x.queue, pos |-> x.pos]

Actions == [do : {"Subscribe", "Unsubscribe"}, uri : Subscriptions]

\* The channel of a session holds the end of what its client was acknowledged,
\* and the session has applied the rest.
Queued(x, ak) ==
  /\ x.queue \in Seq(Actions) /\ ak \in Seq(Actions)
  /\ \E n \in Nat :
       /\ Len(ak) = n + Len(x.queue) /\ x.subs = Applied(ak, n)
       /\ \A i \in 1..Len(x.queue) : x.queue[i] = ak[n + i]

\* A session has only subscriptions its client was acknowledged.
Asked(ak, u) == \E k \in 1..Len(ak) : ak[k].do = "Subscribe" /\ ak[k].uri = u

\* A frame is an event the session has passed, of a location its client asked for.
Framed(ak, frame, pos, ev) ==
  LET n == Received(frame).number
      uri == Received(frame).uri
  IN /\ n \in 1..pos /\ uri = ev[n].uri
     /\ \E u : Asked(ak, u) /\ u \in {uri, [uri EXCEPT !.entity = None]}

Ordered(fr) == \A i \in 1..Len(fr) : i > 1 => Received(fr[i - 1]).number < Received(fr[i]).number

Sure(fr, n) == \E i \in 1..Len(fr) : Received(fr[i]).number = n

Served(x, fr, si, ev) ==
  \A u \in x.subs : \A n \in (si[u] + 1) .. x.pos : Matches(u, ev[n].uri) => Sure(fr, n)

EventInv(e, n) ==
  /\ IsList(e.headers) /\ e.data = <<n>>
  /\ e.uri = Uri(e.uri.component, e.uri.entity, e.uri.topic)

EventsInv(ev) == IsList(ev) /\ \A n \in 1..Len(ev) : EventInv(ev[n], n)

ClientInv(x, ak, fr, si, ev) ==
  /\ IsSession(x) /\ x.sid \in Sids \cup {None} /\ x.pos \in 0..Len(ev)
  /\ x.subs \subseteq Subscriptions /\ si \in [Subscriptions -> Nat]
  /\ Queued(x, ak)
  /\ \A u \in x.subs : Asked(ak, u)
  /\ IsList(fr) /\ Ordered(fr) /\ \A i \in 1..Len(fr) : Framed(ak, fr[i], x.pos, ev)
  /\ x.st = "new" => x.sid = None
  /\ x.st \in {"new", "handshake"} => x.subs = {}
  /\ x.st = "open" => Served(x, fr, si, ev)

\* The lists of a client and of the events grow.
LEMMA AskedGrows ==
  ASSUME NEW ak \in Seq(Actions), NEW a \in Actions, NEW u, Asked(ak, u)
  PROVE  Asked(Append(ak, a), u)
<1>1. PICK k \in 1..Len(ak) : ak[k].do = "Subscribe" /\ ak[k].uri = u
  BY DEF Asked
<1>2. PICK r : r = Append(ak, a)
  OBVIOUS
<1>3. k \in 1..Len(r) /\ r[k] = ak[k]
  BY <1>2
<1>4. Asked(r, u)
  BY <1>1, <1>3 DEF Asked
<1> QED BY <1>2, <1>4, Zenon

LEMMA ClientActs ==
  ASSUME NEW x, NEW ak, NEW fr, NEW si, NEW ev, ClientInv(x, ak, fr, si, ev), NEW a \in Actions
  PROVE  ClientInv([x EXCEPT !.queue = Append(x.queue, a)], Append(ak, a), fr, si, ev)
<1>1. PICK q, r : q = Append(x.queue, a) /\ r = Append(ak, a)
  OBVIOUS
<1>2. PICK y : y = [x EXCEPT !.queue = q]
  OBVIOUS
<1>3. IsSession(y) /\ y.st = x.st /\ y.sid = x.sid /\ y.subs = x.subs /\ y.queue = q /\ y.pos = x.pos
  <2>1. IsSession(x)
    BY DEF ClientInv
  <2> QED BY <1>2, <2>1 DEF IsSession
<1>4. x.queue \in Seq(Actions) /\ ak \in Seq(Actions) /\ q \in Seq(Actions) /\ r \in Seq(Actions)
  BY <1>1 DEF ClientInv, Queued
<1>5. Appended(q, x.queue, a) /\ Appended(r, ak, a)
  <2>1. IsList(x.queue) /\ IsList(ak)
    BY <1>4 DEF IsList
  <2> QED BY <1>1, <2>1, AppendFacts, Zenon
<1>6. Queued(y, r)
  <2>1. PICK n \in Nat : /\ Len(ak) = n + Len(x.queue) /\ x.subs = Applied(ak, n)
                         /\ \A i \in 1..Len(x.queue) : x.queue[i] = ak[n + i]
    BY DEF ClientInv, Queued
  <2>2. PICK m \in Nat : m = Len(x.queue) /\ Len(ak) = n + m
    BY <1>4, <2>1
  <2>3. /\ Len(q) = m + 1 /\ q[m + 1] = a /\ \A i \in 1..m : q[i] = x.queue[i]
        /\ Len(r) = n + m + 1 /\ r[n + m + 1] = a /\ \A i \in 1..(n + m) : r[i] = ak[i]
    BY <1>5, <2>2 DEF Appended
  <2>4. ASSUME NEW i \in 1..(m + 1) PROVE q[i] = r[n + i]
    <3>1. CASE i \in 1..m
      <4>1. n + i \in 1..(n + m)
        BY <3>1
      <4> QED BY <2>1, <2>2, <2>3, <3>1, <4>1
    <3>2. CASE i = m + 1
      BY <2>3, <3>2
    <3>3. i \in 1..m \/ i = m + 1
      OBVIOUS
    <3> QED BY <3>1, <3>2, <3>3
  <2>5. x.subs = Applied(r, n)
    <3>1. n \in 0..Len(ak)
      BY <2>2
    <3> QED BY <1>5, <2>1, <3>1, AppliedAppend
  <2>6. Len(r) = n + Len(q)
    BY <2>3
  <2>7. \A i \in 1..Len(q) : q[i] = r[n + i]
    BY <2>3, <2>4
  <2> QED BY <1>3, <1>4, <2>5, <2>6, <2>7 DEF Queued
<1>7. \A u : Asked(ak, u) => Asked(r, u)
  BY <1>1, <1>4, AskedGrows, Zenon
<1>8. \A i \in 1..Len(fr) : Framed(r, fr[i], y.pos, ev)
  BY <1>3, <1>7 DEF ClientInv, Framed
<1>9. Served(x, fr, si, ev) => Served(y, fr, si, ev)
  BY <1>3 DEF Served
<1>10. ClientInv(y, r, fr, si, ev)
  BY <1>3, <1>6, <1>7, <1>8, <1>9 DEF ClientInv
<1> QED BY <1>1, <1>2, <1>10, Zenon

\* The loop of a session takes an action, and its place in the events is where
\* the subscription begins.
Took(x) == [x EXCEPT !.queue = Tail(x.queue), !.subs = AfterAction(x.subs, Head(x.queue))]
SinceAfter(x, si, a) ==
  [si EXCEPT ![a.uri] = IF a.do = "Subscribe" /\ a.uri \in x.subs THEN si[a.uri] ELSE x.pos]

LEMMA ClientTakesAction ==
  ASSUME NEW x, NEW ak, NEW fr, NEW si, NEW ev, ClientInv(x, ak, fr, si, ev), x.st = "open", x.queue # <<>>
  PROVE  ClientInv(Took(x), ak, fr, SinceAfter(x, si, Head(x.queue)), ev)
<1>0. PICK a, s, q, y, z : /\ a = Head(x.queue) /\ s = AfterAction(x.subs, a) /\ q = Tail(x.queue)
                           /\ y = Took(x) /\ z = SinceAfter(x, si, a)
  OBVIOUS
<1>1. IsSession(y) /\ y.st = x.st /\ y.sid = x.sid /\ y.subs = s /\ y.queue = q /\ y.pos = x.pos
  <2>1. IsSession(x)
    BY DEF ClientInv
  <2>2. y = [x EXCEPT !.queue = q, !.subs = s]
    BY <1>0, Zenon DEF Took
  <2> QED BY <2>1, <2>2 DEF IsSession
<1>2. x.queue \in Seq(Actions) /\ ak \in Seq(Actions)
  BY DEF ClientInv, Queued
<1>3. PICK n \in Nat : /\ Len(ak) = n + Len(x.queue) /\ x.subs = Applied(ak, n)
                       /\ \A i \in 1..Len(x.queue) : x.queue[i] = ak[n + i]
  BY DEF ClientInv, Queued
<1>4. PICK m \in Nat : Len(x.queue) = m + 1 /\ Len(q) = m /\ Len(ak) = n + m + 1
  <2>1. Len(x.queue) \in Nat \ {0} /\ Len(q) = Len(x.queue) - 1
    BY <1>0, <1>2
  <2>2. PICK m \in Nat : m = Len(x.queue) - 1
    BY <2>1
  <2>3. Len(x.queue) = m + 1 /\ Len(q) = m
    BY <2>1, <2>2
  <2>4. Len(ak) = n + (m + 1)
    BY <1>3, <2>3
  <2>5. n + (m + 1) = n + m + 1
    OBVIOUS
  <2> QED BY <2>3, <2>4, <2>5
<1>5. /\ q \in Seq(Actions) /\ a \in Actions /\ a = x.queue[1]
      /\ \A i \in 1..m : q[i] = x.queue[i + 1]
  BY <1>0, <1>2, <1>4
<1>6. a = ak[n + 1] /\ n + 1 \in 1..Len(ak)
  BY <1>3, <1>4, <1>5
<1>7. a.uri \in Subscriptions /\ s \subseteq x.subs \cup {a.uri}
  BY <1>0, <1>5 DEF Actions, AfterAction
<1>8. Queued(y, ak)
  <2>1. s = Applied(ak, n + 1)
    <3>1. PICK k : k = n + 1 /\ k - 1 = n /\ k \in 1..Len(ak) /\ Len(ak) \in Nat
      BY <1>2, <1>6
    <3>2. Applied(ak, k) = AfterAction(Applied(ak, k - 1), ak[k])
      BY <3>1, AppliedFacts
    <3>3. Applied(ak, n + 1) = AfterAction(x.subs, a)
      BY <1>3, <1>6, <3>1, <3>2
    <3> QED BY <1>0, <3>3
  <2>2. \A i \in 1..m : q[i] = ak[(n + 1) + i]
    <3> SUFFICES ASSUME NEW i \in 1..m PROVE q[i] = ak[(n + 1) + i]
      OBVIOUS
    <3>1. i + 1 \in 1..Len(x.queue) /\ n + (i + 1) = (n + 1) + i
      BY <1>4
    <3>2. q[i] = ak[n + (i + 1)]
      BY <1>3, <1>5, <3>1
    <3> QED BY <3>1, <3>2
  <2>3. PICK k \in Nat : k = n + 1 /\ Len(ak) = k + m
    BY <1>4
  <2>4. Len(ak) = k + Len(q) /\ s = Applied(ak, k) /\ \A i \in 1..Len(q) : q[i] = ak[k + i]
    BY <1>4, <2>1, <2>2, <2>3
  <2> QED BY <1>1, <1>2, <1>5, <2>4 DEF Queued
<1>9. \A u \in s : Asked(ak, u)
  <2> SUFFICES ASSUME NEW u \in s PROVE Asked(ak, u)
    OBVIOUS
  <2>1. CASE u \in x.subs
    BY <2>1 DEF ClientInv
  <2>2. CASE u \notin x.subs
    <3>1. u = a.uri /\ a.do = "Subscribe"
      BY <1>0, <2>2 DEF AfterAction
    <3> QED BY <1>6, <3>1 DEF Asked
  <2> QED BY <2>1, <2>2
<1>10. si \in [Subscriptions -> Nat] /\ x.pos \in Nat
  BY DEF ClientInv
<1>11. /\ z \in [Subscriptions -> Nat]
       /\ \A u \in s : (u \in x.subs /\ z[u] = si[u]) \/ z[u] = x.pos
  <2>1. PICK v \in Nat : v = IF a.do = "Subscribe" /\ a.uri \in x.subs THEN si[a.uri] ELSE x.pos
    BY <1>7, <1>10
  <2>2. z = [si EXCEPT ![a.uri] = v]
    BY <1>0, <2>1, Zenon DEF SinceAfter
  <2>3. z \in [Subscriptions -> Nat] /\ z[a.uri] = v /\ \A u \in Subscriptions : u # a.uri => z[u] = si[u]
    BY <1>7, <1>10, <2>2
  <2>4. ASSUME NEW u \in s PROVE (u \in x.subs /\ z[u] = si[u]) \/ z[u] = x.pos
    <3>1. u \in Subscriptions /\ (u # a.uri => u \in x.subs)
      BY <1>7 DEF ClientInv
    <3> QED BY <2>1, <2>3, <3>1
  <2> QED BY <2>3, <2>4
<1>12. Served(y, fr, z, ev)
  <2> SUFFICES ASSUME NEW u \in s, NEW n1 \in (z[u] + 1) .. x.pos, Matches(u, ev[n1].uri) PROVE Sure(fr, n1)
    BY <1>1 DEF Served
  <2>1. z[u] # x.pos
    BY <1>10
  <2> QED BY <1>11, <2>1 DEF ClientInv, Served
<1>13. s \subseteq Subscriptions
  BY <1>7 DEF ClientInv
<1>14. ClientInv(y, ak, fr, z, ev)
  BY <1>1, <1>8, <1>9, <1>11, <1>12, <1>13 DEF ClientInv
<1> QED BY <1>0, <1>14, Zenon

\* A step that only moves a session to another state, or takes it up.
LEMMA ClientMoves ==
  ASSUME NEW x, NEW ak, NEW fr, NEW si, NEW ev, ClientInv(x, ak, fr, si, ev), NEW y, IsSession(y),
         y.subs = x.subs, y.queue = x.queue, y.sid \in Sids \cup {None}, y.pos \in x.pos .. Len(ev),
         y.st # "new", y.st \in {"handshake", "open"} => x.subs = {}
  PROVE  ClientInv(y, ak, fr, si, ev)
<1>1. x.pos \in Nat
  BY DEF ClientInv
<1>2. y.pos \in 0..Len(ev) /\ \A n : n \in 1..x.pos => n \in 1..y.pos
  BY <1>1
<1>3. \A i \in 1..Len(fr) : Framed(ak, fr[i], y.pos, ev)
  BY <1>2 DEF ClientInv, Framed
<1>4. Queued(y, ak)
  BY DEF ClientInv, Queued
<1>5. y.st = "open" => Served(y, fr, si, ev)
  BY DEF Served
<1> QED BY <1>2, <1>3, <1>4, <1>5 DEF ClientInv

LEMMA ClientHears ==
  ASSUME NEW x, NEW ak, NEW fr, NEW si, NEW ev, ClientInv(x, ak, fr, si, ev), EventsInv(ev), NEW e
  PROVE  ClientInv(x, ak, fr, si, Append(ev, e))
<1>1. PICK r : r = Append(ev, e)
  OBVIOUS
<1>2. Appended(r, ev, e)
  BY <1>1, AppendFacts, Zenon DEF EventsInv
<1>3. PICK l \in Nat : l = Len(ev) /\ Len(r) = l + 1 /\ \A i \in 1..l : r[i] = ev[i]
  BY <1>2 DEF Appended
<1>4. x.pos \in 0..l /\ x.pos \in 0..Len(r)
  BY <1>3 DEF ClientInv
<1>5. \A n : n \in 1..x.pos => r[n] = ev[n]
  BY <1>3, <1>4
<1>6. \A i \in 1..Len(fr) : Framed(ak, fr[i], x.pos, r)
  BY <1>5 DEF ClientInv, Framed
<1>7. Served(x, fr, si, ev) => Served(x, fr, si, r)
  <2> SUFFICES ASSUME Served(x, fr, si, ev), NEW u \in x.subs, NEW n \in (si[u] + 1) .. x.pos,
                      Matches(u, r[n].uri)
               PROVE  Sure(fr, n)
    BY DEF Served
  <2>1. si[u] \in Nat
    BY DEF ClientInv
  <2>2. n \in 1..x.pos
    BY <1>4, <2>1
  <2> QED BY <1>5, <2>2 DEF Served
<1>8. ClientInv(x, ak, fr, si, r)
  BY <1>4, <1>6, <1>7 DEF ClientInv
<1> QED BY <1>1, <1>8, Zenon

\* The next event is passed: it is sent if the session wants it.
LEMMA ClientPasses ==
  ASSUME NEW x, NEW ak, NEW fr, NEW si, NEW ev, ClientInv(x, ak, fr, si, ev), EventsInv(ev),
         NEW n \in 1..Len(ev), n = x.pos + 1, \A u \in x.subs : ~Matches(u, ev[n].uri),
         NEW y, IsSession(y), y.st = x.st, y.sid = x.sid, y.subs = x.subs, y.queue = x.queue, y.pos = n
  PROVE  ClientInv(y, ak, fr, si, ev)
<1>1. x.pos \in Nat
  BY DEF ClientInv
<1>2. y.pos \in 0..Len(ev) /\ \A k : k \in 1..x.pos => k \in 1..y.pos
  BY <1>1
<1>3. \A i \in 1..Len(fr) : Framed(ak, fr[i], y.pos, ev)
  BY <1>2 DEF ClientInv, Framed
<1>4. Queued(y, ak)
  BY DEF ClientInv, Queued
<1>5. Served(x, fr, si, ev) => Served(y, fr, si, ev)
  <2> SUFFICES ASSUME Served(x, fr, si, ev), NEW u \in x.subs, NEW k \in (si[u] + 1) .. n, Matches(u, ev[k].uri)
               PROVE  Sure(fr, k)
    BY DEF Served
  <2>1. si[u] \in Nat
    BY DEF ClientInv
  <2>2. k # n
    OBVIOUS
  <2>3. k \in (si[u] + 1) .. x.pos
    BY <1>1, <2>1, <2>2
  <2> QED BY <2>3 DEF Served
<1> QED BY <1>2, <1>3, <1>4, <1>5 DEF ClientInv

LEMMA WantedFramed ==
  ASSUME NEW x, NEW ak, NEW fr, NEW si, NEW ev, ClientInv(x, ak, fr, si, ev), EventsInv(ev),
         NEW n \in 1..Len(ev), NEW u \in x.subs, Matches(u, ev[n].uri), NEW f, f = ToBytes(ev[n])
  PROVE  /\ Received(f).number = n /\ Received(f).uri = ev[n].uri
         /\ Asked(ak, u) /\ u \in {ev[n].uri, [ev[n].uri EXCEPT !.entity = None]}
<1>1. PICK e : e = ev[n] /\ EventInv(e, n)
  BY DEF EventsInv
<1>2. u \in Subscriptions /\ Asked(ak, u)
  BY DEF ClientInv
<1>3. Lowered(u)
  BY <1>2, SubscriptionsLowered
<1>4. u.component = e.uri.component /\ u.topic = e.uri.topic /\ (u.entity = None \/ u.entity = e.uri.entity)
  BY <1>1 DEF Matches
<1>5. Lowered(e.uri)
  BY <1>1, <1>3, <1>4 DEF Lowered, EventInv
<1>6. Received(f).number = n /\ Received(f).uri = e.uri
  <2>1. IsList(e.headers) /\ e.data = <<n>>
    BY <1>1 DEF EventInv
  <2>2. f = ToBytes(e)
    BY <1>1, Zenon
  <2> QED BY <1>5, <2>1, <2>2, FrameReceived
<1>7. u \in {e.uri, [e.uri EXCEPT !.entity = None]}
  BY <1>3, <1>4, <1>5 DEF Lowered, Uri
<1> QED BY <1>1, <1>2, <1>6, <1>7

LEMMA ClientGets ==
  ASSUME NEW x, NEW ak, NEW fr, NEW si, NEW ev, ClientInv(x, ak, fr, si, ev), EventsInv(ev),
         NEW n \in 1..Len(ev), n = x.pos + 1, NEW u \in x.subs, Matches(u, ev[n].uri),
         NEW y, IsSession(y), y.st = x.st, y.sid = x.sid, y.subs = x.subs, y.queue = x.queue, y.pos = n
  PROVE  ClientInv(y, ak, Append(fr, ToBytes(ev[n])), si, ev)
<1>1. PICK f : f = ToBytes(ev[n])
  OBVIOUS
<1>2. PICK r : r = Append(fr, f)
  OBVIOUS
<1>3. /\ Received(f).number = n /\ Received(f).uri = ev[n].uri
      /\ Asked(ak, u) /\ u \in {ev[n].uri, [ev[n].uri EXCEPT !.entity = None]}
  BY <1>1, WantedFramed
<1>4. IsList(fr) /\ Appended(r, fr, f)
  <2>1. IsList(fr)
    BY DEF ClientInv
  <2> QED BY <1>2, <2>1, AppendFacts, Zenon
<1>5. PICK l \in Nat : l = Len(fr) /\ Len(r) = l + 1 /\ r[l + 1] = f /\ \A i \in 1..l : r[i] = fr[i]
  BY <1>4 DEF Appended
<1>6. x.pos \in Nat /\ y.pos = n /\ n \in 0..Len(ev) /\ n \in 1..n /\ \A k : k \in 1..x.pos => k \in 1..n
  BY DEF ClientInv
<1>7. \A i \in 1..l : Framed(ak, fr[i], x.pos, ev) /\ Received(fr[i]).number \in 1..x.pos
  BY <1>5 DEF ClientInv, Framed
<1>8. Framed(ak, f, n, ev)
  BY <1>3, <1>6 DEF Framed
<1>9. \A i \in 1..l : Framed(ak, fr[i], n, ev)
  BY <1>6, <1>7 DEF Framed
<1>10. \A i \in 1..Len(r) : i \in 1..l \/ i = l + 1
  BY <1>5
<1>11. \A i \in 1..Len(r) : Framed(ak, r[i], n, ev)
  BY <1>5, <1>8, <1>9, <1>10
<1>12. Ordered(r)
  <2> SUFFICES ASSUME NEW i \in 1..Len(r), i > 1
               PROVE  Received(r[i - 1]).number < Received(r[i]).number
    BY DEF Ordered
  <2>1. i - 1 \in 1..l /\ r[i - 1] = fr[i - 1]
    BY <1>5
  <2>2. CASE i \in 1..l
    BY <1>5, <2>1, <2>2 DEF ClientInv, Ordered
  <2>3. CASE i = l + 1
    <3>1. Received(r[i]).number = n
      BY <1>3, <1>5, <2>3
    <3>2. PICK k \in 1..x.pos : k = Received(r[i - 1]).number
      BY <1>7, <2>1
    <3>3. k < n
      BY <1>6
    <3> QED BY <3>1, <3>2, <3>3
  <2> QED BY <1>10, <2>2, <2>3
<1>13. Served(x, fr, si, ev) => Served(y, r, si, ev)
  <2>1. \A k : Sure(fr, k) => Sure(r, k)
    BY <1>5 DEF Sure
  <2>2. Sure(r, n)
    BY <1>3, <1>5 DEF Sure
  <2> SUFFICES ASSUME Served(x, fr, si, ev), NEW v \in x.subs, NEW k \in (si[v] + 1) .. n, Matches(v, ev[k].uri)
               PROVE  Sure(r, k)
    BY <1>6 DEF Served
  <2>3. CASE k = n
    BY <2>2, <2>3
  <2>4. CASE k # n
    <3>1. si[v] \in Nat
      BY DEF ClientInv
    <3>2. k \in (si[v] + 1) .. x.pos
      BY <1>6, <2>4, <3>1
    <3> QED BY <2>1, <3>2 DEF Served
  <2> QED BY <2>3, <2>4
<1>14. Queued(y, ak)
  BY DEF ClientInv, Queued
<1>15. ClientInv(y, ak, r, si, ev)
  BY <1>4, <1>6, <1>11, <1>12, <1>13, <1>14 DEF ClientInv, Appended
<1> QED BY <1>1, <1>2, <1>15, Zenon

\* Ids: an id in the map is the id of the session it leads to, and no two
\* sessions ever have the same one, so an action that is sent with an id goes
\* to the session of the client that knows it.
IdsInv(se, so) ==
  /\ so \in [Sids -> Sessions \cup {Free}]
  /\ \A s \in Sids : so[s] # Free => se[so[s]].sid = s
  /\ \A c, d \in Sessions : se[c].sid = se[d].sid /\ se[c].sid # None => c = d

ClientsInv(se, ev, fr, ak, si) ==
  /\ DOMAIN se = Sessions /\ se = [c \in Sessions |-> se[c]]
  /\ DOMAIN fr = Sessions /\ fr = [c \in Sessions |-> fr[c]]
  /\ DOMAIN ak = Sessions /\ ak = [c \in Sessions |-> ak[c]]
  /\ DOMAIN si = Sessions /\ si = [c \in Sessions |-> si[c]]
  /\ \A c \in Sessions : ClientInv(se[c], ak[c], fr[c], si[c], ev)

RuesInv ==
  /\ EventsInv(events) /\ IdsInv(session, sockets)
  /\ ClientsInv(session, events, frames, acked, since)

LEMMA OneClient ==
  ASSUME NEW se, NEW ev, NEW fr, NEW ak, NEW si, ClientsInv(se, ev, fr, ak, si), NEW c \in Sessions,
         NEW x, NEW f, NEW a, NEW s, ClientInv(x, a, f, s, ev)
  PROVE  ClientsInv([se EXCEPT ![c] = x], ev, [fr EXCEPT ![c] = f], [ak EXCEPT ![c] = a], [si EXCEPT ![c] = s])
<1>1. PICK e1, f1, a1, s1 : /\ e1 = [se EXCEPT ![c] = x] /\ f1 = [fr EXCEPT ![c] = f]
                            /\ a1 = [ak EXCEPT ![c] = a] /\ s1 = [si EXCEPT ![c] = s]
  OBVIOUS
<1>2. /\ DOMAIN e1 = Sessions /\ e1 = [d \in Sessions |-> e1[d]]
      /\ e1[c] = x /\ \A d \in Sessions : d # c => e1[d] = se[d]
  BY <1>1 DEF ClientsInv
<1>3. /\ DOMAIN f1 = Sessions /\ f1 = [d \in Sessions |-> f1[d]]
      /\ f1[c] = f /\ \A d \in Sessions : d # c => f1[d] = fr[d]
  BY <1>1 DEF ClientsInv
<1>4. /\ DOMAIN a1 = Sessions /\ a1 = [d \in Sessions |-> a1[d]]
      /\ a1[c] = a /\ \A d \in Sessions : d # c => a1[d] = ak[d]
  BY <1>1 DEF ClientsInv
<1>5. /\ DOMAIN s1 = Sessions /\ s1 = [d \in Sessions |-> s1[d]]
      /\ s1[c] = s /\ \A d \in Sessions : d # c => s1[d] = si[d]
  BY <1>1 DEF ClientsInv
<1>6. \A d \in Sessions : ClientInv(e1[d], a1[d], f1[d], s1[d], ev)
  BY <1>2, <1>3, <1>4, <1>5 DEF ClientsInv
<1>7. ClientsInv(e1, ev, f1, a1, s1)
  BY <1>2, <1>3, <1>4, <1>5, <1>6 DEF ClientsInv
<1> QED BY <1>1, <1>7, Zenon

LEMMA Unchanged ==
  ASSUME NEW f, NEW D, DOMAIN f = D, f = [c \in D |-> f[c]], NEW c \in D
  PROVE  [f EXCEPT ![c] = f[c]] = f
OBVIOUS

LEMMA SameIds ==
  ASSUME NEW se, NEW so, IdsInv(se, so), DOMAIN se = Sessions, NEW c \in Sessions, NEW x, x.sid = se[c].sid
  PROVE  IdsInv([se EXCEPT ![c] = x], so)
<1>1. PICK e1 : e1 = [se EXCEPT ![c] = x]
  OBVIOUS
<1>2. \A d \in Sessions : e1[d].sid = se[d].sid
  BY <1>1
<1>3. \A s \in Sids : so[s] # Free => so[s] \in Sessions
  BY DEF IdsInv
<1>4. IdsInv(e1, so)
  BY <1>2, <1>3 DEF IdsInv
<1> QED BY <1>1, <1>4, Zenon

LEMMA RuesStarts == RuesInit => RuesInv
<1> SUFFICES ASSUME RuesInit PROVE RuesInv
  OBVIOUS
<1>1. PICK x : x = [st |-> "new", sid |-> None, subs |-> {}, queue |-> <<>>, pos |-> 0]
  OBVIOUS
<1>2. PICK z : z = [u \in Subscriptions |-> 0]
  OBVIOUS
<1>3. /\ IsSession(x) /\ x.st = "new" /\ x.sid = None /\ x.subs = {} /\ x.queue = <<>> /\ x.pos = 0
      /\ z \in [Subscriptions -> Nat]
  BY <1>1, <1>2 DEF IsSession
<1>4. /\ session = [c \in Sessions |-> x] /\ sockets = [s \in Sids |-> Free] /\ events = <<>>
      /\ frames = [c \in Sessions |-> <<>>] /\ acked = [c \in Sessions |-> <<>>]
      /\ since = [c \in Sessions |-> z]
  BY <1>1, <1>2, Zenon DEF RuesInit
<1>5. EventsInv(events)
  BY <1>4, EmptyList DEF EventsInv
<1>6. IdsInv(session, sockets)
  BY <1>3, <1>4 DEF IdsInv
<1>7. ClientInv(x, <<>>, <<>>, z, <<>>)
  <2>1. PICK e : e = <<>>
    OBVIOUS
  <2>2. Len(e) = 0 /\ IsList(e) /\ e \in Seq(Actions)
    BY <2>1, EmptyList
  <2>3. Applied(e, 0) = {}
    BY <2>2, AppliedFacts
  <2>4. Queued(x, e)
    BY <1>3, <2>1, <2>2, <2>3 DEF Queued
  <2>5. Ordered(e) /\ \A i \in 1..Len(e) : Framed(e, e[i], x.pos, e)
    BY <2>2 DEF Ordered
  <2>6. ClientInv(x, e, e, z, e)
    BY <1>3, <2>2, <2>4, <2>5 DEF ClientInv
  <2> QED BY <2>1, <2>6, Zenon
<1>8. ClientsInv(session, events, frames, acked, since)
  BY <1>4, <1>7 DEF ClientsInv
<1> QED BY <1>5, <1>6, <1>8 DEF RuesInv

LEMMA RuesServes == RuesInv => SubscriptionsServed
<1> SUFFICES ASSUME RuesInv PROVE SubscriptionsServed
  OBVIOUS
<1>0. \A c \in Sessions : ClientInv(session[c], acked[c], frames[c], since[c], events)
  BY DEF RuesInv, ClientsInv
<1>1. AcknowledgedApplied
  <2> SUFFICES ASSUME NEW c \in Sessions, session[c].queue = <<>> PROVE session[c].subs = Effect(acked[c])
    BY DEF AcknowledgedApplied
  <2>1. PICK x, ak : x = session[c] /\ ak = acked[c] /\ Queued(x, ak) /\ x.queue = <<>>
    BY <1>0 DEF ClientInv
  <2>2. PICK n \in Nat : Len(ak) = n + Len(x.queue) /\ x.subs = Applied(ak, n)
    BY <2>1 DEF Queued
  <2>3. Len(ak) = n
    BY <2>1, <2>2, EmptyList
  <2>4. Applied(ak, Len(ak)) = Effect(ak)
    BY <2>3, AppliedFacts
  <2> QED BY <2>1, <2>2, <2>3, <2>4
<1>2. DeliveredWanted
  <2> SUFFICES ASSUME NEW c \in Sessions, NEW got, got = [i \in DOMAIN frames[c] |-> Received(frames[c][i])],
                      NEW i \in DOMAIN got
               PROVE  /\ i > 1 => got[i - 1].number < got[i].number
                      /\ \E k \in DOMAIN acked[c] : acked[c][k].do = "Subscribe"
                           /\ acked[c][k].uri \in {got[i].uri, [got[i].uri EXCEPT !.entity = None]}
                      /\ events[got[i].number].uri = got[i].uri
    BY DEF DeliveredWanted
  <2>1. PICK fr, ak : fr = frames[c] /\ ak = acked[c] /\ ClientInv(session[c], ak, fr, since[c], events)
    BY <1>0
  <2>2. IsList(fr) /\ ak \in Seq(Actions)
    BY <2>1 DEF ClientInv, Queued
  <2>3. DOMAIN fr = 1..Len(fr) /\ Len(fr) \in Nat /\ DOMAIN ak = 1..Len(ak)
    BY <2>2 DEF IsList
  <2>4. i \in 1..Len(fr) /\ got[i] = Received(fr[i]) /\ (i > 1 => i - 1 \in 1..Len(fr) /\ got[i - 1] = Received(fr[i - 1]))
    BY <2>1, <2>3
  <2>5. Ordered(fr) /\ Framed(ak, fr[i], session[c].pos, events)
    BY <2>1, <2>4 DEF ClientInv
  <2>6. i > 1 => got[i - 1].number < got[i].number
    BY <2>4, <2>5 DEF Ordered
  <2>7. events[got[i].number].uri = got[i].uri
    BY <2>4, <2>5 DEF Framed
  <2>8. \E k \in DOMAIN ak : ak[k].do = "Subscribe"
                           /\ ak[k].uri \in {got[i].uri, [got[i].uri EXCEPT !.entity = None]}
    BY <2>3, <2>4, <2>5 DEF Framed, Asked
  <2> QED BY <2>1, <2>6, <2>7, <2>8
<1>3. NoSilentGap
  <2> SUFFICES ASSUME NEW c \in Sessions, session[c].st = "open", NEW u \in session[c].subs,
                      NEW n \in since[c][u] + 1 .. session[c].pos, Matches(u, events[n].uri)
               PROVE  \E i \in DOMAIN frames[c] : Received(frames[c][i]).number = n
    BY DEF NoSilentGap
  <2>1. PICK fr : fr = frames[c] /\ ClientInv(session[c], acked[c], fr, since[c], events)
    BY <1>0
  <2>2. Served(session[c], fr, since[c], events) /\ IsList(fr)
    BY <2>1 DEF ClientInv
  <2>3. Sure(fr, n)
    BY <2>2 DEF Served
  <2>4. DOMAIN fr = 1..Len(fr)
    BY <2>2 DEF IsList
  <2> QED BY <2>1, <2>3, <2>4 DEF Sure
<1> QED BY <1>1, <1>2, <1>3 DEF SubscriptionsServed

\* A step of one session that leaves the map of ids alone.
LEMMA SessionStep ==
  ASSUME RuesInv, NEW c \in Sessions, NEW x, NEW f, NEW a, NEW s, ClientInv(x, a, f, s, events),
         x.sid = session[c].sid, session' = [session EXCEPT ![c] = x],
         frames' = [frames EXCEPT ![c] = f], acked' = [acked EXCEPT ![c] = a], since' = [since EXCEPT ![c] = s],
         UNCHANGED <<sockets, events>>
  PROVE  RuesInv'
<1>1. ClientsInv(session', events, frames', acked', since')
  BY OneClient DEF RuesInv
<1>2. DOMAIN session = Sessions
  BY DEF RuesInv, ClientsInv
<1>3. IdsInv(session', sockets)
  BY <1>2, SameIds DEF RuesInv
<1>4. EventsInv(events') /\ IdsInv(session', sockets') /\ ClientsInv(session', events', frames', acked', since')
  BY <1>1, <1>3 DEF RuesInv
<1> QED BY <1>4, Zenon DEF RuesInv

LEMMA AtRest ==
  ASSUME RuesInv, NEW c \in Sessions
  PROVE  /\ frames = [frames EXCEPT ![c] = frames[c]] /\ acked = [acked EXCEPT ![c] = acked[c]]
         /\ since = [since EXCEPT ![c] = since[c]]
         /\ ClientInv(session[c], acked[c], frames[c], since[c], events) /\ EventsInv(events)
<1>1. frames = [frames EXCEPT ![c] = frames[c]]
  BY Unchanged DEF RuesInv, ClientsInv
<1>2. acked = [acked EXCEPT ![c] = acked[c]]
  BY Unchanged DEF RuesInv, ClientsInv
<1>3. since = [since EXCEPT ![c] = since[c]]
  BY Unchanged DEF RuesInv, ClientsInv
<1> QED BY <1>1, <1>2, <1>3 DEF RuesInv, ClientsInv

\* A step that only moves the session c to another state.
Moved(c, st) ==
  session' = [session EXCEPT ![c].st = st] /\ UNCHANGED <<sockets, events, frames, acked, since>>

LEMMA StateStep ==
  ASSUME RuesInv, NEW c \in Sessions, NEW st, st # "new", st \in {"handshake", "open"} => session[c].subs = {},
         Moved(c, st)
  PROVE  RuesInv'
<1>1. PICK x : x = session[c] /\ ClientInv(x, acked[c], frames[c], since[c], events)
  BY AtRest
<1>2. PICK y : y = [x EXCEPT !.st = st]
  OBVIOUS
<1>3. IsSession(y) /\ y.st = st /\ y.sid = x.sid /\ y.subs = x.subs /\ y.queue = x.queue /\ y.pos = x.pos
  <2>1. IsSession(x)
    BY <1>1 DEF ClientInv
  <2> QED BY <1>2, <2>1 DEF IsSession
<1>4. ClientInv(y, acked[c], frames[c], since[c], events)
  <2>1. y.sid \in Sids \cup {None} /\ y.pos \in x.pos .. Len(events)
    BY <1>1, <1>3 DEF ClientInv
  <2> QED BY <1>1, <1>3, <2>1, ClientMoves
<1>5. session' = [session EXCEPT ![c] = y] /\ UNCHANGED <<sockets, events>>
  BY <1>1, <1>2 DEF Moved
<1>6. /\ frames' = [frames EXCEPT ![c] = frames[c]] /\ acked' = [acked EXCEPT ![c] = acked[c]]
      /\ since' = [since EXCEPT ![c] = since[c]]
  BY AtRest DEF Moved
<1>7. y.sid = session[c].sid
  BY <1>1, <1>3
<1> QED BY <1>4, <1>5, <1>6, <1>7, SessionStep

LEMMA UpgradeStep ==
  ASSUME RuesInv, NEW c \in Sessions, Upgrade(c)
  PROVE  RuesInv'
<1>1. PICK x : x = session[c] /\ ClientInv(x, acked[c], frames[c], since[c], events)
  BY AtRest
<1>2. PICK sid \in NewSids : /\ sockets' = [sockets EXCEPT ![sid] = c]
                             /\ session' = [session EXCEPT ![c] =
                                  [session[c] EXCEPT !.st = "handshake", !.sid = sid, !.pos = Len(events)]]
  BY DEF Upgrade
<1>3. x.st = "new" /\ UNCHANGED <<events, frames, acked, since>>
  BY <1>1 DEF Upgrade
<1>4. PICK y : y = [x EXCEPT !.st = "handshake", !.sid = sid, !.pos = Len(events)]
  OBVIOUS
<1>5. /\ IsSession(y) /\ y.st = "handshake" /\ y.sid = sid /\ y.subs = x.subs /\ y.queue = x.queue
      /\ y.pos = Len(events)
  <2>1. IsSession(x)
    BY <1>1 DEF ClientInv
  <2> QED BY <1>4, <2>1 DEF IsSession
<1>6. sid \in Sids /\ sockets[sid] = Free /\ \A d \in Sessions : session[d].sid # sid
  BY DEF NewSids, Forgotten
<1>7. ClientInv(y, acked[c], frames[c], since[c], events)
  <2>1. x.pos \in 0..Len(events) /\ x.subs = {} /\ Len(events) \in Nat
    BY <1>1, <1>3, AtRest DEF ClientInv, EventsInv, IsList
  <2>2. y.pos \in x.pos .. Len(events)
    BY <1>5, <2>1
  <2> QED BY <1>1, <1>5, <1>6, <2>1, <2>2, ClientMoves
<1>8. session' = [session EXCEPT ![c] = y]
  BY <1>1, <1>2, <1>4
<1>9. ClientsInv(session', events', frames', acked', since')
  <2>1. ClientsInv(session', events, frames, acked, since)
    <3>1. ClientsInv(session, events, frames, acked, since)
      BY DEF RuesInv
    <3>2. ClientsInv([session EXCEPT ![c] = y], events, [frames EXCEPT ![c] = frames[c]],
                     [acked EXCEPT ![c] = acked[c]], [since EXCEPT ![c] = since[c]])
      BY <1>7, <3>1, OneClient
    <3>3. /\ frames = [frames EXCEPT ![c] = frames[c]] /\ acked = [acked EXCEPT ![c] = acked[c]]
          /\ since = [since EXCEPT ![c] = since[c]]
      BY AtRest
    <3> QED BY <1>8, <3>2, <3>3
  <2> QED BY <1>3, <2>1
<1>10. IdsInv(session', sockets')
  <2>1. DOMAIN session = Sessions /\ IdsInv(session, sockets)
    BY DEF RuesInv, ClientsInv
  <2>2. session'[c].sid = sid /\ \A d \in Sessions : d # c => session'[d] = session[d]
    BY <1>5, <1>8, <2>1
  <2>3. sockets'[sid] = c /\ \A s \in Sids : s # sid => sockets'[s] = sockets[s]
    BY <1>2, <1>6, <2>1 DEF IdsInv
  <2>4. sockets' \in [Sids -> Sessions \cup {Free}]
    BY <1>2, <1>6, <2>1 DEF IdsInv
  <2>5. \A s \in Sids : sockets'[s] # Free => session'[sockets'[s]].sid = s
    <3> SUFFICES ASSUME NEW s \in Sids, sockets'[s] # Free PROVE session'[sockets'[s]].sid = s
      OBVIOUS
    <3>1. CASE s = sid
      BY <2>2, <2>3, <3>1
    <3>2. CASE s # sid
      <4>1. PICK d \in Sessions : d = sockets[s] /\ session[d].sid = s
        BY <2>1, <2>3, <3>2 DEF IdsInv
      <4>2. d # c
        <5>1. x.sid = None
          BY <1>1, <1>3 DEF ClientInv
        <5> QED BY <1>1, <4>1, <5>1, RuesAssumption
      <4> QED BY <2>2, <2>3, <3>2, <4>1, <4>2
    <3> QED BY <3>1, <3>2
  <2>6. \A d, e \in Sessions : session'[d].sid = session'[e].sid /\ session'[d].sid # None => d = e
    BY <1>6, <2>1, <2>2 DEF IdsInv
  <2> QED BY <2>4, <2>5, <2>6 DEF IdsInv
<1>11. EventsInv(events')
  BY <1>3 DEF RuesInv
<1> QED BY <1>9, <1>10, <1>11, Zenon DEF RuesInv

LEMMA ForgetStep ==
  ASSUME RuesInv, NEW c \in Sessions, Forget(c)
  PROVE  RuesInv'
<1>1. PICK x : x = session[c] /\ ClientInv(x, acked[c], frames[c], since[c], events)
  BY AtRest
<1>2. PICK y : y = [x EXCEPT !.st = "gone"]
  OBVIOUS
<1>3. IsSession(y) /\ y.st = "gone" /\ y.sid = x.sid /\ y.subs = x.subs /\ y.queue = x.queue /\ y.pos = x.pos
  <2>1. IsSession(x)
    BY <1>1 DEF ClientInv
  <2> QED BY <1>2, <2>1 DEF IsSession
<1>4. ClientInv(y, acked[c], frames[c], since[c], events)
  <2>1. y.sid \in Sids \cup {None} /\ y.pos \in x.pos .. Len(events)
    BY <1>1, <1>3 DEF ClientInv
  <2> QED BY <1>1, <1>3, <2>1, ClientMoves
<1>5. /\ session' = [session EXCEPT ![c] = y] /\ sockets' = [sockets EXCEPT ![x.sid] = Free]
      /\ UNCHANGED <<events, frames, acked, since>>
  BY <1>1, <1>2 DEF Forget
<1>6. ClientsInv(session', events', frames', acked', since')
  <2>1. ClientsInv(session, events, frames, acked, since)
    BY DEF RuesInv
  <2>2. ClientsInv([session EXCEPT ![c] = y], events, [frames EXCEPT ![c] = frames[c]],
                   [acked EXCEPT ![c] = acked[c]], [since EXCEPT ![c] = since[c]])
    BY <1>4, <2>1, OneClient
  <2>3. /\ frames = [frames EXCEPT ![c] = frames[c]] /\ acked = [acked EXCEPT ![c] = acked[c]]
        /\ since = [since EXCEPT ![c] = since[c]]
    BY AtRest
  <2> QED BY <1>5, <2>2, <2>3
<1>7. IdsInv(session', sockets)
  <2>1. DOMAIN session = Sessions /\ IdsInv(session, sockets)
    BY DEF RuesInv, ClientsInv
  <2>2. y.sid = session[c].sid
    BY <1>1, <1>3
  <2>3. IdsInv([session EXCEPT ![c] = y], sockets)
    BY <2>1, <2>2, SameIds
  <2> QED BY <1>5, <2>3
<1>8. IdsInv(session', sockets')
  <2>1. sockets' \in [Sids -> Sessions \cup {Free}] /\ \A s \in Sids : sockets'[s] # Free => sockets'[s] = sockets[s]
    BY <1>5, <1>7 DEF IdsInv
  <2> QED BY <1>7, <2>1 DEF IdsInv
<1>9. EventsInv(events')
  BY <1>5 DEF RuesInv
<1> QED BY <1>6, <1>8, <1>9, Zenon DEF RuesInv

LEMMA ActStep ==
  ASSUME RuesInv, NEW c \in Sessions, NEW p \in Paths, NEW k \in DOMAIN Method, Act(c, p, k)
  PROVE  RuesInv'
<1>0. PICK uri, action : uri = ParseFromPath(p) /\ action = [do |-> Method[k], uri |-> uri]
  OBVIOUS
<1>1. PICK sid \in {session[c].sid, None} :
           IF ActionStatus(sid, uri, k) = 200
           THEN /\ \E queue \in Sent(session[sockets[sid]].queue, action) :
                     session' = [session EXCEPT ![sockets[sid]].queue = queue]
                /\ acked' = [acked EXCEPT ![c] = Append(acked[c], action)]
           ELSE UNCHANGED <<session, acked>>
  BY <1>0, Zenon DEF Act
<1>2. UNCHANGED <<sockets, events, frames, since>>
  BY DEF Act
<1>3. CASE UNCHANGED <<session, acked>>
  BY <1>2, <1>3 DEF RuesInv
<1>4. CASE ActionStatus(sid, uri, k) = 200
  <2>1. sid # None /\ uri # NoUri /\ sockets[sid] # Free /\ Method[k] # None
    BY <1>4 DEF ActionStatus
  <2>2. uri \in Subscriptions
    BY <1>0, <2>1 DEF Subscriptions
  <2>3. Method[k] \in {"Subscribe", "Unsubscribe"}
    BY <2>1 DEF Method, None
  <2>4. action \in Actions
    BY <1>0, <2>2, <2>3 DEF Actions
  <2>5. PICK x : x = session[c] /\ ClientInv(x, acked[c], frames[c], since[c], events)
    BY AtRest
  <2>6. sid = x.sid /\ sid \in Sids
    BY <1>1, <2>1, <2>5 DEF ClientInv
  <2>7. sockets[sid] = c
    BY <2>1, <2>5, <2>6 DEF RuesInv, IdsInv
  <2>8. session' = [session EXCEPT ![c] = [x EXCEPT !.queue = Append(x.queue, action)]]
    BY <1>1, <1>4, <2>5, <2>7 DEF Sent
  <2>9. PICK y, a : y = [x EXCEPT !.queue = Append(x.queue, action)] /\ a = Append(acked[c], action)
    OBVIOUS
  <2>10. ClientInv(y, a, frames[c], since[c], events)
    BY <2>4, <2>5, <2>9, ClientActs, Zenon
  <2>11. y.sid = session[c].sid
    <3>1. IsSession(x)
      BY <2>5 DEF ClientInv
    <3> QED BY <2>5, <2>9, <3>1 DEF IsSession
  <2>12. session' = [session EXCEPT ![c] = y] /\ acked' = [acked EXCEPT ![c] = a]
    BY <1>1, <1>4, <2>8, <2>9, Zenon
  <2>13. frames' = [frames EXCEPT ![c] = frames[c]] /\ since' = [since EXCEPT ![c] = since[c]]
    BY <1>2, AtRest
  <2> QED BY <1>2, <2>10, <2>11, <2>12, <2>13, SessionStep
<1> QED BY <1>1, <1>3, <1>4

LEMMA TakeActionStep ==
  ASSUME RuesInv, NEW c \in Sessions, TakeAction(c)
  PROVE  RuesInv'
<1>1. PICK x : x = session[c] /\ ClientInv(x, acked[c], frames[c], since[c], events)
  BY AtRest
<1>2. PICK a : a = Head(x.queue) /\ x.st = "open" /\ x.queue # <<>>
  BY <1>1 DEF TakeAction
<1>3. session' = [session EXCEPT ![c] = Took(x)]
  BY <1>1 DEF TakeAction, Took
<1>4. since' = [since EXCEPT ![c] = SinceAfter(x, since[c], a)]
  BY <1>1, <1>2 DEF TakeAction, SinceAfter
<1>5. PICK y, s : y = Took(x) /\ s = SinceAfter(x, since[c], a)
  OBVIOUS
<1>6. ClientInv(y, acked[c], frames[c], s, events)
  BY <1>1, <1>2, <1>5, ClientTakesAction, Zenon
<1>7. y.sid = session[c].sid
  <2>1. IsSession(x)
    BY <1>1 DEF ClientInv
  <2> QED BY <1>1, <1>5, <2>1 DEF IsSession, Took
<1>8. session' = [session EXCEPT ![c] = y] /\ since' = [since EXCEPT ![c] = s]
  BY <1>3, <1>4, <1>5
<1>9. UNCHANGED <<sockets, events, frames, acked>>
  BY DEF TakeAction
<1>10. frames' = [frames EXCEPT ![c] = frames[c]] /\ acked' = [acked EXCEPT ![c] = acked[c]]
  BY <1>9, AtRest
<1> QED BY <1>6, <1>7, <1>8, <1>9, <1>10, SessionStep

LEMMA TakeEventStep ==
  ASSUME RuesInv, NEW c \in Sessions, TakeEvent(c)
  PROVE  RuesInv'
<1>1. PICK x : x = session[c] /\ ClientInv(x, acked[c], frames[c], since[c], events)
  BY AtRest
<1>2. UNCHANGED <<sockets, events, acked, since>> /\ x.st = "open" /\ x.pos < Len(events)
  BY <1>1 DEF TakeEvent
<1>3. PICK n \in 1..Len(events) : n = x.pos + 1 /\ Len(events) \in Nat /\ x.pos \in Nat
  <2>1. Len(events) \in Nat /\ x.pos \in Nat
    BY <1>1, AtRest DEF ClientInv, EventsInv, IsList
  <2> QED BY <1>2, <2>1
<1>4. CASE session' = [session EXCEPT ![c].st = "leaving"] /\ UNCHANGED frames
  <2>1. Moved(c, "leaving")
    BY <1>2, <1>4 DEF Moved
  <2> QED BY <2>1, StateStep
<1>5. ASSUME ~Lagged(session[c].pos)
      PROVE  RuesInv'
  <2>1. PICK e : e = events[n]
    OBVIOUS
  <2>2. PICK sent \in BOOLEAN :
          /\ session' = [session EXCEPT ![c] =
               [x EXCEPT !.pos = n, !.st = IF sent THEN x.st ELSE "leaving"]]
          /\ \/ sent /\ (\A u \in x.subs : ~Matches(u, e.uri)) /\ frames' = frames
             \/ sent /\ (\E u \in x.subs : Matches(u, e.uri)) /\ frames' = [frames EXCEPT ![c] = Append(@, ToBytes(e))]
             \/ ~sent /\ frames' = frames
    <3>1. ~(Len(events) - x.pos > EventCap)
      BY <1>1, <1>5 DEF Lagged
    <3>2. \E sent \in BOOLEAN :
            /\ (\A u \in x.subs : ~Matches(u, e.uri)) => sent
            /\ session' = [session EXCEPT ![c] =
                 [x EXCEPT !.pos = n, !.st = IF sent THEN x.st ELSE "leaving"]]
            /\ frames' = IF (\E u \in x.subs : Matches(u, e.uri)) /\ sent
                         THEN [frames EXCEPT ![c] = Append(@, ToBytes(e))] ELSE frames
      BY <1>1, <1>3, <1>5, <2>1, <3>1 DEF TakeEvent
    <3> QED BY <3>2
  <2>3. PICK y : y = [x EXCEPT !.pos = n, !.st = IF sent THEN x.st ELSE "leaving"]
    OBVIOUS
  <2>4. /\ IsSession(y) /\ y.sid = x.sid /\ y.subs = x.subs /\ y.queue = x.queue /\ y.pos = n
        /\ y.st = IF sent THEN x.st ELSE "leaving"
    <3>1. IsSession(x)
      BY <1>1 DEF ClientInv
    <3>2. PICK st : st = IF sent THEN x.st ELSE "leaving"
      OBVIOUS
    <3>3. y = [x EXCEPT !.pos = n, !.st = st]
      BY <2>3, <3>2
    <3> QED BY <3>1, <3>2, <3>3 DEF IsSession
  <2>5. session' = [session EXCEPT ![c] = y] /\ y.sid = session[c].sid
    BY <1>1, <2>2, <2>3, <2>4
  <2>6. acked' = [acked EXCEPT ![c] = acked[c]] /\ since' = [since EXCEPT ![c] = since[c]]
          /\ frames = [frames EXCEPT ![c] = frames[c]] /\ EventsInv(events)
    BY <1>2, AtRest
  <2>7. CASE sent /\ (\A u \in x.subs : ~Matches(u, e.uri)) /\ frames' = frames
    <3>1. ClientInv(y, acked[c], frames[c], since[c], events)
      BY <1>1, <1>3, <2>1, <2>4, <2>6, <2>7, ClientPasses
    <3>2. frames' = [frames EXCEPT ![c] = frames[c]]
      BY <2>6, <2>7
    <3> QED BY <1>2, <2>5, <2>6, <3>1, <3>2, SessionStep
  <2>8. CASE sent /\ (\E u \in x.subs : Matches(u, e.uri)) /\ frames' = [frames EXCEPT ![c] = Append(@, ToBytes(e))]
    <3>1. PICK u \in x.subs : Matches(u, events[n].uri)
      BY <2>1, <2>8
    <3>2. ClientInv(y, acked[c], Append(frames[c], ToBytes(events[n])), since[c], events)
      BY <1>1, <1>3, <2>4, <2>6, <2>8, <3>1, ClientGets
    <3>3. PICK f : f = Append(frames[c], ToBytes(events[n])) /\ frames' = [frames EXCEPT ![c] = f]
      BY <2>1, <2>8, Zenon
    <3>4. ClientInv(y, acked[c], f, since[c], events)
      BY <3>2, <3>3, Zenon
    <3> QED BY <1>2, <2>5, <2>6, <3>3, <3>4, SessionStep
  <2>9. CASE ~sent /\ frames' = frames
    <3>1. y.sid \in Sids \cup {None} /\ y.pos \in x.pos .. Len(events) /\ y.st = "leaving"
      BY <1>1, <1>3, <2>4, <2>9 DEF ClientInv
    <3>2. ClientInv(y, acked[c], frames[c], since[c], events)
      BY <1>1, <2>4, <3>1, ClientMoves
    <3>3. frames' = [frames EXCEPT ![c] = frames[c]]
      BY <2>6, <2>9
    <3> QED BY <1>2, <2>5, <2>6, <3>2, <3>3, SessionStep
  <2> QED BY <2>2, <2>7, <2>8, <2>9
<1> QED BY <1>4, <1>5 DEF TakeEvent

LEMMA PublishStep ==
  ASSUME RuesInv, NEW e \in Events, Publish(e)
  PROVE  RuesInv'
<1>1. PICK n : n = Len(events) + 1
  OBVIOUS
<1>2. PICK g : g = [e EXCEPT !.data = <<n>>]
  OBVIOUS
<1>3. UNCHANGED <<session, sockets, frames, acked, since>> /\ events' = Append(events, g)
  BY <1>1, <1>2, Zenon DEF Publish
<1>4. EventInv(g, n)
  <2>1. /\ e = [uri |-> e.uri, headers |-> e.headers, data |-> e.data]
        /\ e.uri = Uri(e.uri.component, e.uri.entity, e.uri.topic)
        /\ IsList(e.headers)
    BY RuesAssumption, Zenon DEF IsList
  <2>2. g.uri = e.uri /\ g.headers = e.headers /\ g.data = <<n>>
    BY <1>2, <2>1
  <2> QED BY <2>1, <2>2 DEF EventInv
<1>5. PICK r : r = Append(events, g)
  OBVIOUS
<1>6. Appended(r, events, g)
  BY <1>5, AppendFacts, Zenon DEF RuesInv, EventsInv
<1>7. EventsInv(r)
  <2> SUFFICES ASSUME NEW i \in 1..Len(r) PROVE EventInv(r[i], i)
    BY <1>6 DEF EventsInv, Appended
  <2>1. CASE i \in 1..Len(events)
    BY <1>6, <2>1 DEF Appended, RuesInv, EventsInv
  <2>2. CASE i = n
    BY <1>1, <1>4, <1>6, <2>2 DEF Appended
  <2>3. i \in 1..Len(events) \/ i = n
    BY <1>1, <1>6 DEF Appended
  <2> QED BY <2>1, <2>2, <2>3
<1>8. ClientsInv(session, r, frames, acked, since)
  <2>1. ASSUME NEW c \in Sessions PROVE ClientInv(session[c], acked[c], frames[c], since[c], r)
    <3>1. ClientInv(session[c], acked[c], frames[c], since[c], events) /\ EventsInv(events)
      BY AtRest
    <3> QED BY <1>5, <3>1, ClientHears, Zenon
  <2> QED BY <2>1 DEF RuesInv, ClientsInv
<1>9. events' = r
  BY <1>3, <1>5, Zenon
<1>10. EventsInv(events') /\ IdsInv(session', sockets') /\ ClientsInv(session', events', frames', acked', since')
  BY <1>3, <1>7, <1>8, <1>9 DEF RuesInv
<1> QED BY <1>10, Zenon DEF RuesInv

LEMMA RuesStep == RuesInv /\ [RuesNext]_ruesVars => RuesInv'
<1> SUFFICES ASSUME RuesInv, [RuesNext]_ruesVars PROVE RuesInv'
  OBVIOUS
<1>1. CASE UNCHANGED ruesVars
  <2>1. UNCHANGED <<session, sockets, events, frames, acked, since>>
    BY <1>1 DEF ruesVars
  <2> QED BY <2>1 DEF RuesInv
<1>2. ASSUME NEW c \in Sessions, Upgrade(c) PROVE RuesInv'
  BY <1>2, UpgradeStep
<1>3. ASSUME NEW c \in Sessions, Greet(c) PROVE RuesInv'
  <2>1. PICK st \in {"open", "lost"} : Moved(c, st)
    BY <1>3 DEF Greet, Moved
  <2>2. session[c].subs = {}
    BY <1>3, AtRest DEF Greet, ClientInv
  <2> QED BY <2>1, <2>2, StateStep
<1>4. ASSUME NEW c \in Sessions, TakeAction(c) PROVE RuesInv'
  BY <1>4, TakeActionStep
<1>5. ASSUME NEW c \in Sessions, TakeEvent(c) PROVE RuesInv'
  BY <1>5, TakeEventStep
<1>6. ASSUME NEW c \in Sessions, Leave(c) PROVE RuesInv'
  <2>1. Moved(c, "leaving")
    BY <1>6 DEF Leave, Moved
  <2> QED BY <2>1, StateStep
<1>7. ASSUME NEW c \in Sessions, Forget(c) PROVE RuesInv'
  BY <1>7, ForgetStep
<1>8. ASSUME NEW c \in Sessions, NEW p \in Paths, NEW k \in DOMAIN Method, Act(c, p, k) PROVE RuesInv'
  BY <1>8, ActStep
<1>9. ASSUME NEW e \in Events, Publish(e) PROVE RuesInv'
  BY <1>9, PublishStep
<1> QED BY <1>1, <1>2, <1>3, <1>4, <1>5, <1>6, <1>7, <1>8, <1>9 DEF RuesNext

\* Whatever the order in which sockets are opened, lost and closed, requests
\* arrive and events are broadcast: an acknowledged subscription is applied by
\* the session of the client that sent it, and then its client gets every event
\* of its location, once, in order, with the location it named, and no other,
\* or loses the session (handle_request_rues, handle_stream_rues).
THEOREM SubscriptionsStayServed == RuesSpec => []SubscriptionsServed
BY RuesStarts, RuesStep, RuesServes, PTL DEF RuesSpec

-----------------------------------------------------------------------------
(* The answers to POST requests *)

\* The three sources share no location.
LEMMA ClaimsApart ==
  ASSUME NEW uri
  PROVE  Cardinality(Claims(uri)) <= 1
<1>1. DOMAIN Sources = {1, 2, 3} /\ Sources[1] = "rusk" /\ Sources[2] = "node" /\ Sources[3] = "prover"
  BY DEF Sources
<1>2. CanHandleRues("rusk", uri) =>
        \/ uri.component = "contracts"
        \/ uri.component = "node" /\ uri.topic \in {"provisioners", "crs"}
  BY DEF CanHandleRues
<1>3. CanHandleRues("node", uri) =>
        \/ uri.component \notin {"contracts", "node", "prover"}
        \/ uri.component = "node" /\ uri.topic = "info"
  BY DEF CanHandleRues, NodeRoutes
<1>4. CanHandleRues("prover", uri) => uri.component = "prover"
  BY DEF CanHandleRues
<1>5. Claims(uri) \subseteq {1} \/ Claims(uri) \subseteq {2} \/ Claims(uri) \subseteq {3}
  BY <1>1, <1>2, <1>3, <1>4 DEF Claims
<1>6. Claims(uri) = {} \/ \E n : Claims(uri) = {n}
  BY <1>5
<1>7. CASE Claims(uri) = {}
  <2>1. Cardinality(Claims(uri)) = 0
    BY <1>7, FS_EmptySet
  <2> QED BY <2>1
<1>8. CASE \E n : Claims(uri) = {n}
  <2>1. Cardinality(Claims(uri)) = 1
    BY <1>8, FS_Singleton
  <2> QED BY <2>1
<1> QED BY <1>6, <1>7, <1>8

\* The source that is asked claims the location.
LEMMA FirstClaims ==
  ASSUME NEW uri, Claims(uri) # {}
  PROVE  First(Claims(uri)) \in {"rusk", "node", "prover"} /\ CanHandleRues(First(Claims(uri)), uri)
<1>1. DOMAIN Sources = {1, 2, 3} /\ Sources[1] = "rusk" /\ Sources[2] = "node" /\ Sources[3] = "prover"
  BY DEF Sources
<1>2. Claims(uri) \subseteq {1, 2, 3} /\ \A n \in Claims(uri) : CanHandleRues(Sources[n], uri)
  BY <1>1 DEF Claims
<1>3. \E n \in Claims(uri) : \A k \in Claims(uri) : n <= k
  <2>1. CASE 1 \in Claims(uri)
    BY <1>2, <2>1
  <2>2. CASE 1 \notin Claims(uri) /\ 2 \in Claims(uri)
    BY <1>2, <2>2
  <2>3. CASE 1 \notin Claims(uri) /\ 2 \notin Claims(uri)
    BY <1>2, <2>3
  <2> QED BY <2>1, <2>2, <2>3
<1>4. PICK n \in Claims(uri) : First(Claims(uri)) = Sources[n]
  BY <1>3 DEF First
<1> QED BY <1>1, <1>2, <1>4

\* It has an operation for it.
LEMMA PostSupported ==
  ASSUME NEW path, NEW req
  PROVE  PostRues(path, req).what # "Unsupported"
<1> DEFINE uri == ParseFromPath(path)
<1>1. ASSUME NEW source \in {"rusk", "node", "prover"}, CanHandleRues(source, uri)
      PROVE  HandleRues(source, uri, req).what # "Unsupported"
  <2> HIDE DEF uri
  <2>1. CASE source = "rusk"
    BY <1>1, <2>1 DEF CanHandleRues, HandleRues, ContractQuery, Ok, Failed
  <2>2. CASE source = "node"
    <3>1. <<uri.component, uri.topic>> \in NodeRoutes
      BY <1>1, <2>2 DEF CanHandleRues
    <3>2. uri.topic \in {"query", "preverify", "propagate", "peers", "peers_location", "info", "gas-price"}
      BY <3>1 DEF NodeRoutes
    <3>3. HandleRues(source, uri, req) = NodeOperation(uri.topic, req)
      BY <2>2, <3>1 DEF HandleRues, NodeRoutes
    <3>4. NodeOperation(uri.topic, req) \in {Ok(uri.topic), Failed("invalid data")}
      BY Zenon DEF NodeOperation
    <3>5. Ok(uri.topic).what = uri.topic /\ Failed("invalid data").what = "invalid data"
      BY DEF Ok, Failed
    <3> QED BY <3>2, <3>3, <3>4, <3>5
  <2>3. CASE source = "prover"
    BY <1>1, <2>3 DEF CanHandleRues, HandleRues, Ok, Failed
  <2> QED BY <2>1, <2>2, <2>3
<1>2. SourcesHandleRues(uri, req).what # "Unsupported"
  <2> HIDE DEF uri
  <2> QED BY <1>1, FirstClaims DEF SourcesHandleRues, Failed
<1> QED BY <1>2 DEF PostRues, Executed

\* What is taken of a mempool: prices in descending order, and sums that fit.
PriceList(p) ==
  /\ p \in Seq(Nat)
  /\ \A i, j \in 1..Len(p) : i <= j => p[i] >= p[j]
  /\ Total(p) + Len(p) <= U64Size
  /\ \A i, j \in 1..Len(p) : i # j => p[i] + p[j] < U64Size

\* A sum that fits is not wrapped.
LEMMA SumsKept ==
  ASSUME NEW x \in Nat, x < U64Size
  PROVE  x % U64Size = x
<1>1. PICK m \in Nat : m = U64Size
  BY CallsAssumption
<1>2. x % m = x
  BY <1>1
<1> QED BY <1>1, <1>2, Zenon

LEMMA TakenIsPriceList ==
  ASSUME NEW q \in GasPrices, NEW max \in Limits
  PROVE  PriceList(Taken(q, max))
<1>1. q \in Seq(Nat) /\ max \in Nat /\ \A i, j \in 1..Len(q) : i <= j => q[i] >= q[j]
  BY CallsAssumption
<1>2. PICK k \in 0..Len(q) : Taken(q, max) = SubSeq(q, 1, k)
  BY <1>1 DEF Taken
<1>3. Taken(q, max) \in Seq(Nat) /\ Len(Taken(q, max)) = k /\ \A i \in 1..k : Taken(q, max)[i] = q[i]
  BY <1>1, <1>2
<1>4. /\ Total(Taken(q, max)) + Len(Taken(q, max)) <= U64Size
      /\ \A i, j \in 1..k : i # j => Taken(q, max)[i] + Taken(q, max)[j] < U64Size
  <2>1. PICK r : r = Taken(q, max)
    OBVIOUS
  <2>2. Total(r) + Len(r) <= U64Size /\ \A i, j \in DOMAIN r : i # j => r[i] + r[j] < U64Size
    BY <2>1, CallsAssumption, Zenon
  <2>3. DOMAIN r = 1..k
    BY <1>3, <2>1
  <2> QED BY <2>1, <2>2, <2>3
<1>5. PICK r : r = Taken(q, max)
  OBVIOUS
<1>6. r \in Seq(Nat) /\ Len(r) = k /\ Total(r) + Len(r) <= U64Size
  BY <1>3, <1>4, <1>5
<1>7. \A i, j \in 1..Len(r) : i <= j => r[i] >= r[j]
  <2> SUFFICES ASSUME NEW i \in 1..k, NEW j \in 1..k, i <= j PROVE r[i] >= r[j]
    BY <1>6
  <2>1. i \in 1..Len(q) /\ j \in 1..Len(q)
    BY <1>1, <1>2
  <2>2. r[i] = q[i] /\ r[j] = q[j]
    BY <1>3, <1>5
  <2> QED BY <1>1, <2>1, <2>2
<1>8. \A i, j \in 1..Len(r) : i # j => r[i] + r[j] < U64Size
  BY <1>4, <1>5, <1>6
<1>9. PriceList(r)
  BY <1>6, <1>7, <1>8 DEF PriceList
<1> QED BY <1>5, <1>9

\* What a loop adds up.
LEMMA TotalFacts ==
  ASSUME NEW q, NEW l \in Nat, l = Len(q)
  PROVE  \E f : Total(q) = f[l] /\ f[0] = 0 /\ \A n \in 1..l : f[n] = f[n - 1] + q[n]
<1>1. PICK f : f = Loop("total", q, 0, l)
  OBVIOUS
<1>2. Total(q) = f[l]
  BY <1>1, TotalLoop
<1>3. f[0] = 0 /\ \A n \in 1..l : f[n] = Advance("total", q, n, f[n - 1])
  BY <1>1, LoopFacts
<1>4. \A n \in 1..l : Advance("total", q, n, f[n - 1]) = f[n - 1] + q[n]
  BY Zenon DEF Advance
<1> QED BY <1>2, <1>3, <1>4

\* The sum lies between as many times the lowest and the highest price.
LEMMA TotalBounds ==
  ASSUME NEW p, PriceList(p), NEW n \in Nat, n = Len(p), n # 0
  PROVE  Total(p) \in Nat /\ n * p[n] <= Total(p) /\ Total(p) <= n * p[1]
<1>1. PICK f : Total(p) = f[n] /\ f[0] = 0 /\ \A k \in 1..n : f[k] = f[k - 1] + p[k]
  BY TotalFacts
<1>2. \A k \in 1..n : p[k] \in Nat /\ p[n] <= p[k] /\ p[k] <= p[1]
  BY DEF PriceList
<1>3. PICK lo \in Nat, hi \in Nat : lo = p[n] /\ hi = p[1]
  BY <1>2
<1> DEFINE T == {k \in 0..n : f[k] \in Nat /\ k * lo <= f[k] /\ f[k] <= k * hi}
<1>4. 0 \in T
  BY <1>1
<1>5. ASSUME NEW k \in 0..(n - 1), k \in T PROVE k + 1 \in T
  <2>1. k + 1 \in 1..n /\ k \in Nat /\ (k + 1) - 1 = k
    OBVIOUS
  <2>2. PICK c \in Nat : c = p[k + 1] /\ lo <= c /\ c <= hi
    BY <1>2, <1>3, <2>1
  <2>3. f[k + 1] = f[k] + c
    BY <1>1, <2>1, <2>2
  <2>4. (k + 1) * lo = k * lo + lo /\ (k + 1) * hi = k * hi + hi
    BY <2>1
  <2>5. k * lo \in Nat /\ k * hi \in Nat
    BY <2>1
  <2> QED BY <1>5, <2>1, <2>2, <2>3, <2>4, <2>5
<1>6. 0..n \subseteq T
  <2> HIDE DEF T
  <2> QED BY <1>4, <1>5, UpTo
<1>7. n \in T
  <2>1. n \in 0..n
    OBVIOUS
  <2> HIDE DEF T
  <2> QED BY <1>6, <2>1
<1> QED BY <1>1, <1>3, <1>7

LEMMA DivRounds ==
  ASSUME NEW a \in Nat, NEW n \in Nat, n # 0
  PROVE  /\ (a + n - 1) \div n \in Nat
         /\ ((a + n - 1) \div n) * n >= a
         /\ ((a + n - 1) \div n - 1) * n < a
OBVIOUS

LEMMA FactorOrder ==
  ASSUME NEW a \in Int, NEW b \in Int, NEW n \in Nat, a * n < b * n
  PROVE  a < b
OBVIOUS

LEMMA AverageBounds ==
  ASSUME NEW p, PriceList(p), Len(p) # 0, NEW s, s = GetGasPrice(p)
  PROVE  /\ s.average * Len(p) >= Total(p) /\ (s.average - 1) * Len(p) < Total(p)
         /\ s.min <= s.average /\ s.average <= s.max
<1>1. PICK n \in Nat : n = Len(p) /\ n # 0
  BY DEF PriceList
<1>2. PICK t \in Nat : t = Total(p)
  BY <1>1, TotalBounds
<1>3. PICK lo \in Nat, hi \in Nat : lo = p[n] /\ hi = p[1]
  BY <1>1 DEF PriceList
<1>4. n * lo <= t /\ t <= n * hi
  BY <1>1, <1>2, <1>3, TotalBounds
<1>5. s.average = (t + n - 1) \div n /\ s.min = lo /\ s.max = hi
  <2>1. t + n - 1 \in Nat /\ t + n - 1 < U64Size
    BY <1>1, <1>2, CallsAssumption DEF PriceList
  <2>2. (t + n - 1) % U64Size = t + n - 1
    <3>1. PICK x \in Nat : x = t + n - 1
      BY <2>1
    <3>2. x % U64Size = x
      BY <2>1, <3>1, SumsKept
    <3> QED BY <3>1, <3>2, Zenon
  <2>3. s.average = ((t + n - 1) % U64Size) \div n /\ s.min = lo /\ s.max = hi
    BY <1>1, <1>2, <1>3 DEF GetGasPrice
  <2> QED BY <2>2, <2>3
<1>6. PICK a \in Nat : a = s.average /\ a * n >= t /\ (a - 1) * n < t
  BY <1>1, <1>5, DivRounds
<1>7. (a - 1) * n < hi * n /\ (lo - 1) * n < a * n
  BY <1>1, <1>4, <1>6
<1>8. a - 1 < hi /\ lo - 1 < a
  BY <1>7, FactorOrder
<1>9. lo <= a /\ a <= hi
  BY <1>8
<1>10. s.min <= s.average /\ s.average <= s.max
  BY <1>5, <1>6, <1>9
<1>11. s.average * Len(p) >= Total(p) /\ (s.average - 1) * Len(p) < Total(p)
  BY <1>1, <1>2, <1>6, Zenon
<1> QED BY <1>10, <1>11

\* The prices of at least x come first, and there are at least, and at most, k.
LEMMA PaidBounds ==
  ASSUME NEW p, PriceList(p), NEW x \in Nat, NEW k \in 0..Len(p),
         NEW paid, paid = {i \in DOMAIN p : p[i] >= x}
  PROVE  /\ Cardinality(paid) \in Nat
         /\ (k = 0 \/ p[k] >= x) => Cardinality(paid) >= k
         /\ (k = Len(p) \/ p[k + 1] < x) => Cardinality(paid) <= k
<1>1. DOMAIN p = 1..Len(p) /\ Len(p) \in Nat /\ \A i, j \in 1..Len(p) : p[i] \in Nat /\ (i <= j => p[i] >= p[j])
  BY DEF PriceList
<1>2. IsFiniteSet(1..Len(p)) /\ paid \subseteq 1..Len(p)
  BY <1>1, FS_Interval
<1>3. IsFiniteSet(paid) /\ Cardinality(paid) \in Nat
  BY <1>2, FS_Subset, FS_CardinalityType
<1>4. IsFiniteSet(1..k) /\ Cardinality(1..k) = k
  BY <1>1, FS_Interval
<1>5. (k = 0 \/ p[k] >= x) => 1..k \subseteq paid
  <2> SUFFICES ASSUME k # 0, p[k] >= x, NEW i \in 1..k PROVE i \in paid
    BY <1>1
  <2>1. i \in 1..Len(p) /\ k \in 1..Len(p) /\ i <= k
    BY <1>1
  <2> QED BY <1>1, <2>1
<1>6. (k = Len(p) \/ p[k + 1] < x) => paid \subseteq 1..k
  <2>1. CASE k = Len(p)
    BY <1>2, <2>1
  <2>2. CASE k # Len(p) /\ p[k + 1] < x
    <3> SUFFICES ASSUME NEW i \in paid, i \notin 1..k PROVE FALSE
      BY <2>2
    <3>1. i \in 1..Len(p) /\ p[i] >= x
      BY <1>2
    <3>2. k + 1 \in 1..Len(p) /\ k + 1 <= i
      <4>1. PICK l \in Nat : l = Len(p)
        BY <1>1
      <4>2. k \in 0..l /\ k # l /\ i \in 1..l /\ i \notin 1..k
        BY <2>2, <3>1, <4>1
      <4> QED BY <4>1, <4>2
    <3>3. p[k + 1] >= p[i]
      BY <1>1, <3>1, <3>2
    <3>4. p[k + 1] \in Nat /\ p[i] \in Nat
      BY <1>1, <3>1, <3>2
    <3> QED BY <2>2, <3>1, <3>3, <3>4
  <2> QED BY <2>1, <2>2
<1> QED BY <1>3, <1>4, <1>5, <1>6, FS_Subset

LEMMA MedianBounds ==
  ASSUME NEW p, PriceList(p), NEW n \in Nat, n = Len(p), n # 0, NEW med, med = GetGasPrice(p).median
  PROVE  /\ 2 * Cardinality({i \in DOMAIN p : p[i] >= med}) >= n
         /\ 2 * (n - Cardinality({i \in DOMAIN p : p[i] >= med + 1})) >= n
<1> DEFINE mid == n \div 2
           Paid(x) == Cardinality({i \in DOMAIN p : p[i] >= x})
<1>1. \A i \in 1..n : p[i] \in Nat
  BY DEF PriceList
<1>2. \A i, j \in 1..n : i <= j => p[i] >= p[j]
  BY DEF PriceList
<1>3. med = IF n % 2 = 0 THEN ((p[mid] + p[mid + 1]) % U64Size) \div 2 ELSE p[mid + 1]
  BY DEF GetGasPrice
<1>4. CASE n % 2 = 0
  <2>1. mid \in 1..n /\ mid + 1 \in 1..n /\ 2 * mid = n /\ mid \in Nat
    BY <1>4
  <2>2. PICK a \in Nat, b \in Nat : a = p[mid] /\ b = p[mid + 1] /\ a >= b
    BY <1>1, <1>2, <2>1
  <2>3. med \in Nat /\ med <= a /\ b <= med
    <3>1. a + b \in Nat /\ a + b < U64Size
      BY <2>1, <2>2 DEF PriceList
    <3>2. (a + b) % U64Size = a + b
      <4>1. PICK x \in Nat : x = a + b
        BY <3>1
      <4>2. x % U64Size = x
        BY <3>1, <4>1, SumsKept
      <4> QED BY <4>1, <4>2, Zenon
    <3>3. med = (a + b) \div 2
      BY <1>3, <1>4, <2>2, <3>2
    <3> QED BY <2>2, <3>3
  <2> HIDE DEF mid
  <2>4. Paid(med) \in Nat /\ Paid(med) >= mid
    BY <2>1, <2>2, <2>3, PaidBounds
  <2>5. Paid(med + 1) \in Nat /\ Paid(med + 1) <= mid
    <3>1. PICK x \in Nat : x = med + 1 /\ p[mid + 1] < x
      BY <2>2, <2>3
    <3>2. mid \in 0..Len(p)
      BY <2>1
    <3>3. Paid(x) \in Nat /\ Paid(x) <= mid
      BY <3>1, <3>2, PaidBounds
    <3> QED BY <3>1, <3>3
  <2> HIDE DEF Paid
  <2>6. 2 * Paid(med) >= n /\ 2 * (n - Paid(med + 1)) >= n
    BY <2>1, <2>4, <2>5
  <2> QED BY <2>6 DEF Paid
<1>5. CASE n % 2 # 0
  <2>1. mid \in 0..n /\ mid + 1 \in 1..n /\ 2 * mid + 1 = n /\ mid \in Nat
    BY <1>5
  <2>2. med \in Nat /\ med = p[mid + 1]
    BY <1>1, <1>3, <1>5, <2>1
  <2> HIDE DEF mid
  <2>3. Paid(med) \in Nat /\ Paid(med) >= mid + 1
    BY <2>1, <2>2, PaidBounds
  <2>4. Paid(med + 1) \in Nat /\ Paid(med + 1) <= mid
    <3>1. PICK x \in Nat : x = med + 1 /\ p[mid + 1] < x
      BY <2>2
    <3>2. mid \in 0..Len(p)
      BY <2>1
    <3>3. Paid(x) \in Nat /\ Paid(x) <= mid
      BY <3>1, <3>2, PaidBounds
    <3> QED BY <3>1, <3>3
  <2> HIDE DEF Paid
  <2>5. 2 * Paid(med) >= n /\ 2 * (n - Paid(med + 1)) >= n
    BY <2>1, <2>3, <2>4
  <2> QED BY <2>5 DEF Paid
<1> QED BY <1>4, <1>5

LEMMA PricesBound ==
  ASSUME NEW p, PriceList(p), p # <<>>, NEW s, s = GetGasPrice(p)
  PROVE  /\ s.average * Len(p) >= Total(p) /\ (s.average - 1) * Len(p) < Total(p)
         /\ s.min <= s.average /\ s.average <= s.max
         /\ 2 * Cardinality({i \in DOMAIN p : p[i] >= s.median}) >= Len(p)
         /\ 2 * (Len(p) - Cardinality({i \in DOMAIN p : p[i] >= s.median + 1})) >= Len(p)
<1>1. Len(p) \in Nat /\ Len(p) # 0
  BY DEF PriceList
<1> QED BY <1>1, AverageBounds, MedianBounds

-----------------------------------------------------------------------------
(* The legacy websocket *)

\* The task of the k-th message, and its answer.
TaskOf(m, k) ==
  [target |-> m.target, topic |-> Head(ParseRequest(m.frame)[1].topic), req |-> [m.req EXCEPT !.xheaders = <<k>>]]
AllTasks == {TaskOf(m, k) : m \in Messages, k \in Nat}
AllAnswers == {AnswerTo(t) : t \in AllTasks}

\* A header names one of the n messages received.
Tagged(h, n) == \E k \in 1..n : h = <<k>>

\* Every message is at one place: with its task, among the responses to send,
\* or sent.
SocketTyped(w) ==
  /\ w = [st |-> w.st, tasks |-> w.tasks, responses |-> w.responses, sent |-> w.sent]
  /\ w.tasks \subseteq AllTasks /\ w.responses \in Seq(AllAnswers) /\ w.sent \in Seq(AllAnswers)
SocketTagged(w, n) ==
  /\ \A t \in w.tasks : Tagged(t.req.xheaders, n)
  /\ \A i \in 1..Len(w.responses) : Tagged(w.responses[i].headers, n)
  /\ \A i \in 1..Len(w.sent) : Tagged(w.sent[i].headers, n)
TasksApart(w) ==
  \A t \in w.tasks :
    /\ \A u \in w.tasks : t.req.xheaders = u.req.xheaders => t = u
    /\ \A i \in 1..Len(w.responses) : t.req.xheaders # w.responses[i].headers
    /\ \A i \in 1..Len(w.sent) : t.req.xheaders # w.sent[i].headers
ResponsesApart(w) ==
  \A i \in 1..Len(w.responses) :
    /\ \A j \in 1..Len(w.responses) : w.responses[i].headers = w.responses[j].headers => i = j
    /\ \A j \in 1..Len(w.sent) : w.responses[i].headers # w.sent[j].headers
SentApart(w) ==
  \A i, j \in 1..Len(w.sent) :
    i # j /\ w.sent[i].headers = w.sent[j].headers => w.sent[i].what = "channel"
SocketInv(w, n) ==
  SocketTyped(w) /\ SocketTagged(w, n) /\ TasksApart(w) /\ ResponsesApart(w) /\ SentApart(w)

\* Besides the websocket, what the last POST request got.
CallInv ==
  /\ messages \in Seq(Messages)
  /\ SocketInv(legacy, Len(messages))
  /\ ClaimsAnswered /\ GasPriceBounds

LEMMA TaskHeaders ==
  /\ \A m \in Messages, k \in Nat : TaskOf(m, k) \in AllTasks /\ TaskOf(m, k).req.xheaders = <<k>>
  /\ \A t \in AllTasks : AnswerTo(t) \in AllAnswers /\ AnswerTo(t).headers = t.req.xheaders
<1>1. ASSUME NEW m \in Messages, NEW k \in Nat
      PROVE  TaskOf(m, k) \in AllTasks /\ TaskOf(m, k).req.xheaders = <<k>>
  <2>1. TaskOf(m, k) \in AllTasks
    BY DEF AllTasks
  <2>2. "xheaders" \in DOMAIN m.req
    BY CallsAssumption
  <2>3. [m.req EXCEPT !.xheaders = <<k>>].xheaders = <<k>>
    BY <2>2
  <2>4. TaskOf(m, k).req = [m.req EXCEPT !.xheaders = <<k>>]
    BY DEF TaskOf
  <2> QED BY <2>1, <2>3, <2>4
<1>2. ASSUME NEW t \in AllTasks
      PROVE  AnswerTo(t) \in AllAnswers /\ AnswerTo(t).headers = t.req.xheaders
  <2>1. AnswerTo(t) \in AllAnswers
    BY DEF AllAnswers
  <2>2. AnswerTo(t).headers = t.req.xheaders
    BY DEF AnswerTo, Executed
  <2> QED BY <2>1, <2>2
<1> QED BY <1>1, <1>2

LEMMA ExecuteFields ==
  ASSUME NEW w, SocketTyped(w), NEW x, NEW y
  PROVE  [w EXCEPT !.tasks = x, !.responses = y] =
           [st |-> w.st, tasks |-> x, responses |-> y, sent |-> w.sent]
<1>0. PICK a, b, c, d : w = [st |-> a, tasks |-> b, responses |-> c, sent |-> d]
  BY DEF SocketTyped
<1>1. PICK u : u = [w EXCEPT !.tasks = x]
  OBVIOUS
<1>2. u = [st |-> a, tasks |-> x, responses |-> c, sent |-> d]
  BY <1>0, <1>1
<1>3. [u EXCEPT !.responses = y] = [st |-> a, tasks |-> x, responses |-> y, sent |-> d]
  BY <1>2
<1>4. [w EXCEPT !.tasks = x, !.responses = y] = [u EXCEPT !.responses = y]
  BY <1>1, Zenon
<1>5. w.st = a /\ w.sent = d
  BY <1>0
<1> QED BY <1>3, <1>4, <1>5

LEMMA RespondFields ==
  ASSUME NEW w, SocketTyped(w), NEW x, NEW y, NEW z
  PROVE  [w EXCEPT !.responses = x, !.sent = y, !.st = z] =
           [st |-> z, tasks |-> w.tasks, responses |-> x, sent |-> y]
<1>0. PICK a, b, c, d : w = [st |-> a, tasks |-> b, responses |-> c, sent |-> d]
  BY DEF SocketTyped
<1>1. PICK u : u = [w EXCEPT !.responses = x]
  OBVIOUS
<1>2. u = [st |-> a, tasks |-> b, responses |-> x, sent |-> d]
  BY <1>0, <1>1
<1>3. PICK v : v = [u EXCEPT !.sent = y]
  OBVIOUS
<1>4. v = [st |-> a, tasks |-> b, responses |-> x, sent |-> y]
  BY <1>2, <1>3
<1>5. [v EXCEPT !.st = z] = [st |-> z, tasks |-> b, responses |-> x, sent |-> y]
  BY <1>4
<1>6. [w EXCEPT !.responses = x, !.sent = y, !.st = z] = [v EXCEPT !.st = z]
  BY <1>1, <1>3, Zenon
<1>7. w.tasks = b
  BY <1>0
<1> QED BY <1>5, <1>6, <1>7

LEMMA SocketReceives ==
  ASSUME NEW w, NEW n \in Nat, SocketInv(w, n), NEW m \in Messages
  PROVE  SocketInv([w EXCEPT !.tasks = @ \cup {TaskOf(m, n + 1)}], n + 1)
<1> DEFINE t == TaskOf(m, n + 1)
           v == [w EXCEPT !.tasks = @ \cup {t}]
<1>1. n + 1 \in Nat /\ t \in AllTasks /\ t.req.xheaders = <<n + 1>>
  BY TaskHeaders
<1> HIDE DEF t
<1>2. v = [st |-> w.st, tasks |-> w.tasks \cup {t}, responses |-> w.responses, sent |-> w.sent]
  <2>1. PICK a, b, c, d : w = [st |-> a, tasks |-> b, responses |-> c, sent |-> d]
    BY DEF SocketInv, SocketTyped
  <2> QED BY <2>1
<1>3. v.tasks = w.tasks \cup {t} /\ v.responses = w.responses /\ v.sent = w.sent
  BY <1>2
<1>4. SocketTyped(v)
  BY <1>1, <1>2 DEF SocketInv, SocketTyped
<1> HIDE DEF v
<1>5. ASSUME NEW h, Tagged(h, n) PROVE Tagged(h, n + 1) /\ h # <<n + 1>>
  BY <1>5 DEF Tagged
<1>6. Tagged(<<n + 1>>, n + 1)
  BY DEF Tagged
<1>7. SocketTagged(v, n + 1)
  BY <1>1, <1>3, <1>5, <1>6 DEF SocketInv, SocketTagged
<1>8. TasksApart(v)
  <2>1. \A u \in w.tasks : u.req.xheaders # t.req.xheaders
    BY <1>1, <1>5 DEF SocketInv, SocketTagged
  <2>2. \A i \in 1..Len(w.responses) : w.responses[i].headers # t.req.xheaders
    BY <1>1, <1>5 DEF SocketInv, SocketTagged
  <2>3. \A i \in 1..Len(w.sent) : w.sent[i].headers # t.req.xheaders
    BY <1>1, <1>5 DEF SocketInv, SocketTagged
  <2> QED BY <1>3, <2>1, <2>2, <2>3 DEF SocketInv, TasksApart
<1>9. ResponsesApart(v) /\ SentApart(v)
  BY <1>3 DEF SocketInv, ResponsesApart, SentApart
<1>10. SocketInv(v, n + 1)
  BY <1>4, <1>7, <1>8, <1>9 DEF SocketInv
<1> QED BY <1>10 DEF v, t

LEMMA SocketExecutes ==
  ASSUME NEW w, NEW n \in Nat, SocketInv(w, n), NEW t \in w.tasks
  PROVE  SocketInv([w EXCEPT !.tasks = @ \ {t}, !.responses = Append(@, AnswerTo(t))], n)
<1> DEFINE r == AnswerTo(t)
           q == Append(w.responses, r)
           v == [w EXCEPT !.tasks = @ \ {t}, !.responses = Append(@, AnswerTo(t))]
<1>1. r \in AllAnswers /\ r.headers = t.req.xheaders
  BY TaskHeaders DEF SocketInv, SocketTyped
<1>2. v = [st |-> w.st, tasks |-> w.tasks \ {t}, responses |-> q, sent |-> w.sent]
  <2>1. SocketTyped(w)
    BY DEF SocketInv
  <2> QED BY <2>1, ExecuteFields, Zenon
<1> HIDE DEF r
<1>3. PICK l \in Nat : l = Len(w.responses)
  BY DEF SocketInv, SocketTyped
<1>4. q \in Seq(AllAnswers) /\ Len(q) = l + 1 /\ q[l + 1] = r /\ \A i \in 1..l : q[i] = w.responses[i]
  BY <1>1, <1>3 DEF SocketInv, SocketTyped
<1> HIDE DEF q
<1>5. v.tasks = w.tasks \ {t} /\ v.responses = q /\ v.sent = w.sent
  BY <1>2
<1>6. SocketTyped(v)
  BY <1>2, <1>4 DEF SocketInv, SocketTyped
<1> HIDE DEF v
<1>7. \A i \in 1..Len(q) : (i \in 1..l /\ q[i] = w.responses[i]) \/ (i = l + 1 /\ q[i] = r)
  <2> SUFFICES ASSUME NEW i \in 1..(l + 1)
               PROVE  (i \in 1..l /\ q[i] = w.responses[i]) \/ (i = l + 1 /\ q[i] = r)
    BY <1>4
  <2>1. CASE i = l + 1
    BY <1>4, <2>1
  <2>2. CASE i # l + 1
    <3>1. i \in 1..l
      BY <2>2
    <3>2. q[i] = w.responses[i]
      BY <1>4, <3>1
    <3> QED BY <3>1, <3>2
  <2> QED BY <2>1, <2>2
<1>8. Tagged(r.headers, n)
  BY <1>1 DEF SocketInv, SocketTagged
<1>9. SocketTagged(v, n)
  BY <1>3, <1>5, <1>7, <1>8 DEF SocketInv, SocketTagged
<1>10. /\ \A u \in w.tasks \ {t} : u.req.xheaders # r.headers
       /\ \A i \in 1..l : w.responses[i].headers # r.headers
       /\ \A i \in 1..Len(w.sent) : w.sent[i].headers # r.headers
  BY <1>1, <1>3 DEF SocketInv, TasksApart
<1>11. TasksApart(v)
  BY <1>3, <1>5, <1>7, <1>10 DEF SocketInv, TasksApart
<1>12. ResponsesApart(v)
  <2>1. ASSUME NEW i \in 1..Len(q), NEW j \in 1..Len(q), q[i].headers = q[j].headers PROVE i = j
    <3>1. CASE i \in 1..l /\ q[i] = w.responses[i] /\ j \in 1..l /\ q[j] = w.responses[j]
      BY <1>3, <2>1, <3>1 DEF SocketInv, ResponsesApart
    <3>2. CASE i \in 1..l /\ q[i] = w.responses[i] /\ q[j] = r
      BY <1>10, <2>1, <3>2
    <3>3. CASE q[i] = r /\ j \in 1..l /\ q[j] = w.responses[j]
      BY <1>10, <2>1, <3>3
    <3> QED BY <1>7, <3>1, <3>2, <3>3
  <2>2. ASSUME NEW i \in 1..Len(q), NEW j \in 1..Len(w.sent) PROVE q[i].headers # w.sent[j].headers
    <3>1. CASE i \in 1..l /\ q[i] = w.responses[i]
      BY <1>3, <3>1 DEF SocketInv, ResponsesApart
    <3> QED BY <1>7, <1>10, <3>1
  <2> QED BY <1>5, <2>1, <2>2 DEF ResponsesApart
<1>13. SentApart(v)
  BY <1>5 DEF SocketInv, SentApart
<1>14. SocketInv(v, n)
  BY <1>6, <1>9, <1>11, <1>12, <1>13 DEF SocketInv
<1> QED BY <1>14 DEF v

\* The first response is sent, in one or two chunks or not to the end.
LEMMA SocketResponds ==
  ASSUME NEW w, NEW n \in Nat, SocketInv(w, n), w.responses # <<>>, NEW r, r = Head(w.responses),
         NEW chunks, chunks = (IF r.what = "channel" THEN <<r, r>> ELSE <<r>>), NEW k \in 0..Len(chunks), NEW st
  PROVE  SocketInv([w EXCEPT !.responses = Tail(@), !.sent = @ \o SubSeq(chunks, 1, k), !.st = st], n)
<1> DEFINE q == Tail(w.responses)
           c == SubSeq(chunks, 1, k)
           s == w.sent \o c
           v == [w EXCEPT !.responses = Tail(@), !.sent = @ \o SubSeq(chunks, 1, k), !.st = st]
<1>0. w.responses \in Seq(AllAnswers) /\ w.sent \in Seq(AllAnswers)
  BY DEF SocketInv, SocketTyped
<1>1. v = [st |-> st, tasks |-> w.tasks, responses |-> q, sent |-> s]
  <2>1. SocketTyped(w)
    BY DEF SocketInv
  <2> QED BY <2>1, RespondFields, Zenon
<1>2. PICK l \in Nat, e \in Nat : l + 1 = Len(w.responses) /\ e = Len(w.sent)
  <2>1. Len(w.responses) \in Nat \ {0} /\ Len(w.sent) \in Nat
    BY <1>0
  <2>2. Len(w.responses) - 1 \in Nat /\ (Len(w.responses) - 1) + 1 = Len(w.responses)
    BY <2>1
  <2> QED BY <2>1, <2>2
<1>3. q \in Seq(AllAnswers) /\ Len(q) = l /\ \A i \in 1..l : q[i] = w.responses[i + 1]
  BY <1>2 DEF SocketInv, SocketTyped
<1>4. r \in AllAnswers /\ r = w.responses[1]
  BY <1>2 DEF SocketInv, SocketTyped
<1>5. /\ c \in Seq(AllAnswers) /\ Len(c) = k /\ k \in Nat /\ \A i \in 1..k : c[i] = r
      /\ r.what = "channel" \/ k <= 1
  <2>1. CASE r.what = "channel"
    BY <1>4, <2>1
  <2>2. CASE r.what # "channel"
    BY <1>4, <2>2
  <2> QED BY <2>1, <2>2
<1> HIDE DEF c
<1>6. s \in Seq(AllAnswers) /\ Len(s) = e + k /\ \A i \in 1..(e + k) : s[i] = IF i <= e THEN w.sent[i] ELSE c[i - e]
  BY <1>0, <1>2, <1>5
<1> HIDE DEF s, q
<1>7. v.tasks = w.tasks /\ v.responses = q /\ v.sent = s
  BY <1>1
<1>8. SocketTyped(v)
  BY <1>1, <1>3, <1>6 DEF SocketInv, SocketTyped
<1> HIDE DEF v
<1>9. \A i \in 1..Len(s) : (i \in 1..e /\ s[i] = w.sent[i]) \/ (i \in (e + 1)..(e + k) /\ s[i] = r)
  <2> SUFFICES ASSUME NEW i \in 1..(e + k)
               PROVE  (i \in 1..e /\ s[i] = w.sent[i]) \/ (i \in (e + 1)..(e + k) /\ s[i] = r)
    BY <1>6
  <2>1. CASE i <= e
    <3>1. i \in 1..e
      BY <2>1
    <3>2. s[i] = w.sent[i]
      BY <1>6, <2>1
    <3> QED BY <3>1, <3>2
  <2>2. CASE ~(i <= e)
    <3>1. i - e \in 1..k /\ i \in (e + 1)..(e + k)
      BY <1>5, <2>2
    <3> QED BY <1>5, <1>6, <2>2, <3>1
  <2> QED BY <2>1, <2>2
<1>10. \A i \in 1..Len(q) : i + 1 \in 1..Len(w.responses) /\ q[i] = w.responses[i + 1]
  BY <1>2, <1>3
<1>11. 1 \in 1..Len(w.responses) /\ Tagged(r.headers, n)
  BY <1>2, <1>4 DEF SocketInv, SocketTagged
<1>12. SocketTagged(v, n)
  <2>1. \A i \in 1..Len(q) : Tagged(q[i].headers, n)
    BY <1>10 DEF SocketInv, SocketTagged
  <2>2. \A i \in 1..Len(s) : Tagged(s[i].headers, n)
    BY <1>2, <1>9, <1>11 DEF SocketInv, SocketTagged
  <2> QED BY <1>7, <2>1, <2>2 DEF SocketInv, SocketTagged
<1>13. /\ \A t \in w.tasks : t.req.xheaders # r.headers
       /\ \A i \in 1..e : w.sent[i].headers # r.headers
  BY <1>2, <1>4, <1>11 DEF SocketInv, TasksApart, ResponsesApart
<1>14. \A i \in 1..Len(q) : q[i].headers # r.headers
  <2> SUFFICES ASSUME NEW i \in 1..Len(q), q[i].headers = r.headers PROVE FALSE
    OBVIOUS
  <2>1. i + 1 = 1
    BY <1>4, <1>10, <1>11 DEF SocketInv, ResponsesApart
  <2> QED BY <1>3, <2>1
<1>15. TasksApart(v)
  <2>1. \A t \in w.tasks : \A i \in 1..Len(q) : t.req.xheaders # q[i].headers
    BY <1>10 DEF SocketInv, TasksApart
  <2>2. \A t \in w.tasks : \A i \in 1..Len(s) : t.req.xheaders # s[i].headers
    BY <1>2, <1>9, <1>13 DEF SocketInv, TasksApart
  <2> QED BY <1>7, <2>1, <2>2 DEF SocketInv, TasksApart
<1>16. ResponsesApart(v)
  <2>1. ASSUME NEW i \in 1..Len(q), NEW j \in 1..Len(q), q[i].headers = q[j].headers PROVE i = j
    <3>1. w.responses[i + 1].headers = w.responses[j + 1].headers
      BY <1>10, <2>1
    <3>2. i + 1 \in 1..Len(w.responses) /\ j + 1 \in 1..Len(w.responses)
      BY <1>10
    <3>3. i + 1 = j + 1
      BY <3>1, <3>2 DEF SocketInv, ResponsesApart
    <3> QED BY <1>3, <3>3
  <2>2. ASSUME NEW i \in 1..Len(q), NEW j \in 1..Len(s) PROVE q[i].headers # s[j].headers
    <3>1. CASE j \in 1..e /\ s[j] = w.sent[j]
      <4>1. i + 1 \in 1..Len(w.responses) /\ q[i] = w.responses[i + 1] /\ j \in 1..Len(w.sent)
        BY <1>2, <1>10, <3>1
      <4> QED BY <3>1, <4>1 DEF SocketInv, ResponsesApart
    <3>2. CASE s[j] = r
      BY <1>14, <3>2
    <3> QED BY <1>9, <3>1, <3>2
  <2> QED BY <1>7, <2>1, <2>2 DEF ResponsesApart
<1>17. SentApart(v)
  <2> SUFFICES ASSUME NEW i \in 1..Len(s), NEW j \in 1..Len(s), i # j, s[i].headers = s[j].headers
               PROVE  s[i].what = "channel"
    BY <1>7 DEF SentApart
  <2>1. CASE i \in 1..e /\ s[i] = w.sent[i] /\ j \in 1..e /\ s[j] = w.sent[j]
    BY <1>2, <2>1 DEF SocketInv, SentApart
  <2>2. CASE i \in (e + 1)..(e + k) /\ s[i] = r /\ j \in (e + 1)..(e + k)
    <3>1. ~(k <= 1)
      BY <1>5, <2>2
    <3> QED BY <1>5, <2>2, <3>1
  <2>3. CASE i \in 1..e /\ s[i] = w.sent[i] /\ s[j] = r
    BY <1>13, <2>3
  <2>4. CASE j \in 1..e /\ s[j] = w.sent[j] /\ s[i] = r
    BY <1>13, <2>4
  <2> QED BY <1>9, <2>1, <2>2, <2>3, <2>4
<1>18. SocketInv(v, n)
  BY <1>8, <1>12, <1>15, <1>16, <1>17 DEF SocketInv
<1> QED BY <1>18 DEF v

LEMMA SocketMoves ==
  ASSUME NEW w, NEW n \in Nat, SocketInv(w, n), NEW st
  PROVE  SocketInv([w EXCEPT !.st = st], n)
<1> DEFINE v == [w EXCEPT !.st = st]
<1>1. v = [st |-> st, tasks |-> w.tasks, responses |-> w.responses, sent |-> w.sent]
  BY DEF SocketInv, SocketTyped
<1>2. v.tasks = w.tasks /\ v.responses = w.responses /\ v.sent = w.sent
  BY <1>1
<1>3. SocketTyped(v)
  BY <1>1 DEF SocketInv, SocketTyped
<1> HIDE DEF v
<1>4. SocketInv(v, n)
  BY <1>2, <1>3 DEF SocketInv, SocketTagged, TasksApart, ResponsesApart, SentApart
<1> QED BY <1>4 DEF v

LEMMA CallStarts == CallInit => CallInv
<1> SUFFICES ASSUME CallInit PROVE CallInv
  OBVIOUS
<1>1. PICK w : w = legacy
  OBVIOUS
<1>2. w = [st |-> "open", tasks |-> {}, responses |-> <<>>, sent |-> <<>>] /\ messages = <<>>
  BY <1>1 DEF CallInit
<1>3. /\ w.tasks = {} /\ w.responses = <<>> /\ w.sent = <<>>
      /\ w = [st |-> w.st, tasks |-> w.tasks, responses |-> w.responses, sent |-> w.sent]
  BY <1>2
<1>4. SocketInv(w, 0)
  BY <1>3 DEF SocketInv, SocketTyped, SocketTagged, TasksApart, ResponsesApart, SentApart
<1>5. messages \in Seq(Messages) /\ Len(messages) = 0
  BY <1>2
<1>6. answered.claims = 0 /\ answered.what = "none" /\ answered.prices = <<>>
  BY DEF CallInit, None
<1>7. ClaimsAnswered /\ GasPriceBounds
  BY <1>6 DEF ClaimsAnswered, GasPriceBounds
<1> QED BY <1>1, <1>4, <1>5, <1>7 DEF CallInv

LEMMA PostStep ==
  ASSUME CallInv, NEW p, Post(p)
  PROVE  CallInv'
<1>1. PICK q \in GasPrices, max \in Limits :
        LET answer == PostRues(p.path, p.req)
            asks == answer.what = "gas-price"
        IN answered' = [status |-> answer.status, headers |-> answer.headers, what |-> answer.what,
                        claims |-> Cardinality(Claims(ParseFromPath(p.path))),
                        prices |-> IF asks THEN Taken(q, max) ELSE <<>>,
                        stats |-> IF asks THEN GetGasPrice(Taken(q, max)) ELSE NoStats]
  BY DEF Post
<1>2. /\ answered'.claims = Cardinality(Claims(ParseFromPath(p.path)))
      /\ answered'.what = PostRues(p.path, p.req).what
      /\ \/ answered'.prices = <<>>
         \/ answered'.prices = Taken(q, max) /\ answered'.stats = GetGasPrice(Taken(q, max))
  BY <1>1
<1>3. ClaimsAnswered'
  BY <1>2, ClaimsApart, PostSupported DEF ClaimsAnswered
<1>4. GasPriceBounds'
  <2> SUFFICES ASSUME answered'.prices # <<>> PROVE GasPriceBounds'
    BY DEF GasPriceBounds
  <2>1. PICK r, s : r = answered'.prices /\ s = answered'.stats
    OBVIOUS
  <2>2. PriceList(r) /\ r # <<>> /\ s = GetGasPrice(r)
    BY <1>2, <2>1, TakenIsPriceList
  <2>3. /\ s.average * Len(r) >= Total(r) /\ (s.average - 1) * Len(r) < Total(r)
        /\ s.min <= s.average /\ s.average <= s.max
        /\ 2 * Cardinality({i \in DOMAIN r : r[i] >= s.median}) >= Len(r)
        /\ 2 * (Len(r) - Cardinality({i \in DOMAIN r : r[i] >= s.median + 1})) >= Len(r)
    BY <2>2, PricesBound
  <2> QED BY <2>1, <2>3, Zenon DEF GasPriceBounds
<1>5. legacy' = legacy /\ messages' = messages
  BY DEF Post
<1> QED BY <1>3, <1>4, <1>5 DEF CallInv

\* The other steps leave the answer to the POST request alone.
LEMMA SocketStep ==
  ASSUME CallInv, UNCHANGED answered, messages' \in Seq(Messages), SocketInv(legacy', Len(messages'))
  PROVE  CallInv'
<1>1. ClaimsAnswered' /\ GasPriceBounds'
  BY DEF CallInv, ClaimsAnswered, GasPriceBounds
<1> QED BY <1>1 DEF CallInv

LEMMA ReceiveStep ==
  ASSUME CallInv, NEW m \in Messages, ReceiveMessage(m)
  PROVE  CallInv'
<1>1. PICK n \in Nat : n = Len(messages)
  BY DEF CallInv
<1>2. messages' = Append(messages, m) /\ UNCHANGED answered
  BY DEF ReceiveMessage
<1>3. messages' \in Seq(Messages) /\ Len(messages') = n + 1
  BY <1>1, <1>2 DEF CallInv
<1>4. SocketInv(legacy, n)
  BY <1>1 DEF CallInv
<1>5. \/ legacy' = [legacy EXCEPT !.st = "closed"]
      \/ legacy' = [legacy EXCEPT !.tasks = @ \cup {TaskOf(m, n + 1)}]
  BY <1>1, Zenon DEF ReceiveMessage, TaskOf
<1>6. CASE legacy' = [legacy EXCEPT !.st = "closed"]
  <2>1. SocketInv(legacy', n)
    BY <1>4, <1>6, SocketMoves
  <2>2. SocketInv(legacy', n + 1)
    <3>1. \A h : Tagged(h, n) => Tagged(h, n + 1)
      BY DEF Tagged
    <3> QED BY <2>1, <3>1 DEF SocketInv, SocketTagged
  <2> QED BY <1>2, <1>3, <2>2, SocketStep
<1>7. CASE legacy' = [legacy EXCEPT !.tasks = @ \cup {TaskOf(m, n + 1)}]
  <2>1. SocketInv(legacy', n + 1)
    BY <1>4, <1>7, SocketReceives
  <2> QED BY <1>2, <1>3, <2>1, SocketStep
<1> QED BY <1>5, <1>6, <1>7

LEMMA CallStep == CallInv /\ [CallNext]_callVars => CallInv'
<1> SUFFICES ASSUME CallInv, [CallNext]_callVars PROVE CallInv'
  OBVIOUS
<1>1. PICK n \in Nat : n = Len(messages)
  BY DEF CallInv
<1>2. SocketInv(legacy, n) /\ messages \in Seq(Messages)
  BY <1>1 DEF CallInv
<1>3. ASSUME UNCHANGED <<answered, messages>>, SocketInv(legacy', n) PROVE CallInv'
  <2>1. messages' \in Seq(Messages) /\ Len(messages') = n /\ UNCHANGED answered
    BY <1>1, <1>2, <1>3
  <2> QED BY <1>3, <2>1, SocketStep
<1>4. CASE UNCHANGED callVars
  <2>1. UNCHANGED <<answered, messages>> /\ legacy' = legacy
    BY <1>4 DEF callVars
  <2> QED BY <1>2, <1>3, <2>1
<1>5. ASSUME NEW p \in Posts, Post(p) PROVE CallInv'
  BY <1>5, PostStep
<1>6. ASSUME NEW m \in Messages, ReceiveMessage(m) PROVE CallInv'
  BY <1>6, ReceiveStep
<1>7. ASSUME NEW t \in legacy.tasks, Execute(t) PROVE CallInv'
  <2>1. SocketInv(legacy', n)
    BY <1>2, <1>7, SocketExecutes DEF Execute
  <2> QED BY <1>3, <1>7, <2>1 DEF Execute
<1>8. CASE Respond
  <2> DEFINE r == Head(legacy.responses)
             chunks == IF r.what = "channel" THEN <<r, r>> ELSE <<r>>
  <2>1. PICK k \in 0..Len(chunks) : \E st :
          legacy' = [legacy EXCEPT !.responses = Tail(@), !.sent = @ \o SubSeq(chunks, 1, k), !.st = st]
    <3>1. 0 \in 0..Len(chunks)
      OBVIOUS
    <3>2. PICK k \in (IF legacy.st = "open" THEN 0 .. Len(chunks) ELSE {0}) :
            legacy' = [legacy EXCEPT
              !.responses = Tail(@),
              !.sent = @ \o SubSeq(chunks, 1, k),
              !.st = IF k = Len(chunks) THEN @ ELSE IF r.what = "channel" THEN "closing" ELSE "closed"]
      BY <1>8, Zenon DEF Respond
    <3>3. k \in 0..Len(chunks)
      <4> HIDE DEF chunks
      <4> QED BY <3>1
    <3> HIDE DEF r, chunks
    <3> QED BY <3>2, <3>3, Zenon
  <2>2. legacy.responses # <<>>
    BY <1>8 DEF Respond
  <2>3. SocketInv(legacy', n)
    <3>1. PICK st :
            legacy' = [legacy EXCEPT !.responses = Tail(@), !.sent = @ \o SubSeq(chunks, 1, k), !.st = st]
      BY <2>1, Zenon
    <3> QED BY <1>2, <2>2, <3>1, SocketResponds, Zenon
  <2> QED BY <1>3, <1>8, <2>3 DEF Respond
<1>9. CASE Hangup
  <2>1. SocketInv(legacy', n)
    BY <1>2, <1>9, SocketMoves DEF Hangup
  <2> QED BY <1>3, <1>9, <2>1 DEF Hangup
<1> QED BY <1>4, <1>5, <1>6, <1>7, <1>8, <1>9 DEF CallNext

LEMMA CallsCorrelate == CallInv => CallsAnswered
<1> SUFFICES ASSUME CallInv PROVE AnswersCorrelate
  BY DEF CallInv, CallsAnswered
<1>1. DOMAIN legacy.sent = 1..Len(legacy.sent) /\ DOMAIN messages = 1..Len(messages)
  BY DEF CallInv, SocketInv, SocketTyped
<1>2. ASSUME NEW i \in DOMAIN legacy.sent
      PROVE  \E k \in DOMAIN messages :
               /\ legacy.sent[i].headers = <<k>>
               /\ \A j \in DOMAIN legacy.sent :
                    i # j /\ legacy.sent[j].headers = <<k>> => legacy.sent[i].what = "channel"
  <2>1. PICK k \in 1..Len(messages) : legacy.sent[i].headers = <<k>>
    BY <1>1 DEF CallInv, SocketInv, SocketTagged, Tagged
  <2>2. ASSUME NEW j \in DOMAIN legacy.sent, i # j, legacy.sent[j].headers = <<k>>
        PROVE  legacy.sent[i].what = "channel"
    BY <1>1, <2>1, <2>2 DEF CallInv, SocketInv, SentApart
  <2> QED BY <1>1, <2>1, <2>2
<1> QED BY <1>2 DEF AnswersCorrelate

\* A location is claimed by at most one source, which has an operation for it,
\* whatever it is; the statistics of gas prices bound the prices of any mempool;
\* and however many requests of a legacy websocket are executed at once and
\* whatever order their answers take, each answer sent names one of them by its
\* headers and no two name the same (handle_stream, handle_execution,
\* handle_request_rues, get_gas_price).
THEOREM CallsStayAnswered == CallSpec => []CallsAnswered
BY CallStarts, CallStep, CallsCorrelate, PTL DEF CallSpec
=============================================================================
