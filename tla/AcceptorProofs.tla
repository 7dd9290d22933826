--------------------------- MODULE AcceptorProofs ---------------------------
(***************************************************************************)
(* Proofs about Acceptor for every block tree and every bound: any number  *)
(* of crashes, reverts and failed transactions.                            *)
(***************************************************************************)
EXTENDS Acceptor, TLAPS

-----------------------------------------------------------------------------
(* Lemmas about rolling finality *)

\* The heights turned Final lie above the last final block and below the new
\* one, and are closed downwards (the upward scan of rolling_finality).
LEMMA FinalHeightsRun ==
  ASSUME NEW lab, NEW after, NEW lfb \in Int, NEW cur \in Int
  PROVE  /\ FinalHeights(lab, after, lfb, cur) \subseteq (lfb + 1)..(cur - 1)
         /\ \A h \in FinalHeights(lab, after, lfb, cur) :
              \A g \in (lfb + 1)..h : g \in FinalHeights(lab, after, lfb, cur)
  BY DEF FinalHeights

\* A scanned label is Final only for a height that was Final or was turned
\* Final, and a Final label is never changed by the scan.
LEMMA ScannedFinal ==
  ASSUME NEW lab, NEW after, NEW lfb \in Int, NEW cur \in Int, NEW h \in Int,
         IsLastFinal(lab, lfb, cur)
  PROVE  /\ ScannedLabel(lab, after, lfb, cur, h) = "Final" <=>
              lab[h] = "Final" \/ h \in FinalHeights(lab, after, lfb, cur)
         /\ ScannedLabel(lab, after, lfb, cur, h) \in {"Final", "Confirmed", lab[h]}
         /\ h \notin (lfb + 1)..(cur - 1) =>
              ScannedLabel(lab, after, lfb, cur, h) = lab[h]
  <1>1. FinalHeights(lab, after, lfb, cur) \subseteq (lfb + 1)..(cur - 1)
    BY FinalHeightsRun
  <1>2. ConfirmedHeights(lab, after, lfb, cur) \subseteq (lfb + 1)..(cur - 1)
    BY DEF ConfirmedHeights
  <1>3. \A g \in (lfb + 1)..(cur - 1) : lab[g] # "Final"
    BY DEF IsLastFinal
  <1> QED  BY <1>1, <1>2, <1>3 DEF ScannedLabel

-----------------------------------------------------------------------------
(* The invariant holds initially and is kept by every action *)

\* load_tip on an empty database satisfies the invariant.
LEMMA InitInv == Init => AcceptorInv
  <1> SUFFICES ASSUME Init PROVE AcceptorInv
    OBVIOUS
  <1> USE TreeAssumption, BoundAssumption
  <1>1. TypeOK
    BY DEF Init, TypeOK, Heights, Labels, Phases, Origins
  <1>2. TopBlock = Genesis /\ TopBlock \in blocks
    BY DEF Init, TopBlock
  <1>3. ChainTo(0)
    BY DEF Init, ChainTo, Heights
  <1>4. FinalPrefix /\ RevertTargetsOpen
    BY DEF Init, FinalPrefix, RevertTargetsOpen, Heights
  <1>5. RegisterInv /\ PhaseInv
    BY DEF Init, RegisterInv, PhaseInv
  <1> QED  BY <1>1, <1>2, <1>3, <1>4, <1>5 DEF AcceptorInv

\* Actions that leave the ledger and the open commits alone keep everything the
\* invariant says about them.
LEMMA FrameInv ==
  ASSUME AcceptorInv, TypeOK', UNCHANGED ledger, commits \subseteq commits',
         TopBlock' = TopBlock, RegisterInv', PhaseInv'
  PROVE  AcceptorInv'
  <1>1. ChainTo(Height[TopBlock])'
    BY DEF AcceptorInv, ChainTo, ledger
  <1>2. FinalPrefix' /\ RevertTargetsOpen'
    BY DEF AcceptorInv, FinalPrefix, RevertTargetsOpen, ledger
  <1> QED  BY <1>1, <1>2 DEF AcceptorInv, ledger

\* vm.accept only adds a commit, of a block that extends the tip.
LEMMA VmAcceptInv ==
  ASSUME AcceptorInv, NEW b \in Blocks, VmAccept(b) PROVE AcceptorInv'
  <1> USE TreeAssumption, BoundAssumption DEF AcceptorInv, VmAccept
  <1>1. TypeOK'
    BY DEF TypeOK, Phases, Origins, ledger, budget
  <1>2. UNCHANGED ledger /\ commits \subseteq commits' /\ TopBlock' = TopBlock
    BY DEF TopBlock, ledger
  <1>3. RegisterInv' /\ PhaseInv'
    BY DEF RegisterInv, PhaseInv, ValidSuccessor, ledger, TypeOK
  <1> QED  BY <1>1, <1>2, <1>3, FrameInv

\* A failed ledger transaction leaves the ledger and the commits alone.
LEMMA StoreFailsInv ==
  ASSUME AcceptorInv, StoreFails PROVE AcceptorInv'
  <1> USE TreeAssumption, BoundAssumption DEF AcceptorInv, StoreFails
  <1>1. TypeOK'
    BY DEF TypeOK, Phases, Origins, ledger, vm
  <1>2. UNCHANGED ledger /\ commits \subseteq commits' /\ TopBlock' = TopBlock
    BY DEF TopBlock, ledger, vm
  <1>3. RegisterInv' /\ PhaseInv'
    BY DEF RegisterInv, PhaseInv, ledger
  <1> QED  BY <1>1, <1>2, <1>3, FrameInv

\* set_base touches only the VM's memory.
LEMMA SetBaseInv ==
  ASSUME AcceptorInv, SetBase PROVE AcceptorInv'
  <1> USE TreeAssumption, BoundAssumption DEF AcceptorInv, SetBase
  <1>1. TypeOK'
    BY DEF TypeOK, Phases, Origins, ledger, budget
  <1>2. UNCHANGED ledger /\ commits \subseteq commits' /\ TopBlock' = TopBlock
    BY DEF TopBlock, ledger
  <1>3. RegisterInv' /\ PhaseInv'
    BY DEF RegisterInv, PhaseInv, ledger
  <1> QED  BY <1>1, <1>2, <1>3, FrameInv

\* Writing state.id touches no block and no commit.
LEMMA WriteStateIdInv ==
  ASSUME AcceptorInv, WriteStateId PROVE AcceptorInv'
  <1> USE TreeAssumption, BoundAssumption DEF AcceptorInv, WriteStateId
  <1>1. TypeOK'
    BY DEF TypeOK, Phases, Origins, ledger, budget
  <1>2. UNCHANGED ledger /\ commits \subseteq commits' /\ TopBlock' = TopBlock
    BY DEF TopBlock, ledger
  <1>3. RegisterInv' /\ PhaseInv'
    BY DEF RegisterInv, PhaseInv, ledger
  <1> QED  BY <1>1, <1>2, <1>3, FrameInv

\* Refusing the remote block after a revert leaves the node on the target.
LEMMA RejectPendingInv ==
  ASSUME AcceptorInv, RejectPending PROVE AcceptorInv'
  <1> USE TreeAssumption, BoundAssumption DEF AcceptorInv, RejectPending
  <1>1. TypeOK'
    BY DEF TypeOK, Phases, Origins, ledger, vm, budget
  <1>2. UNCHANGED ledger /\ commits \subseteq commits' /\ TopBlock' = TopBlock
    BY DEF TopBlock, ledger, vm
  <1>3. RegisterInv' /\ PhaseInv'
    BY DEF RegisterInv, PhaseInv, ledger
  <1> QED  BY <1>1, <1>2, <1>3, FrameInv

\* A crash loses memory only; mid-revert the top of the ledger is the target.
LEMMA CrashInv ==
  ASSUME AcceptorInv, Crash PROVE AcceptorInv'
  <1> USE TreeAssumption, BoundAssumption DEF AcceptorInv, Crash
  <1>1. TypeOK'
    BY DEF TypeOK, Phases, Origins, ledger, vm
  <1>2. UNCHANGED ledger /\ commits \subseteq commits' /\ TopBlock' = TopBlock
    BY DEF TopBlock, RegisterInv, ledger, vm
  <1>3. RegisterInv' /\ PhaseInv'
    BY DEF RegisterInv, PhaseInv, ledger
  <1> QED  BY <1>1, <1>2, <1>3, FrameInv

\* load_tip and init_consensus read the durable state and rebuild memory.
LEMMA RestartInv ==
  ASSUME AcceptorInv, Restart PROVE AcceptorInv'
  <1> USE TreeAssumption, BoundAssumption DEF AcceptorInv, Restart
  <1>1. TypeOK'
    BY DEF TypeOK, Phases, Origins, RestoredRoot, ledger, budget
  <1>2. UNCHANGED ledger /\ commits \subseteq commits' /\ TopBlock' = TopBlock
    BY DEF TopBlock, ledger
  <1>3. RegisterInv' /\ PhaseInv'
    BY DEF RegisterInv, PhaseInv, ledger
  <1> QED  BY <1>1, <1>2, <1>3, FrameInv

\* The regenerating restart leaves the old chain in place up to this point.
LEMMA RestartRegeneratedInv ==
  ASSUME AcceptorInv, RestartRegenerated PROVE AcceptorInv'
  <1> USE TreeAssumption, BoundAssumption DEF AcceptorInv, RestartRegenerated
  <1>1. TypeOK'
    BY DEF TypeOK, Phases, Origins, ledger, budget
  <1>2. UNCHANGED ledger /\ commits \subseteq commits' /\ TopBlock' = TopBlock
    BY DEF TopBlock, ledger
  <1>3. RegisterInv' /\ PhaseInv'
    BY DEF RegisterInv, PhaseInv, ledger
  <1> QED  BY <1>1, <1>2, <1>3, FrameInv

\* A revert starts towards a block of the ledger whose commit is open.
LEMMA StartRevertInv ==
  ASSUME AcceptorInv, NEW to \in blocks, NEW remote \in Blocks \cup {NoBlock},
         NEW who \in Origins, StartRevert(to, remote, who)
  PROVE  AcceptorInv'
  <1> USE TreeAssumption, BoundAssumption DEF AcceptorInv, StartRevert
  <1>1. TypeOK'
    BY DEF TypeOK, Phases, ledger
  <1>2. UNCHANGED ledger /\ commits \subseteq commits' /\ TopBlock' = TopBlock
    BY DEF TopBlock, RegisterInv, ledger
  <1>3. RegisterInv' /\ PhaseInv'
    BY DEF RegisterInv, PhaseInv, ledger
  <1> QED  BY <1>1, <1>2, <1>3, FrameInv

\* The callers of try_revert all aim at a block of the ledger.
LEMMA RevertCallersInv ==
  ASSUME AcceptorInv,
         \/ \E b \in Blocks : Fallback(b)
         \/ \E b \in Blocks : StalledOnFork(b)
         \/ RevertLastFinal
  PROVE  AcceptorInv'
  <1>1. CASE RevertLastFinal
    BY <1>1, StartRevertInv DEF RevertLastFinal, Origins
  <1>2. ASSUME NEW b \in Blocks, Fallback(b) PROVE AcceptorInv'
    BY <1>2, StartRevertInv DEF Fallback, Origins
  <1>3. ASSUME NEW b \in Blocks, StalledOnFork(b) PROVE AcceptorInv'
    <2> DEFINE h == Height[b]
    <2>1. pc = "idle" /\ h \in 1..Height[tip]
      BY <1>3 DEF StalledOnFork
    <2>2. tip = TopBlock
      BY <2>1 DEF AcceptorInv, RegisterInv, TopBlock
    <2>3. Height[tip] \in Heights
      BY TreeAssumption DEF AcceptorInv, TypeOK
    <2>4. h \in 0..Height[tip] /\ h - 1 \in 0..Height[tip] /\ h > 0
      BY <2>1, <2>3, TreeAssumption DEF Heights
    <2>5. Parent[blockAt[h]] = blockAt[h - 1] /\ blockAt[h - 1] \in blocks
      BY <2>2, <2>4 DEF AcceptorInv, ChainTo
    <2> QED  BY <1>3, <2>5, StartRevertInv DEF StalledOnFork, Origins
  <1> QED  BY <1>1, <1>2, <1>3

\* Merging closes only commits of blocks below a Final block.
LEMMA MergeCommitInv ==
  ASSUME AcceptorInv, NEW d \in Blocks, MergeCommit(d) PROVE AcceptorInv'
  <1> USE TreeAssumption, BoundAssumption DEF MergeCommit
  <1>1. TypeOK'
    BY DEF AcceptorInv, TypeOK, CommitsWithout, ledger, budget
  <1>2. TopBlock' = TopBlock /\ blocks' = blocks
    BY DEF TopBlock, ledger
  <1>3. ChainTo(Height[TopBlock])' /\ FinalPrefix'
    BY <1>2 DEF AcceptorInv, ChainTo, FinalPrefix, ledger
  <1>4. RevertTargetsOpen'
    <2> SUFFICES ASSUME NEW h \in Heights, blockAt[h] # NoBlock,
                        h = MaxHeight \/ labelAt[h + 1] # "Final"
                 PROVE  blockAt[h] \in commits'
      BY DEF RevertTargetsOpen, ledger
    <2>1. blockAt[h] \in commits
      BY DEF AcceptorInv, RevertTargetsOpen
    <2>2. Height[d] < MaxHeight /\ labelAt[Height[d] + 1] = "Final"
      BY DEF AcceptorInv, PhaseInv
    <2>3. Height[blockAt[h]] = h
      <3>1. Height[TopBlock] \in Heights
        BY DEF AcceptorInv, TypeOK
      <3>2. h \in 0..Height[TopBlock]
        BY <3>1 DEF AcceptorInv, ChainTo, Heights
      <3> QED  BY <3>2 DEF AcceptorInv, ChainTo
    <2>4. blockAt[h] # d
      BY <2>2, <2>3 DEF Heights
    <2> QED  BY <2>1, <2>4 DEF CommitsWithout
  <1>5. RegisterInv' /\ PhaseInv'
    BY DEF AcceptorInv, RegisterInv, PhaseInv, ledger
  <1> QED  BY <1>1, <1>2, <1>3, <1>4, <1>5 DEF AcceptorInv

\* Deleting the blocks above the target leaves the chain that ends there.
LEMMA DeleteBlocksInv ==
  ASSUME AcceptorInv, DeleteBlocks PROVE AcceptorInv'
  <1> USE TreeAssumption, BoundAssumption DEF DeleteBlocks
  <1> DEFINE n == Height[target]
  <1>0. /\ n \in Heights /\ target \in blocks /\ target \in commits
        /\ tip = TopBlock /\ mdHash = tip /\ n <= Height[tip]
        /\ blockAt[n] = target /\ ChainTo(Height[tip]) /\ Height[tip] \in Heights
    BY DEF AcceptorInv, TypeOK, PhaseInv, RegisterInv, TopBlock, ChainTo
  <1>1. TypeOK'
    BY DEF AcceptorInv, TypeOK, Phases, Labels, vm, budget
  <1>2. TopBlock' = target /\ target \in blocks' /\ n' = n
    BY <1>0 DEF TopBlock, Deleted, Heights
  <1>3. ChainTo(n)'
    <2>1. \A h \in 0..n : /\ blockAt'[h] = blockAt[h]
                          /\ labelAt'[h] = labelAt[h]
                          /\ h \in 0..Height[tip] /\ h \in Heights
      BY <1>0 DEF Deleted, Heights
    <2>2. \A h \in 0..n : /\ blockAt'[h] \in blocks'
                          /\ Height[blockAt'[h]] = h
                          /\ labelAt'[h] # "None"
      BY <1>0, <2>1 DEF ChainTo, Deleted, Heights
    <2>3. \A h \in 0..n : h > 0 => Parent[blockAt'[h]] = blockAt'[h - 1]
      <3> SUFFICES ASSUME NEW h \in 0..n, h > 0
                   PROVE  Parent[blockAt'[h]] = blockAt'[h - 1]
        OBVIOUS
      <3>1. h - 1 \in 0..n /\ h \in 0..Height[tip]
        BY <1>0 DEF Heights
      <3> QED  BY <1>0, <2>1, <3>1 DEF ChainTo
    <2>4. \A h \in Heights : h > n => blockAt'[h] = NoBlock /\ labelAt'[h] = "None"
      BY DEF Deleted
    <2>5. \A b \in blocks' : Height[b] <= n /\ blockAt'[Height[b]] = b
      <3> SUFFICES ASSUME NEW b \in blocks'
                   PROVE  Height[b] <= n /\ blockAt'[Height[b]] = b
        OBVIOUS
      <3>1. b \in Blocks /\ b \in blocks
        BY DEF AcceptorInv, TypeOK
      <3>2. Height[b] \in Heights /\ ~(Height[b] > n)
        BY <3>1 DEF Deleted
      <3>3. blockAt[Height[b]] = b
        BY <1>0, <3>1 DEF ChainTo
      <3> QED  BY <1>0, <3>2, <3>3 DEF Deleted, Heights
    <2> QED  BY <1>2, <2>2, <2>3, <2>4, <2>5 DEF ChainTo
  <1>4. FinalPrefix'
    <2> SUFFICES ASSUME NEW g \in Heights, NEW h \in Heights, g < h,
                        labelAt'[h] = "Final"
                 PROVE  labelAt'[g] = "Final"
      BY DEF FinalPrefix
    <2>1. ~(h > n) /\ labelAt[h] = "Final"
      BY DEF Deleted
    <2>2. ~(g > n)
      BY <1>0, <2>1 DEF Heights
    <2>3. labelAt[g] = "Final"
      BY <2>1 DEF AcceptorInv, FinalPrefix
    <2> QED  BY <2>2, <2>3 DEF Deleted
  <1>5. RevertTargetsOpen'
    <2> SUFFICES ASSUME NEW h \in Heights, blockAt'[h] # NoBlock,
                        h = MaxHeight \/ labelAt'[h + 1] # "Final"
                 PROVE  blockAt'[h] \in commits
      BY DEF RevertTargetsOpen, vm
    <2>1. h <= n /\ blockAt'[h] = blockAt[h]
      BY <1>0 DEF Deleted, Heights
    <2>2. CASE h = n
      BY <1>0, <2>1, <2>2
    <2>3. CASE h < n
      <3>1. h + 1 \in Heights /\ labelAt'[h + 1] = labelAt[h + 1] /\ h # MaxHeight
        BY <1>0, <2>3 DEF Deleted, Heights
      <3> QED  BY <2>1, <3>1 DEF AcceptorInv, RevertTargetsOpen
    <2> QED  BY <1>0, <2>1, <2>2, <2>3 DEF Heights
  <1>6. RegisterInv'
    BY <1>0 DEF RegisterInv, ChainTo, Deleted, Heights
  <1>7. PhaseInv'
    BY DEF PhaseInv
  <1> QED  BY <1>1, <1>2, <1>3, <1>4, <1>5, <1>6, <1>7 DEF AcceptorInv

\* update_tip moves the register to the block that is the top already.
LEMMA UpdateTipInv ==
  ASSUME AcceptorInv, UpdateTip PROVE AcceptorInv'
  <1> USE TreeAssumption, BoundAssumption DEF UpdateTip
  <1>1. TypeOK'
    BY DEF AcceptorInv, TypeOK, Phases, vm, budget
  <1>2. TopBlock = target /\ TopBlock' = target
    BY DEF TopBlock
  <1>3. ChainTo(Height[TopBlock])' /\ TopBlock' \in blocks'
    BY <1>2 DEF AcceptorInv, ChainTo
  <1>4. FinalPrefix' /\ RevertTargetsOpen'
    BY DEF AcceptorInv, FinalPrefix, RevertTargetsOpen, vm
  <1>5. RegisterInv' /\ PhaseInv'
    BY DEF RegisterInv, PhaseInv
  <1> QED  BY <1>1, <1>3, <1>4, <1>5 DEF AcceptorInv

\* What the labels are after a block is stored: Final is kept, the new Final
\* labels are the run NewFinals, nothing above the new block changes.
LEMMA StoredLabels ==
  ASSUME AcceptorInv, NEW lfb \in Heights, StoreBlock(lfb)
  PROVE  LET cur == Height[pending]
             finals == NewFinals(pending, lfb) IN
         /\ cur \in Heights /\ cur = Height[tip] + 1 /\ pending \in Blocks
         /\ Height[tip] \in Heights /\ ChainTo(Height[tip]) /\ tip \in blocks
         /\ lfb \in 0..(cur - 1) /\ labelAt[lfb] = "Final"
         /\ \A h \in (lfb + 1)..(cur - 1) : labelAt[h] # "Final"
         /\ finals \subseteq (lfb + 1)..(cur - 1)
         /\ \A h \in finals : \A g \in (lfb + 1)..h : g \in finals
         /\ \A h \in Heights : labelAt'[h] \in Labels
         /\ \A h \in Heights : h = cur => labelAt'[h] \in {"Attested", "Accepted"}
         /\ \A h \in Heights : h # cur =>
              (labelAt'[h] = "Final" <=> labelAt[h] = "Final" \/ h \in finals)
         /\ \A h \in Heights : h < cur => (labelAt[h] # "None" => labelAt'[h] # "None")
         /\ \A h \in Heights : h > cur => labelAt'[h] = labelAt[h]
  <1> USE TreeAssumption DEF StoreBlock
  <1> DEFINE cur == Height[pending]
             finals == NewFinals(pending, lfb)
  <1>1. /\ pending \in Blocks \ {Genesis} /\ Parent[pending] = tip
        /\ tip \in Blocks /\ cur = Height[tip] + 1
        /\ cur \in Heights /\ Height[tip] \in Heights
    BY DEF AcceptorInv, PhaseInv, TypeOK
  <1>2. tip = TopBlock /\ ChainTo(Height[tip]) /\ tip \in blocks
    BY DEF AcceptorInv, RegisterInv, TopBlock
  <1>3. /\ lfb \in 0..(cur - 1) /\ labelAt[lfb] = "Final"
        /\ \A h \in (lfb + 1)..(cur - 1) : labelAt[h] # "Final"
        /\ IsLastFinal(labelAt, lfb, cur)
    BY DEF IsLastFinal
  <1>4. lfb \in Int /\ cur \in Int /\ Heights \subseteq Int
    BY <1>1 DEF Heights
  <1>5. /\ finals \subseteq (lfb + 1)..(cur - 1)
        /\ \A h \in finals : \A g \in (lfb + 1)..h : g \in finals
    BY <1>4, FinalHeightsRun DEF NewFinals
  <1>6. \A h \in Heights : h = cur => labelAt'[h] \in {"Attested", "Accepted"}
    BY DEF LabelsAfter, BlockLabel
  <1>7. ASSUME NEW h \in Heights, h # cur
        PROVE  /\ labelAt'[h] = "Final" <=> labelAt[h] = "Final" \/ h \in finals
               /\ labelAt'[h] \in {"Final", "Confirmed", labelAt[h]}
               /\ h \notin (lfb + 1)..(cur - 1) => labelAt'[h] = labelAt[h]
    <2>1. CASE Pni[pending] = 0
      <3>1. labelAt'[h] = ScannedLabel(labelAt, After, lfb, cur, h)
        BY <1>7, <2>1 DEF LabelsAfter
      <3>2. finals = FinalHeights(labelAt, After, lfb, cur)
        BY <2>1 DEF NewFinals
      <3>3. h \in Int
        BY <1>4
      <3> HIDE DEF finals, cur
      <3> QED  BY <3>1, <3>2, <3>3, <1>3, <1>4, ScannedFinal
    <2>2. CASE Pni[pending] # 0
      BY <1>7, <2>2 DEF LabelsAfter, NewFinals
    <2> QED  BY <2>1, <2>2
  <1>8. \A h \in Heights : labelAt'[h] \in Labels
    <2> SUFFICES ASSUME NEW h \in Heights PROVE labelAt'[h] \in Labels
      OBVIOUS
    <2>1. labelAt[h] \in Labels
      BY DEF AcceptorInv, TypeOK
    <2>2. CASE h = cur
      BY <1>6, <2>2 DEF Labels
    <2>3. CASE h # cur
      BY <1>7, <2>1, <2>3 DEF Labels
    <2> QED  BY <2>2, <2>3
  <1>9. \A h \in Heights : h < cur => (labelAt[h] # "None" => labelAt'[h] # "None")
    BY <1>4, <1>7
  <1>10. \A h \in Heights : h > cur => labelAt'[h] = labelAt[h]
    BY <1>4, <1>7
  <1> QED  BY <1>1, <1>2, <1>3, <1>5, <1>6, <1>7, <1>8, <1>9, <1>10

\* Storing a block extends the chain by it and moves Final upwards without a
\* gap; what finalize_state is then asked to merge lies below a Final block.
LEMMA StoreBlockInv ==
  ASSUME AcceptorInv, NEW lfb \in Heights, StoreBlock(lfb) PROVE AcceptorInv'
  <1> USE TreeAssumption
  <1> DEFINE cur == Height[pending]
             finals == NewFinals(pending, lfb)
  <1>1. /\ cur \in Heights /\ cur = Height[tip] + 1 /\ pending \in Blocks
        /\ Height[tip] \in Heights /\ ChainTo(Height[tip]) /\ tip \in blocks
        /\ lfb \in 0..(cur - 1) /\ labelAt[lfb] = "Final"
        /\ \A h \in (lfb + 1)..(cur - 1) : labelAt[h] # "Final"
        /\ finals \subseteq (lfb + 1)..(cur - 1)
        /\ \A h \in finals : \A g \in (lfb + 1)..h : g \in finals
    BY StoredLabels
  <1>2. /\ \A h \in Heights : labelAt'[h] \in Labels
        /\ \A h \in Heights : h = cur => labelAt'[h] \in {"Attested", "Accepted"}
        /\ \A h \in Heights : h # cur =>
             (labelAt'[h] = "Final" <=> labelAt[h] = "Final" \/ h \in finals)
        /\ \A h \in Heights : h < cur => (labelAt[h] # "None" => labelAt'[h] # "None")
        /\ \A h \in Heights : h > cur => labelAt'[h] = labelAt[h]
    BY StoredLabels
  <1>3. /\ blockAt' = [blockAt EXCEPT ![cur] = pending]
        /\ blocks' = blocks \cup {pending}
        /\ mdHash' = pending /\ tip' = pending /\ pending' = NoBlock
        /\ vm' = vm /\ target' = target /\ origin' = origin /\ budget' = budget
        /\ pc' \in {"idle", "dbStored"}
    BY DEF StoreBlock
  <1>4. /\ blocks \subseteq Blocks /\ blockAt \in [Heights -> Blocks \cup {NoBlock}]
        /\ pending \notin blocks /\ Parent[pending] = tip /\ pending \in commits
        /\ NoBlock \notin Blocks
    BY DEF AcceptorInv, TypeOK, PhaseInv, StoreBlock
  <1>5. \A h \in 0..(cur - 1) : /\ blockAt[h] \in blocks /\ Height[blockAt[h]] = h
                                /\ labelAt[h] # "None" /\ h \in Heights
                                /\ h \in 0..Height[tip]
    BY <1>1 DEF ChainTo, Heights
  <1>6. pc' = "dbStored" =>
          \E top \in finals :
            /\ \A h \in finals : h <= top
            /\ newBase' = blockAt[top]
            /\ toMerge' = {blockAt[h] : h \in (finals \ {top}) \cup {lfb}}
    BY DEF StoreBlock, OldFinals
  <1>7. pc' = "idle" => toMerge' = toMerge /\ newBase' = newBase
    BY DEF StoreBlock
  <1> HIDE DEF cur, finals
  <1>8. TypeOK'
    <2>1. labelAt' \in [Heights -> Labels]
      <3>1. labelAt' = [h \in Heights |-> labelAt'[h]]
        BY DEF StoreBlock, LabelsAfter
      <3> QED  BY <1>2, <3>1
    <2>2. toMerge' \in SUBSET Blocks /\ newBase' \in Blocks
      <3>1. CASE pc' = "idle"
        BY <1>7, <3>1 DEF AcceptorInv, TypeOK
      <3>2. CASE pc' = "dbStored"
        <4>1. finals \subseteq 0..(cur - 1) /\ lfb \in 0..(cur - 1)
          BY <1>1 DEF Heights
        <4> QED  BY <1>4, <1>5, <1>6, <3>2, <4>1
      <3> QED  BY <1>3, <3>1, <3>2
    <2>3. blocks' \in SUBSET Blocks /\ blockAt' \in [Heights -> Blocks \cup {NoBlock}]
      BY <1>1, <1>3, <1>4
    <2> QED  BY <1>1, <1>3, <2>1, <2>2, <2>3 DEF AcceptorInv, TypeOK, Phases, vm, budget
  <1>9. TopBlock' = pending /\ pending \in blocks'
    BY <1>3 DEF TopBlock
  <1>10. \A n \in Heights : n = cur => ChainTo(n)'
    <2>0. \A h \in 0..(cur - 1) : h # cur /\ h < cur
      BY <1>1 DEF Heights
    <2>1. \A h \in 0..(cur - 1) : blockAt'[h] = blockAt[h] /\ h # cur /\ h < cur
      BY <1>3, <1>4, <1>5, <2>0
    <2>2. blockAt'[cur] = pending /\ blockAt'[cur - 1] = tip /\ Height[pending] = cur
      <3>1. cur - 1 \in 0..(cur - 1) /\ cur - 1 = Height[tip]
        BY <1>1 DEF Heights
      <3>2. blockAt[Height[tip]] = tip
        BY <1>1 DEF ChainTo
      <3> QED  BY <1>1, <1>3, <1>4, <2>1, <3>1, <3>2 DEF cur
    <2>3. \A h \in 0..cur : h = cur \/ h \in 0..(cur - 1)
      BY <1>1 DEF Heights
    <2>4. \A h \in 0..cur : /\ blockAt'[h] \in blocks' /\ Height[blockAt'[h]] = h
                            /\ labelAt'[h] # "None"
      BY <1>1, <1>2, <1>3, <1>5, <2>1, <2>2, <2>3
    <2>5. \A h \in 0..cur : h > 0 => Parent[blockAt'[h]] = blockAt'[h - 1]
      <3> SUFFICES ASSUME NEW h \in 0..cur, h > 0
                   PROVE  Parent[blockAt'[h]] = blockAt'[h - 1]
        OBVIOUS
      <3>1. CASE h = cur
        BY <1>4, <2>2, <3>1
      <3>2. CASE h \in 0..(cur - 1)
        <4>1. h - 1 \in 0..(cur - 1)
          BY <1>1, <3>2 DEF Heights
        <4>2. Parent[blockAt[h]] = blockAt[h - 1]
          BY <1>1, <1>5, <3>2 DEF ChainTo
        <4> QED  BY <2>1, <3>2, <4>1, <4>2
      <3> QED  BY <2>3, <3>1, <3>2
    <2>6. \A h \in Heights : h > cur => blockAt'[h] = NoBlock /\ labelAt'[h] = "None"
      <3> SUFFICES ASSUME NEW h \in Heights, h > cur
                   PROVE  blockAt'[h] = NoBlock /\ labelAt'[h] = "None"
        OBVIOUS
      <3>1. h > Height[tip] /\ h # cur
        BY <1>1 DEF Heights
      <3>2. blockAt[h] = NoBlock /\ labelAt[h] = "None"
        BY <1>1, <3>1 DEF ChainTo
      <3> QED  BY <1>2, <1>3, <1>4, <3>1, <3>2
    <2>7. \A b \in blocks' : Height[b] <= cur /\ blockAt'[Height[b]] = b
      <3> SUFFICES ASSUME NEW b \in blocks'
                   PROVE  Height[b] <= cur /\ blockAt'[Height[b]] = b
        OBVIOUS
      <3>1. CASE b = pending
        BY <1>1, <2>2, <3>1 DEF Heights
      <3>2. CASE b \in blocks
        <4>1. Height[b] \in Heights /\ Height[b] <= Height[tip] /\ blockAt[Height[b]] = b
          BY <1>1, <1>4, <3>2 DEF ChainTo
        <4>2. Height[b] \in 0..(cur - 1)
          BY <1>1, <4>1 DEF Heights
        <4> QED  BY <2>1, <4>1, <4>2, <1>1 DEF Heights
      <3> QED  BY <1>3, <3>1, <3>2
    <2> QED  BY <2>4, <2>5, <2>6, <2>7 DEF ChainTo
  <1>11. FinalPrefix'
    <2> SUFFICES ASSUME NEW g \in Heights, NEW h \in Heights, g < h,
                        labelAt'[h] = "Final"
                 PROVE  labelAt'[g] = "Final"
      BY DEF FinalPrefix
    <2>1. h # cur /\ (labelAt[h] = "Final" \/ h \in finals)
      BY <1>2
    <2>2. h < cur
      <3>1. \A k \in Heights : k > Height[tip] => labelAt[k] = "None"
        BY <1>1 DEF ChainTo
      <3>2. CASE labelAt[h] = "Final"
        BY <1>1, <2>1, <3>1, <3>2 DEF Heights
      <3>3. CASE h \in finals
        BY <1>1, <3>3 DEF Heights
      <3> QED  BY <2>1, <3>2, <3>3
    <2>3. g # cur /\ g < cur
      BY <1>1, <2>2 DEF Heights
    <2>4. CASE g <= lfb
      <3>1. lfb \in Heights /\ (g = lfb \/ g < lfb)
        BY <1>1, <2>4 DEF Heights
      <3>2. labelAt[g] = "Final"
        BY <1>1, <3>1 DEF AcceptorInv, FinalPrefix
      <3> QED  BY <1>2, <2>3, <3>2
    <2>5. CASE g > lfb
      <3>1. h \in finals
        BY <1>1, <2>1, <2>2, <2>5 DEF Heights
      <3>2. g \in (lfb + 1)..h
        BY <1>1, <2>5 DEF Heights
      <3> QED  BY <1>1, <1>2, <2>3, <3>1, <3>2
    <2> QED  BY <2>4, <2>5, <1>1 DEF Heights
  <1>12. RevertTargetsOpen'
    <2> SUFFICES ASSUME NEW h \in Heights, blockAt'[h] # NoBlock,
                        h = MaxHeight \/ labelAt'[h + 1] # "Final"
                 PROVE  blockAt'[h] \in commits
      BY <1>3 DEF RevertTargetsOpen, vm
    <2>1. CASE h = cur
      BY <1>1, <1>3, <1>4, <2>1
    <2>2. CASE h # cur
      <3>1. blockAt'[h] = blockAt[h]
        BY <1>3, <1>4, <2>2
      <3>2. h = MaxHeight \/ labelAt[h + 1] # "Final"
        <4>1. CASE h + 1 = cur
          BY <1>1, <4>1 DEF ChainTo, Heights
        <4>2. CASE h + 1 # cur /\ h # MaxHeight
          <5>1. h + 1 \in Heights
            BY <4>2 DEF Heights
          <5> QED  BY <1>2, <4>2, <5>1
        <4> QED  BY <4>1, <4>2
      <3> QED  BY <3>1, <3>2 DEF AcceptorInv, RevertTargetsOpen
    <2> QED  BY <2>1, <2>2
  <1>13. RegisterInv'
    BY <1>3 DEF RegisterInv
  <1>14. PhaseInv'
    <2>1. CASE pc' = "idle"
      BY <2>1 DEF PhaseInv
    <2>2. CASE pc' = "dbStored"
      <3>1. PICK top \in finals :
              /\ \A h \in finals : h <= top
              /\ toMerge' = {blockAt[h] : h \in (finals \ {top}) \cup {lfb}}
        BY <1>6, <2>2
      <3>2. \A d \in toMerge' : /\ Height[d] < MaxHeight
                                /\ labelAt'[Height[d] + 1] = "Final"
        <4> SUFFICES ASSUME NEW k \in (finals \ {top}) \cup {lfb}
                     PROVE  /\ Height[blockAt[k]] < MaxHeight
                            /\ labelAt'[Height[blockAt[k]] + 1] = "Final"
          BY <3>1
        <4>1. top \in (lfb + 1)..(cur - 1) /\ k \in 0..(cur - 1) /\ k < top
          BY <1>1, <3>1 DEF Heights
        <4>2. Height[blockAt[k]] = k
          BY <1>5, <4>1
        <4>3. k + 1 \in (lfb + 1)..top /\ k + 1 \in Heights /\ k + 1 # cur /\ k < MaxHeight
          BY <1>1, <4>1 DEF Heights
        <4>4. k + 1 \in finals
          BY <1>1, <3>1, <4>3
        <4> QED  BY <1>2, <4>2, <4>3, <4>4
      <3> QED  BY <2>2, <3>2 DEF PhaseInv
    <2> QED  BY <1>3, <2>1, <2>2
  <1>15. ChainTo(Height[TopBlock])'
    <2>1. Height[pending] = cur
      BY DEF cur
    <2>2. \A n : n = Height[pending] => ChainTo(n)'
      BY <1>1, <1>10, <2>1
    <2> QED  BY <1>9, <2>2 DEF ChainTo
  <1> QED
    BY <1>8, <1>9, <1>11, <1>12, <1>13, <1>14, <1>15 DEF AcceptorInv

\* Every step of the acceptor keeps the invariant.
LEMMA NextInv == AcceptorInv /\ [Next]_vars => AcceptorInv'
  <1> SUFFICES ASSUME AcceptorInv, [Next]_vars PROVE AcceptorInv'
    OBVIOUS
  <1>1. ASSUME NEW b \in Blocks, VmAccept(b) PROVE AcceptorInv'
    BY <1>1, VmAcceptInv
  <1>2. ASSUME NEW lfb \in Heights, StoreBlock(lfb) PROVE AcceptorInv'
    BY <1>2, StoreBlockInv
  <1>3. CASE StoreFails
    BY <1>3, StoreFailsInv
  <1>4. CASE SetBase
    BY <1>4, SetBaseInv
  <1>5. ASSUME NEW d \in Blocks, MergeCommit(d) PROVE AcceptorInv'
    BY <1>5, MergeCommitInv
  <1>6. CASE WriteStateId
    BY <1>6, WriteStateIdInv
  <1>7. CASE \/ \E b \in Blocks : Fallback(b)
             \/ \E b \in Blocks : StalledOnFork(b)
             \/ RevertLastFinal
    BY <1>7, RevertCallersInv
  <1>8. CASE DeleteBlocks
    BY <1>8, DeleteBlocksInv
  <1>9. CASE UpdateTip
    BY <1>9, UpdateTipInv
  <1>10. CASE RejectPending
    BY <1>10, RejectPendingInv
  <1>11. CASE Crash
    BY <1>11, CrashInv
  <1>12. CASE Restart
    BY <1>12, RestartInv
  <1>13. CASE RestartRegenerated
    BY <1>13, RestartRegeneratedInv
  <1>14. CASE UNCHANGED vars
    <2> USE <1>14 DEF vars, ledger, vm, op, budget
    <2>1. TypeOK'
      BY DEF AcceptorInv, TypeOK
    <2>2. TopBlock' = TopBlock /\ RegisterInv' /\ PhaseInv'
      BY DEF AcceptorInv, TopBlock, RegisterInv, PhaseInv
    <2> QED  BY <2>1, <2>2, FrameInv
  <1> QED  BY <1>1, <1>2, <1>3, <1>4, <1>5, <1>6, <1>7, <1>8, <1>9, <1>10,
              <1>11, <1>12, <1>13, <1>14 DEF Next

-----------------------------------------------------------------------------
(* The theorems *)

\* The inductive invariant holds in every reachable state.
THEOREM AcceptorInvariant == Spec => []AcceptorInv
  BY InitInv, NextInv, PTL DEF Spec

\* Every variable keeps its type: the ledger names only headers of the tree,
\* and a label exists for every height.
THEOREM TypeCorrect == Spec => []TypeOK
  <1>1. AcceptorInv => TypeOK
    BY DEF AcceptorInv
  <1> QED  BY <1>1, AcceptorInvariant, PTL

\* store_block and delete_block keep one parent-linked chain from genesis in
\* both column families, through crashes, failed transactions and reverts.
THEOREM LedgerStaysLinked == Spec => []LedgerLinked
  <1>1. AcceptorInv => LedgerLinked
    BY TreeAssumption DEF AcceptorInv, TypeOK, LedgerLinked
  <1> QED  BY <1>1, AcceptorInvariant, PTL

\* rolling_finality never leaves a gap below a Final label.
THEOREM FinalIsPrefix == Spec => []FinalPrefix
  <1>1. AcceptorInv => FinalPrefix
    BY DEF AcceptorInv
  <1> QED  BY <1>1, AcceptorInvariant, PTL

\* finalize_state never merges a state that a revert or a restart can ask for.
THEOREM RevertTargetsStayOpen == Spec => []RevertTargetsOpen
  <1>1. AcceptorInv => RevertTargetsOpen
    BY DEF AcceptorInv
  <1> QED  BY <1>1, AcceptorInvariant, PTL

-----------------------------------------------------------------------------
(* A fallback keeps what is Final *)

\* What AboveLastFinal establishes for the deletion that follows it.
FallbackInv ==
  pc = "vmReverted" /\ origin = "fallback" =>
    \A h \in Heights : h > Height[target] => labelAt[h] # "Final"

\* A fallback starts towards a block no lower than the last final one; no other
\* step reaches the phase in which the ledger still has to be cut.
LEMMA NextFallbackInv == AcceptorInv /\ FallbackInv /\ [Next]_vars => FallbackInv'
  <1> SUFFICES ASSUME AcceptorInv, FallbackInv, [Next]_vars,
                      pc' = "vmReverted", origin' = "fallback"
               PROVE  \A h \in Heights : h > Height[target'] => labelAt'[h] # "Final"
    BY DEF FallbackInv
  <1> USE TreeAssumption
  <1>1. ASSUME NEW b \in Blocks, Fallback(b)
        PROVE  \A h \in Heights : h > Height[target'] => labelAt'[h] # "Final"
    <2>1. /\ target' = Parent[b] /\ labelAt' = labelAt /\ pc = "idle"
          /\ b \in Blocks \ {Genesis} /\ Height[b] = Height[Parent[b]] + 1
          /\ Height[Parent[b]] \in Heights
      BY <1>1 DEF Fallback, StartRevert, VerifyAgainstLocal, ValidSuccessor, ledger
    <2>2. PICK lfb \in Heights : /\ IsLastFinal(labelAt, lfb, Height[tip] + 1)
                                 /\ Height[b] > lfb
      BY <1>1 DEF Fallback, AboveLastFinal
    <2>3. tip = TopBlock /\ Height[tip] \in Heights
      BY <2>1 DEF AcceptorInv, RegisterInv, TopBlock, TypeOK
    <2>4. \A h \in Heights : h > Height[tip] => labelAt[h] # "Final"
      BY <2>3 DEF AcceptorInv, ChainTo
    <2>5. \A h \in (lfb + 1)..Height[tip] : labelAt[h] # "Final"
      BY <2>2, <2>3 DEF IsLastFinal, Heights
    <2>6. ASSUME NEW h \in Heights, h > Height[Parent[b]]
          PROVE  h > Height[tip] \/ h \in (lfb + 1)..Height[tip]
      BY <2>1, <2>2, <2>3, <2>6 DEF Heights
    <2> QED  BY <2>1, <2>4, <2>5, <2>6
  <1>2. CASE UNCHANGED vars
    BY <1>2 DEF FallbackInv, vars, ledger, op
  <1> QED
    BY <1>1, <1>2 DEF Next, VmAccept, StoreBlock, StoreFails, SetBase, MergeCommit,
       WriteStateId, StalledOnFork, RevertLastFinal, StartRevert, DeleteBlocks,
       UpdateTip, RejectPending, Crash, Restart, RestartRegenerated

\* Storing a block keeps every Final label and the block under it.
LEMMA StoreBlockKeepsFinal ==
  ASSUME AcceptorInv, NEW lfb \in Heights, StoreBlock(lfb) PROVE KeepsFinal
  <1> SUFFICES ASSUME NEW h \in Heights, labelAt[h] = "Final"
               PROVE  labelAt'[h] = "Final" /\ blockAt'[h] = blockAt[h]
    BY DEF KeepsFinal
  <1>1. h # Height[pending]
    <2>1. /\ Height[pending] \in Heights /\ Height[pending] = Height[tip] + 1
          /\ Height[tip] \in Heights /\ ChainTo(Height[tip])
      BY StoredLabels
    <2>2. Height[pending] > Height[tip]
      BY <2>1 DEF Heights
    <2> QED  BY <2>1, <2>2 DEF ChainTo
  <1>2. labelAt'[h] = "Final"
    BY <1>1, StoredLabels
  <1> QED  BY <1>1, <1>2 DEF StoreBlock, AcceptorInv, TypeOK

\* A fallback never removes a Final block, even when a crash has separated the
\* labels from the VM's finalized root (InSync's comparison with the last final
\* block, then try_revert).
THEOREM FallbackRespectsFinal == Spec => FallbackKeepsFinal
  <1>1. Init => FallbackInv
    BY DEF Init, FallbackInv
  <1>2. AcceptorInv /\ FallbackInv /\ [Next]_vars =>
          [origin = "fallback" => KeepsFinal]_vars
    <2> SUFFICES ASSUME AcceptorInv, FallbackInv, Next, origin = "fallback"
                 PROVE  KeepsFinal
      OBVIOUS
    <2>1. ASSUME NEW lfb \in Heights, StoreBlock(lfb) PROVE KeepsFinal
      BY <2>1, StoreBlockKeepsFinal
    <2>2. CASE DeleteBlocks
      BY <2>2 DEF FallbackInv, DeleteBlocks, Deleted, KeepsFinal
    <2>3. CASE UpdateTip
      BY <2>3 DEF UpdateTip, KeepsFinal
    <2>4. CASE UNCHANGED ledger
      BY <2>4 DEF ledger, KeepsFinal
    <2> QED
      BY <2>1, <2>2, <2>3, <2>4 DEF Next, VmAccept, StoreFails, SetBase, MergeCommit,
         WriteStateId, Fallback, StalledOnFork, RevertLastFinal, StartRevert,
         RejectPending, Crash, Restart, RestartRegenerated
  <1> QED
    BY <1>1, <1>2, NextFallbackInv, AcceptorInvariant, PTL DEF Spec, FallbackKeepsFinal
-----------------------------------------------------------------------------
(* The VM follows the tip *)

\* Where the VM's current root is in every phase of an operation.
VmInv ==
  /\ pc = "idle" =>
       \/ vmCurrent = tip
       \/ dbErrors > 0 /\ vmCurrent \notin blocks /\ Parent[vmCurrent] = tip
       \/ crashes > 0 /\ tip = Genesis /\ vmCurrent = stateId
  /\ pc = "vmAccepted" => vmCurrent = pending
  /\ pc \in {"dbStored", "merging", "revertDone"} => vmCurrent = tip
  /\ pc \in {"vmReverted", "dbDeleted"} => vmCurrent = target
  /\ pc = "down" => crashes > 0

\* Only genesis has no block below it.
LEMMA GenesisOnly ==
  ASSUME NEW b \in Blocks, ~(Height[b] > 0) PROVE b = Genesis
  <1>1. ASSUME b # Genesis PROVE FALSE
    <2>1. /\ Height[b] = Height[Parent[b]] + 1 /\ Parent[b] \in Blocks
          /\ Height[Parent[b]] \in Nat
      BY <1>1, TreeAssumption DEF Heights
    <2> QED  BY <2>1
  <1> QED  BY <1>1

\* Every step moves the VM together with the tip, or says how it is ahead.
LEMMA NextVmInv == AcceptorInv /\ VmInv /\ [Next]_vars => VmInv'
  <1> SUFFICES ASSUME AcceptorInv, VmInv, [Next]_vars PROVE VmInv'
    OBVIOUS
  <1> USE DEF VmInv
  <1>1. ASSUME NEW b \in Blocks, VmAccept(b) PROVE VmInv'
    BY <1>1 DEF VmAccept
  <1>2. ASSUME NEW lfb \in Heights, StoreBlock(lfb) PROVE VmInv'
    BY <1>2 DEF StoreBlock, vm
  <1>3. CASE StoreFails
    <2>1. pc = "vmAccepted" /\ dbErrors \in Nat /\ dbErrors' > 0
      BY <1>3, BoundAssumption DEF StoreFails, AcceptorInv, TypeOK
    <2> QED  BY <1>3, <2>1 DEF StoreFails, AcceptorInv, PhaseInv, ledger, vm
  <1>4. CASE SetBase
    BY <1>4 DEF SetBase
  <1>5. ASSUME NEW d \in Blocks, MergeCommit(d) PROVE VmInv'
    BY <1>5 DEF MergeCommit
  <1>6. CASE WriteStateId
    BY <1>6 DEF WriteStateId
  <1>7. ASSUME NEW b \in Blocks, Fallback(b) PROVE VmInv'
    BY <1>7 DEF Fallback, StartRevert
  <1>8. ASSUME NEW b \in Blocks, StalledOnFork(b) PROVE VmInv'
    BY <1>8 DEF StalledOnFork, StartRevert
  <1>9. CASE RevertLastFinal
    BY <1>9 DEF RevertLastFinal, StartRevert
  <1>10. CASE DeleteBlocks
    BY <1>10 DEF DeleteBlocks, vm
  <1>11. CASE UpdateTip
    BY <1>11 DEF UpdateTip, vm
  <1>12. CASE RejectPending
    BY <1>12 DEF RejectPending, vm
  <1>13. CASE Crash
    <2>1. crashes \in Nat /\ crashes' > 0
      BY <1>13, BoundAssumption DEF Crash, AcceptorInv, TypeOK
    <2> QED  BY <1>13, <2>1 DEF Crash
  <1>14. CASE Restart
    <2>1. mdHash \in Blocks /\ (Height[mdHash] > 0 \/ mdHash = Genesis)
      BY GenesisOnly DEF AcceptorInv, TypeOK
    <2> QED  BY <1>14, <2>1 DEF Restart, RestoredRoot, budget
  <1>15. CASE RestartRegenerated
    BY <1>15 DEF RestartRegenerated
  <1>16. CASE UNCHANGED vars
    BY <1>16 DEF vars, ledger, vm, op, budget
  <1> QED  BY <1>1, <1>2, <1>3, <1>4, <1>5, <1>6, <1>7, <1>8, <1>9, <1>10, <1>11,
              <1>12, <1>13, <1>14, <1>15, <1>16 DEF Next

\* Between operations the register, the ledger and the VM are at the tip, or the
\* VM is where a failed transaction or a restart on genesis left it.
THEOREM TipsAgree == Spec => []TipAgreement
  <1>1. Init => VmInv
    BY DEF Init, VmInv
  <1>2. AcceptorInv /\ VmInv => TipAgreement
    <2> SUFFICES ASSUME AcceptorInv, VmInv, pc = "idle"
                 PROVE  /\ mdHash = tip
                        /\ IsTop(Height[tip]) /\ blockAt[Height[tip]] = tip
      BY DEF VmInv, TipAgreement
    <2>1. mdHash = tip /\ tip = TopBlock /\ tip \in blocks /\ tip # NoBlock
      BY TreeAssumption DEF AcceptorInv, RegisterInv, TopBlock, TypeOK
    <2>2. ChainTo(Height[tip])
      BY <2>1 DEF AcceptorInv
    <2> QED  BY <2>1, <2>2 DEF ChainTo, IsTop
  <1> QED  BY <1>1, <1>2, NextVmInv, AcceptorInvariant, PTL DEF Spec

-----------------------------------------------------------------------------
(* Rolling finality leaves nothing behind *)

\* What FinalityProgress says of the tip holds of every Attested block: a scan
\* that passed it on its way down would have confirmed it, so nothing below it
\* has changed but for the run of Confirmed blocks that became Final.
ProgressInv ==
  \A n \in Heights : labelAt[n] = "Attested" =>
    \/ n > 0 /\ labelAt[n - 1] = "Final"
    \/ \E g \in 0..(n - 1) : /\ labelAt[g] \notin {"Confirmed", "Final"}
                            /\ n - g < After[g]

\* A block that stops the downward scan keeps its label.
LEMMA UnstableKept ==
  ASSUME NEW lab, NEW after, NEW lfb \in Int, NEW cur \in Int, NEW g \in Int,
         NEW k \in g..(cur - 1), ~Stable(lab, after, k, cur), lab[g] # "Confirmed"
  PROVE  ScannedLabel(lab, after, lfb, cur, g) = lab[g]
  <1>1. g \notin ConfirmedHeights(lab, after, lfb, cur)
    BY DEF ConfirmedHeights
  <1>2. g \notin FinalHeights(lab, after, lfb, cur)
    BY <1>1 DEF FinalHeights
  <1> QED  BY <1>1, <1>2 DEF ScannedLabel

\* After a scan either all below the new block is Final, or some block was not
\* buried deep enough.
LEMMA ScanProgress ==
  ASSUME NEW lab, NEW after, NEW lfb \in Nat, NEW cur \in Nat,
         IsLastFinal(lab, lfb, cur)
  PROVE  \/ ScannedLabel(lab, after, lfb, cur, cur - 1) = "Final"
         \/ \E g \in 0..(cur - 1) :
              /\ ScannedLabel(lab, after, lfb, cur, g) \notin {"Confirmed", "Final"}
              /\ ~(cur - g >= after[g])
  <1>1. lfb \in 0..(cur - 1) /\ lab[lfb] = "Final"
        /\ \A g \in (lfb + 1)..(cur - 1) : lab[g] # "Final"
    BY DEF IsLastFinal
  <1>2. CASE lfb = cur - 1
    <2>1. cur - 1 \notin FinalHeights(lab, after, lfb, cur)
          /\ cur - 1 \notin ConfirmedHeights(lab, after, lfb, cur)
      BY <1>2 DEF FinalHeights, ConfirmedHeights
    <2> QED  BY <1>1, <1>2, <2>1 DEF ScannedLabel
  <1>3. CASE cur - 1 \in FinalHeights(lab, after, lfb, cur)
    BY <1>3 DEF ScannedLabel
  <1>4. CASE lfb # cur - 1 /\ cur - 1 \notin FinalHeights(lab, after, lfb, cur)
    <2>1. cur - 1 \in (lfb + 1)..(cur - 1)
      BY <1>1, <1>4
    <2>2. PICK h \in (lfb + 1)..(cur - 1) : h \notin ConfirmedHeights(lab, after, lfb, cur)
      BY <1>4, <2>1 DEF FinalHeights
    <2>3. PICK g \in h..(cur - 1) : ~Stable(lab, after, g, cur)
      BY <2>2 DEF ConfirmedHeights
    <2>4. lab[g] # "Confirmed" /\ ~(cur - g >= after[g])
      BY <2>3 DEF Stable
    <2>5. g \in 0..(cur - 1) /\ g \in (lfb + 1)..(cur - 1) /\ g \in g..(cur - 1) /\ g \in Int
      BY <1>1, <2>2, <2>3
    <2>6. ScannedLabel(lab, after, lfb, cur, g) = lab[g]
      BY <2>3, <2>4, <2>5, UnstableKept
    <2> QED  BY <1>1, <2>4, <2>5, <2>6
  <1> QED  BY <1>2, <1>3, <1>4

\* The counts are natural numbers and those of stored blocks do not change.
LEMMA AfterType ==
  ASSUME TypeOK PROVE \A h \in Heights : After[h] \in Nat
  <1> SUFFICES ASSUME NEW h \in Heights PROVE After[h] \in Nat
    OBVIOUS
  <1>1. blockAt[h] = NoBlock \/ Pni[blockAt[h]] \in Nat
    BY TreeAssumption DEF TypeOK
  <1> QED  BY <1>1 DEF After, ConfirmedAfter

\* Storing a block scans from it downwards; what is left is not buried enough.
LEMMA StoreBlockProgress ==
  ASSUME AcceptorInv, ProgressInv, NEW lfb \in Heights, StoreBlock(lfb)
  PROVE  ProgressInv'
  <1> DEFINE cur == Height[pending]
  <1>1. /\ cur \in Heights /\ cur = Height[tip] + 1 /\ pending \in Blocks
        /\ Height[tip] \in Heights /\ ChainTo(Height[tip])
        /\ \A h \in Heights : h > cur => labelAt'[h] = labelAt[h]
    BY StoredLabels
  <1>2. /\ IsLastFinal(labelAt, lfb, cur) /\ labelAt' = LabelsAfter(pending, lfb)
        /\ blockAt' = [blockAt EXCEPT ![cur] = pending]
        /\ blockAt \in [Heights -> Blocks \cup {NoBlock}]
    BY DEF StoreBlock, AcceptorInv, TypeOK
  <1>3. cur \in Nat /\ lfb \in Nat /\ Heights \subseteq Nat
        /\ \A h \in 0..(cur - 1) : h \in Heights /\ h # cur
    BY <1>1, TreeAssumption DEF Heights
  <1>4. \A h \in Heights : h # cur => After'[h] = After[h]
    BY <1>2 DEF After
  <1>5. \A h \in Heights : After[h] \in Nat
    BY AfterType DEF AcceptorInv
  <1>6. KeepsFinal
    BY StoreBlockKeepsFinal
  <1> SUFFICES ASSUME NEW n \in Heights, labelAt'[n] = "Attested"
               PROVE  \/ n > 0 /\ labelAt'[n - 1] = "Final"
                      \/ \E g \in 0..(n - 1) :
                           /\ labelAt'[g] \notin {"Confirmed", "Final"}
                           /\ n - g < After'[g]
    BY DEF ProgressInv
  <1> HIDE DEF cur
  <1>7. ~(n > cur)
    <2>1. n > cur => labelAt[n] = "None"
      BY <1>1, <1>3 DEF ChainTo, Heights
    <2> QED  BY <1>1, <2>1
  <1>8. CASE n = cur
    <2>1. Pni[pending] = 0
      BY <1>2, <1>8 DEF LabelsAfter, BlockLabel, cur
    <2>2. \A h \in 0..(cur - 1) : labelAt'[h] = ScannedLabel(labelAt, After, lfb, cur, h)
      BY <1>2, <1>3, <2>1 DEF LabelsAfter, cur
    <2>3. \/ ScannedLabel(labelAt, After, lfb, cur, cur - 1) = "Final"
          \/ \E g \in 0..(cur - 1) :
               /\ ScannedLabel(labelAt, After, lfb, cur, g) \notin {"Confirmed", "Final"}
               /\ ~(cur - g >= After[g])
      BY <1>2, <1>3, ScanProgress
    <2>4. cur > 0 /\ cur - 1 \in 0..(cur - 1)
      BY <1>1, <1>3 DEF Heights
    <2>5. CASE ScannedLabel(labelAt, After, lfb, cur, cur - 1) = "Final"
      BY <1>8, <2>2, <2>4, <2>5
    <2>6. ASSUME NEW g \in 0..(cur - 1),
                 ScannedLabel(labelAt, After, lfb, cur, g) \notin {"Confirmed", "Final"},
                 ~(cur - g >= After[g])
          PROVE  labelAt'[g] \notin {"Confirmed", "Final"} /\ cur - g < After'[g]
      <3>1. After'[g] = After[g] /\ After[g] \in Nat
        BY <1>3, <1>4, <1>5
      <3> QED  BY <1>3, <2>2, <2>6, <3>1
    <2> QED  BY <1>8, <2>3, <2>5, <2>6
  <1>9. CASE n < cur
    <2>1. n \in 0..(cur - 1) /\ \A g \in 0..(n - 1) : g \in 0..(cur - 1)
      BY <1>3, <1>9
    <2>2. CASE Pni[pending] # 0
      <3>1. \A h \in 0..(cur - 1) : labelAt'[h] = labelAt[h]
        BY <1>2, <1>3, <2>2 DEF LabelsAfter, cur
      <3>2. n > 0 => n - 1 \in 0..(cur - 1)
        BY <1>3, <1>9
      <3>3. \A g \in 0..(n - 1) : After'[g] = After[g]
        BY <1>3, <1>4, <2>1
      <3> QED  BY <2>1, <3>1, <3>2, <3>3 DEF ProgressInv
    <2>3. CASE Pni[pending] = 0
      <3>1. \A h \in 0..(cur - 1) : labelAt'[h] = ScannedLabel(labelAt, After, lfb, cur, h)
        BY <1>2, <1>3, <2>3 DEF LabelsAfter, cur
      <3>2. labelAt[n] = "Attested"
        <4>1. labelAt'[n] \in {"Final", "Confirmed", labelAt[n]}
          BY <1>2, <1>3, <2>1, <3>1, ScannedFinal
        <4> QED  BY <4>1
      <3>3. CASE n > 0 /\ labelAt[n - 1] = "Final"
        <4>1. n - 1 \in Heights
          BY <1>3, <3>3, TreeAssumption DEF Heights
        <4> QED  BY <1>6, <3>3, <4>1 DEF KeepsFinal
      <3>4. ASSUME NEW g \in 0..(n - 1), labelAt[g] \notin {"Confirmed", "Final"},
                   n - g < After[g]
            PROVE  labelAt'[g] \notin {"Confirmed", "Final"} /\ n - g < After'[g]
        <4>1. g \in 0..(cur - 1) /\ g \in Int /\ n \in Int /\ n \in (g + 1)..(cur - 1)
          BY <1>3, <1>9, <2>1
        <4>2. n \in (lfb + 1)..(cur - 1)
          <5>1. labelAt[lfb] = "Final"
            BY <1>2 DEF IsLastFinal
          <5>2. CASE g < lfb
            BY <3>4, <4>1, <5>1, <5>2, <1>3 DEF AcceptorInv, FinalPrefix
          <5>3. CASE lfb < n
            BY <1>3, <4>1, <5>3
          <5>4. CASE lfb <= g
            BY <1>3, <4>1, <5>4
          <5> QED  BY <1>3, <4>1, <5>2, <5>3, <5>4
        <4>3. n \notin ConfirmedHeights(labelAt, After, lfb, cur)
          BY <3>1, <2>1 DEF ScannedLabel
        <4>4. PICK k \in n..(cur - 1) : ~Stable(labelAt, After, k, cur)
          BY <4>2, <4>3 DEF ConfirmedHeights
        <4>5. k \in g..(cur - 1)
          BY <1>3, <4>1, <4>4
        <4>6. labelAt'[g] = labelAt[g]
          BY <1>3, <3>1, <3>4, <4>1, <4>4, <4>5, UnstableKept
        <4>7. After'[g] = After[g]
          BY <1>3, <1>4, <4>1
        <4> QED  BY <3>4, <4>6, <4>7
      <3> QED  BY <3>2, <3>3, <3>4 DEF ProgressInv
    <2> QED  BY <2>2, <2>3
  <1> QED  BY <1>3, <1>7, <1>8, <1>9

\* Deleting blocks leaves what is below the target alone.
LEMMA DeleteBlocksProgress ==
  ASSUME AcceptorInv, ProgressInv, DeleteBlocks PROVE ProgressInv'
  <1>1. Height[target] \in Nat /\ Heights \subseteq Nat
    BY TreeAssumption DEF AcceptorInv, TypeOK, Heights
  <1>2. \A h \in Heights : IF h > Height[target] THEN labelAt'[h] = "None"
                           ELSE labelAt'[h] = labelAt[h] /\ After'[h] = After[h]
    BY DEF DeleteBlocks, Deleted, After
  <1> SUFFICES ASSUME NEW n \in Heights, labelAt'[n] = "Attested"
               PROVE  \/ n > 0 /\ labelAt'[n - 1] = "Final"
                      \/ \E g \in 0..(n - 1) :
                           /\ labelAt'[g] \notin {"Confirmed", "Final"}
                           /\ n - g < After'[g]
    BY DEF ProgressInv
  <1>3. ~(n > Height[target]) /\ labelAt[n] = "Attested"
    BY <1>2
  <1>4. \A g \in 0..(n - 1) : g \in Heights /\ ~(g > Height[target])
    BY <1>1, <1>3, TreeAssumption DEF Heights
  <1>5. n > 0 => n - 1 \in 0..(n - 1)
    BY <1>1
  <1> QED  BY <1>2, <1>3, <1>4, <1>5 DEF ProgressInv

\* rolling_finality leaves nothing behind: below an Attested tip all is Final, or
\* some block above the last final one still waits for its confirmations.
THEOREM FinalityProgresses == Spec => []FinalityProgress
  <1>1. Init => ProgressInv
    BY DEF Init, ProgressInv
  <1>2. AcceptorInv /\ ProgressInv /\ [Next]_vars => ProgressInv'
    <2> SUFFICES ASSUME AcceptorInv, ProgressInv, [Next]_vars PROVE ProgressInv'
      OBVIOUS
    <2>1. ASSUME NEW lfb \in Heights, StoreBlock(lfb) PROVE ProgressInv'
      BY <2>1, StoreBlockProgress
    <2>2. CASE DeleteBlocks
      BY <2>2, DeleteBlocksProgress
    <2>3. CASE UNCHANGED <<blockAt, labelAt>>
      BY <2>3 DEF ProgressInv, After
    <2> QED
      BY <2>1, <2>2, <2>3 DEF Next, VmAccept, StoreFails, SetBase, MergeCommit,
         WriteStateId, Fallback, StalledOnFork, RevertLastFinal, StartRevert, UpdateTip,
         RejectPending, Crash, Restart, RestartRegenerated, vars, ledger
  <1>3. AcceptorInv /\ ProgressInv => FinalityProgress
    <2> SUFFICES ASSUME AcceptorInv, ProgressInv, NEW n \in Heights, NEW lfb \in Heights,
                        labelAt[n] = "Attested", IsLastFinal(labelAt, lfb, n)
                 PROVE  \/ lfb = n - 1
                        \/ \E g \in (lfb + 1)..(n - 1) :
                             labelAt[g] # "Confirmed" /\ n - g < After[g]
      BY DEF FinalityProgress
    <2>1. /\ lfb \in 0..(n - 1) /\ labelAt[lfb] = "Final"
          /\ \A g \in (lfb + 1)..(n - 1) : labelAt[g] # "Final"
          /\ n \in Nat /\ lfb \in Nat
      BY DEF IsLastFinal, Heights
    <2>2. CASE n > 0 /\ labelAt[n - 1] = "Final"
      BY <2>1, <2>2
    <2>3. ASSUME NEW g \in 0..(n - 1), labelAt[g] \notin {"Confirmed", "Final"}
          PROVE  g \in (lfb + 1)..(n - 1)
      <3>1. g \in Heights /\ g # lfb
        BY <2>1, <2>3, TreeAssumption DEF Heights
      <3>2. ~(g < lfb)
        BY <2>1, <2>3, <3>1 DEF AcceptorInv, FinalPrefix
      <3> QED  BY <2>1, <3>1, <3>2 DEF Heights
    <2> QED  BY <2>2, <2>3 DEF ProgressInv
  <1> QED  BY <1>1, <1>2, <1>3, AcceptorInvariant, PTL DEF Spec

=============================================================================
