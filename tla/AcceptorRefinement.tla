------------------------- MODULE AcceptorRefinement -------------------------
(***************************************************************************)
(* The acceptor implements FinalLedger when it does not crash, for every   *)
(* block tree and any number of reverts and failed transactions.           *)
(***************************************************************************)
EXTENDS AcceptorProofs

\* The states below the last final block that finalize_state has not closed are
\* the ones it is still merging; so a revert, which needs an open state, never
\* goes below the last final block.
MergedInv ==
  /\ pc \notin {"down", "regenerated"}
  /\ \A h \in Heights :
       (h + 1 \in Heights /\ labelAt[h + 1] = "Final" /\ blockAt[h] \in commits) =>
         pc \in {"dbStored", "merging"} /\ blockAt[h] \in toMerge
  /\ pc = "vmReverted" =>
       \A h \in Heights : h > Height[target] => labelAt[h] # "Final"

\* Between operations nothing above an open state of the chain is Final.
LEMMA OpenAboveFinal ==
  ASSUME AcceptorInv, MergedInv, pc = "idle", NEW to \in blocks, to \in commits
  PROVE  \A h \in Heights : h > Height[to] => labelAt[h] # "Final"
  <1> SUFFICES ASSUME NEW h \in Heights, h > Height[to], labelAt[h] = "Final"
               PROVE  FALSE
    OBVIOUS
  <1>1. /\ to \in Blocks /\ Height[to] \in Heights /\ blockAt[Height[to]] = to
    BY TreeAssumption DEF AcceptorInv, TypeOK, ChainTo
  <1>2. Height[to] + 1 \in Heights /\ (Height[to] + 1 = h \/ Height[to] + 1 < h)
    BY <1>1, TreeAssumption DEF Heights
  <1>3. labelAt[Height[to] + 1] = "Final"
    BY <1>2 DEF AcceptorInv, FinalPrefix
  <1> QED  BY <1>1, <1>2, <1>3 DEF MergedInv

\* The three callers of try_revert name a stored block whose state is open.
LEMMA RevertStartsOpen ==
  ASSUME AcceptorInv,
         \/ \E b \in Blocks : Fallback(b)
         \/ \E b \in Blocks : StalledOnFork(b)
         \/ RevertLastFinal
  PROVE  /\ pc = "idle" /\ pc' = "vmReverted"
         /\ target' \in blocks /\ target' \in commits
         /\ UNCHANGED <<blockAt, labelAt, commits>>
  <1> USE TreeAssumption
  <1>1. ASSUME NEW b \in Blocks, Fallback(b)
        PROVE  target' \in blocks
    BY <1>1 DEF Fallback, StartRevert
  <1>2. ASSUME NEW b \in Blocks, StalledOnFork(b)
        PROVE  target' \in blocks
    <2> DEFINE h == Height[b]
    <2>1. /\ h \in 1..Height[tip] /\ target' = Parent[blockAt[h]] /\ pc = "idle"
      BY <1>2 DEF StalledOnFork, StartRevert
    <2>2. tip = TopBlock /\ Height[tip] \in Nat
      BY <2>1 DEF AcceptorInv, RegisterInv, TopBlock, TypeOK, Heights
    <2>3. h \in 0..Height[tip] /\ h > 0 /\ h - 1 \in 0..Height[tip]
      BY <2>1, <2>2
    <2>4. Parent[blockAt[h]] = blockAt[h - 1] /\ blockAt[h - 1] \in blocks
      BY <2>2, <2>3 DEF AcceptorInv, ChainTo
    <2> QED  BY <2>1, <2>4
  <1>3. ASSUME RevertLastFinal
        PROVE  target' \in blocks
    BY <1>3 DEF RevertLastFinal, StartRevert
  <1>4. /\ pc = "idle" /\ pc' = "vmReverted" /\ target' \in commits
        /\ UNCHANGED <<blockAt, labelAt, commits>>
    BY DEF Fallback, StalledOnFork, RevertLastFinal, StartRevert, ledger
  <1> QED  BY <1>1, <1>2, <1>3, <1>4

\* After a block is stored, every state below the new last final block that is
\* still open is in old_finals_to_merge.
LEMMA StoreBlockMerged ==
  ASSUME AcceptorInv, MergedInv, NEW lfb \in Heights, StoreBlock(lfb)
  PROVE  MergedInv'
  <1> DEFINE cur == Height[pending]
             finals == NewFinals(pending, lfb)
  <1>1. /\ cur \in Heights /\ lfb \in 0..(cur - 1)
        /\ finals \subseteq (lfb + 1)..(cur - 1)
        /\ \A h \in finals : \A g \in (lfb + 1)..h : g \in finals
        /\ \A h \in Heights : h = cur => labelAt'[h] \in {"Attested", "Accepted"}
        /\ \A h \in Heights : h # cur =>
             (labelAt'[h] = "Final" <=> labelAt[h] = "Final" \/ h \in finals)
        /\ \A h \in Heights : h > cur => labelAt'[h] = labelAt[h]
        /\ ChainTo(Height[tip]) /\ cur = Height[tip] + 1 /\ Height[tip] \in Heights
    BY StoredLabels
  <1>2. /\ pc = "vmAccepted" /\ commits' = commits
        /\ blockAt' = [blockAt EXCEPT ![cur] = pending]
        /\ pc' \in {"idle", "dbStored"}
    BY DEF StoreBlock, vm
  <1>3. ASSUME NEW h \in Heights, h + 1 \in Heights, labelAt'[h + 1] = "Final",
               blockAt'[h] \in commits'
        PROVE  pc' \in {"dbStored", "merging"} /\ blockAt'[h] \in toMerge'
    <2>1. h + 1 # cur /\ h + 1 <= cur
      <3>1. h + 1 # cur
        BY <1>1, <1>3
      <3>2. \A g \in Heights : g > Height[tip] => labelAt[g] = "None"
        BY <1>1 DEF ChainTo
      <3>3. ~(h + 1 > cur)
        BY <1>1, <1>3, <3>2 DEF Heights
      <3> QED  BY <3>1, <3>3, <1>1 DEF Heights
    <2>2. h # cur /\ blockAt'[h] = blockAt[h]
      BY <1>1, <1>2, <2>1 DEF Heights, AcceptorInv, TypeOK
    <2>3. h + 1 \in finals
      BY <1>1, <1>2, <1>3, <2>1, <2>2 DEF MergedInv
    <2>4. PICK top \in finals :
            /\ \A g \in finals : g <= top
            /\ toMerge' = {blockAt[g] : g \in OldFinals(finals, top, lfb)}
            /\ pc' = "dbStored"
      BY <2>3 DEF StoreBlock
    <2>5. h \in OldFinals(finals, top, lfb)
      <3>1. h + 1 <= top /\ lfb + 1 <= h + 1 /\ lfb \in Int /\ h \in Int /\ top \in Int
        BY <1>1, <2>3, <2>4 DEF Heights
      <3>2. h = lfb \/ h \in (lfb + 1)..(h + 1)
        BY <3>1
      <3>3. h = lfb \/ h \in finals
        BY <1>1, <2>3, <3>2
      <3>4. h # top
        BY <3>1
      <3> HIDE DEF finals
      <3> QED  BY <3>3, <3>4 DEF OldFinals
    <2> QED  BY <2>2, <2>4, <2>5
  <1> QED  BY <1>2, <1>3 DEF MergedInv

\* Without crashes every action keeps MergedInv.
LEMMA NextMerged ==
  ASSUME MaxCrashes = 0, AcceptorInv, MergedInv, [Next]_vars
  PROVE  MergedInv'
  <1> USE TreeAssumption
  <1>1. ASSUME NEW b \in Blocks, VmAccept(b) PROVE MergedInv'
    <2>1. /\ commits' = commits \cup {b} /\ pc' = "vmAccepted" /\ b \notin blocks
          /\ pc \in {"idle", "revertDone"} /\ UNCHANGED <<blockAt, labelAt>>
      BY <1>1 DEF VmAccept, ValidSuccessor, ledger
    <2>2. ASSUME NEW h \in Heights, h + 1 \in Heights, labelAt[h + 1] = "Final"
          PROVE  blockAt[h] # b
      <3>1. /\ ChainTo(Height[TopBlock]) /\ Height[TopBlock] \in Heights
        BY DEF AcceptorInv, TypeOK
      <3>2. h + 1 <= Height[TopBlock]
        BY <2>2, <3>1 DEF ChainTo, Heights
      <3>3. h \in 0..Height[TopBlock]
        BY <3>1, <3>2 DEF Heights
      <3> QED  BY <2>1, <3>1, <3>3 DEF ChainTo
    <2> QED  BY <2>1, <2>2 DEF MergedInv
  <1>2. ASSUME NEW lfb \in Heights, StoreBlock(lfb) PROVE MergedInv'
    BY <1>2, StoreBlockMerged
  <1>3. CASE StoreFails
    BY <1>3 DEF StoreFails, MergedInv, ledger, vm
  <1>4. CASE SetBase
    BY <1>4 DEF SetBase, MergedInv, ledger
  <1>5. ASSUME NEW d \in Blocks, MergeCommit(d) PROVE MergedInv'
    BY <1>5 DEF MergeCommit, CommitsWithout, MergedInv, ledger
  <1>6. CASE WriteStateId
    BY <1>6 DEF WriteStateId, MergedInv, ledger
  <1>7. CASE \/ \E b \in Blocks : Fallback(b)
             \/ \E b \in Blocks : StalledOnFork(b)
             \/ RevertLastFinal
    <2>1. /\ pc = "idle" /\ pc' = "vmReverted"
          /\ target' \in blocks /\ target' \in commits
          /\ UNCHANGED <<blockAt, labelAt, commits>>
      BY <1>7, RevertStartsOpen
    <2>2. \A h \in Heights : h > Height[target'] => labelAt[h] # "Final"
      BY <2>1, OpenAboveFinal
    <2> QED  BY <2>1, <2>2 DEF MergedInv
  <1>8. CASE DeleteBlocks
    <2>1. /\ pc = "vmReverted" /\ pc' = "dbDeleted" /\ commits' = commits
          /\ target \in Blocks /\ Height[target] \in Int
      BY <1>8 DEF DeleteBlocks, vm, AcceptorInv, TypeOK, Heights
    <2>2. ASSUME NEW h \in Heights, h + 1 \in Heights, labelAt'[h + 1] = "Final"
          PROVE  labelAt[h + 1] = "Final" /\ blockAt'[h] = blockAt[h]
      <3>1. ~(h + 1 > Height[target]) /\ labelAt[h + 1] = "Final"
        BY <1>8, <2>2 DEF DeleteBlocks, Deleted
      <3>2. ~(h > Height[target])
        BY <2>1, <3>1 DEF Heights
      <3> QED  BY <1>8, <3>1, <3>2 DEF DeleteBlocks, Deleted
    <2> QED  BY <2>1, <2>2 DEF MergedInv
  <1>9. CASE UpdateTip
    BY <1>9 DEF UpdateTip, MergedInv, vm
  <1>10. CASE RejectPending
    BY <1>10 DEF RejectPending, MergedInv, ledger, vm
  <1>11. ~Crash
    BY DEF Crash, AcceptorInv, TypeOK
  <1>12. ~Restart /\ ~RestartRegenerated
    BY DEF Restart, RestartRegenerated, MergedInv
  <1>13. CASE UNCHANGED vars
    BY <1>13 DEF vars, ledger, vm, op, MergedInv
  <1> QED  BY <1>1, <1>2, <1>3, <1>4, <1>5, <1>6, <1>7, <1>8, <1>9, <1>10,
              <1>11, <1>12, <1>13 DEF Next

-----------------------------------------------------------------------------
(* The steps of the acceptor and the steps of the ledger *)

\* The ledger transaction of try_accept_block is one Extend.
LEMMA StoreBlockExtends ==
  ASSUME AcceptorInv, NEW lfb \in Heights, StoreBlock(lfb)
  PROVE  Ledger!LedgerNext
  <1> DEFINE cur == Height[pending]
             finals == NewFinals(pending, lfb)
             n == Height[tip]
  <1>1. /\ cur \in Heights /\ lfb \in 0..(cur - 1) /\ labelAt[lfb] = "Final"
        /\ \A h \in (lfb + 1)..(cur - 1) : labelAt[h] # "Final"
        /\ finals \subseteq (lfb + 1)..(cur - 1)
        /\ \A h \in finals : \A g \in (lfb + 1)..h : g \in finals
        /\ \A h \in Heights : h = cur => labelAt'[h] \in {"Attested", "Accepted"}
        /\ \A h \in Heights : h # cur =>
             (labelAt'[h] = "Final" <=> labelAt[h] = "Final" \/ h \in finals)
        /\ \A h \in Heights : h > cur => labelAt'[h] = labelAt[h]
        /\ ChainTo(n) /\ cur = n + 1 /\ n \in Heights /\ pending \in Blocks
    BY StoredLabels
  <1>2. /\ pending # Genesis /\ Parent[pending] = tip /\ tip \in blocks
        /\ blockAt' = [blockAt EXCEPT ![n + 1] = pending]
    BY <1>1 DEF StoreBlock, AcceptorInv, PhaseInv, RegisterInv
  <1>3. blockAt[n] = tip /\ tip # NoBlock
    BY <1>1, <1>2, TreeAssumption DEF ChainTo, AcceptorInv, TypeOK
  <1>4. Ledger!IsEnd(n)
    BY <1>1, <1>3 DEF Ledger!IsEnd, ChainTo
  <1>5. \A h \in Heights : labelAt[h] = "Final" <=> h <= lfb
    <2> SUFFICES ASSUME NEW h \in Heights
                 PROVE  labelAt[h] = "Final" <=> h <= lfb
      OBVIOUS
    <2>1. h \in Int /\ lfb \in Int /\ cur \in Int /\ n \in Int
      BY <1>1 DEF Heights
    <2>2. CASE h <= lfb
      BY <1>1, <2>1, <2>2 DEF AcceptorInv, FinalPrefix
    <2>3. CASE h > n
      BY <1>1, <2>1, <2>3 DEF ChainTo
    <2>4. CASE h > lfb /\ h <= n
      BY <1>1, <2>1, <2>4
    <2> QED  BY <2>1, <2>2, <2>3, <2>4
  <1>6. \E k \in 0..n : FinalNow \subseteq 0..k /\ FinalNow' = 0..k
    <2> SUFFICES ASSUME NEW k \in 0..n, lfb <= k,
                        \A h \in Heights : (h <= lfb \/ h \in finals) <=> h <= k
                 PROVE  FinalNow \subseteq 0..k /\ FinalNow' = 0..k
      <3>1. CASE finals = {}
        <4>1. lfb \in 0..n /\ lfb <= lfb
          BY <1>1 DEF Heights
        <4> QED  BY <3>1, <4>1
      <3>2. CASE finals # {}
        <4>1. PICK top \in finals : \A h \in finals : h <= top
          BY <3>2 DEF StoreBlock
        <4>2. top \in 0..n /\ lfb <= top /\ top \in Int /\ lfb \in Int
          BY <1>1 DEF Heights
        <4>3. ASSUME NEW h \in Heights
              PROVE  (h <= lfb \/ h \in finals) <=> h <= top
          <5>1. h \in Int
            BY DEF Heights
          <5>2. h <= top => h <= lfb \/ h \in (lfb + 1)..top
            BY <4>2, <5>1
          <5> HIDE DEF finals
          <5> QED  BY <1>1, <4>1, <4>2, <5>1, <5>2
        <4> HIDE DEF finals
        <4> QED  BY <4>2, <4>3
      <3> QED  BY <3>1, <3>2
    <2>1. ASSUME NEW h \in Heights
          PROVE  labelAt'[h] = "Final" <=> h <= k
      <3>1. h \in Int /\ k \in Int /\ n \in Int
        BY <1>1 DEF Heights
      <3>2. CASE h = cur
        BY <1>1, <3>1, <3>2
      <3>3. CASE h # cur
        BY <1>1, <1>5, <3>3
      <3> QED  BY <3>2, <3>3
    <2>2. 0..k \subseteq Heights
      <3>1. n \in 0..MaxHeight /\ MaxHeight \in Nat
        BY <1>1, TreeAssumption DEF Heights
      <3> HIDE DEF n
      <3> QED  BY <3>1 DEF Heights
    <2>3. \A h \in Heights : h <= lfb => h \in 0..k
      <3>1. lfb \in Int /\ k \in Int /\ \A h \in Heights : h \in Nat
        BY <1>1 DEF Heights
      <3> QED  BY <3>1
    <2>4. FinalNow \subseteq 0..k
      BY <1>5, <2>3 DEF FinalNow
    <2>5. FinalNow' = {h \in Heights : labelAt'[h] = "Final"}
      BY DEF FinalNow
    <2>6. \A h \in Heights : h <= k <=> h \in 0..k
      BY <1>1 DEF Heights
    <2> QED  BY <2>1, <2>2, <2>4, <2>5, <2>6
  <1>7. Ledger!Extend(n, pending)
    BY <1>1, <1>2, <1>3, <1>6 DEF Ledger!Extend
  <1> QED  BY <1>1, <1>4, <1>7 DEF Ledger!LedgerNext

\* delete_block of everything above the target is one Rollback.
LEMMA DeleteBlocksRollsBack ==
  ASSUME AcceptorInv, MergedInv, DeleteBlocks PROVE Ledger!LedgerNext
  <1> DEFINE n == Height[target]
  <1>1. /\ n \in Heights /\ blockAt[n] = target /\ target # NoBlock /\ pc = "vmReverted"
    BY TreeAssumption DEF DeleteBlocks, AcceptorInv, PhaseInv, TypeOK, ChainTo
  <1>2. \A h \in Heights : labelAt[h] = "Final" => h \in 0..n
    BY <1>1 DEF MergedInv, Heights
  <1>3. blockAt' = [h \in Heights |-> IF h > n THEN NoBlock ELSE blockAt[h]]
    BY DEF DeleteBlocks, Deleted
  <1>4. FinalNow' = FinalNow
    <2>1. \A h \in Heights : labelAt'[h] = "Final" <=> labelAt[h] = "Final"
      BY <1>1, <1>2 DEF DeleteBlocks, Deleted, Heights
    <2> QED  BY <2>1 DEF FinalNow
  <1>5. Ledger!Rollback(n)
    BY <1>1, <1>2, <1>3, <1>4 DEF Ledger!Rollback, FinalNow
  <1> QED  BY <1>1, <1>5 DEF Ledger!LedgerNext

\* Without crashes the acceptor implements the ledger it promises: every write
\* that try_accept_block and try_revert make is an Extend, a Rollback to a block
\* not below the last final one, or invisible in the ledger.
THEOREM AcceptorImplementsLedger ==
  ASSUME MaxCrashes = 0 PROVE Spec => ImplementsLedger
  <1>1. Init => Ledger!LedgerInit
    BY TreeAssumption DEF Init, Ledger!LedgerInit, FinalNow, Heights
  <1>2. Init => MergedInv
    BY TreeAssumption DEF Init, MergedInv, Heights
  <1>3. AcceptorInv /\ MergedInv /\ [Next]_vars => MergedInv'
    BY NextMerged
  <1>4. AcceptorInv /\ MergedInv /\ [Next]_vars => [Ledger!LedgerNext]_(Ledger!ledgerVars)
    <2> SUFFICES ASSUME AcceptorInv, MergedInv, [Next]_vars
                 PROVE  Ledger!LedgerNext \/ UNCHANGED Ledger!ledgerVars
      OBVIOUS
    <2>1. ASSUME NEW lfb \in Heights, StoreBlock(lfb)
          PROVE  Ledger!LedgerNext
      BY <2>1, StoreBlockExtends
    <2>2. CASE DeleteBlocks
      BY <2>2, DeleteBlocksRollsBack
    <2>3. CASE UNCHANGED <<blockAt, labelAt>>
      BY <2>3 DEF Ledger!ledgerVars, FinalNow
    <2> QED
      BY <2>1, <2>2, <2>3 DEF Next, VmAccept, StoreFails, SetBase, MergeCommit,
         WriteStateId, Fallback, StalledOnFork, RevertLastFinal, StartRevert, UpdateTip,
         RejectPending, Crash, Restart, RestartRegenerated, vars, ledger
  <1> QED
    BY <1>1, <1>2, <1>3, <1>4, AcceptorInvariant, PTL
       DEF Spec, ImplementsLedger, Ledger!LedgerSpec

\* So no step removes or replaces a Final block (finalize_state closes every
\* older state before the next revert can ask for it).
THEOREM FinalIsImmutable ==
  ASSUME MaxCrashes = 0 PROVE Spec => FinalImmutable
  <1>1. Init => MergedInv
    BY TreeAssumption DEF Init, MergedInv, Heights
  <1>2. AcceptorInv /\ MergedInv /\ [Next]_vars => MergedInv'
    BY NextMerged
  <1>3. AcceptorInv /\ MergedInv /\ [Next]_vars => [KeepsFinal]_vars
    <2> SUFFICES ASSUME AcceptorInv, MergedInv, Next PROVE KeepsFinal
      OBVIOUS
    <2>1. ASSUME NEW lfb \in Heights, StoreBlock(lfb) PROVE KeepsFinal
      BY <2>1, StoreBlockKeepsFinal
    <2>2. CASE DeleteBlocks
      BY <2>2 DEF MergedInv, DeleteBlocks, Deleted, KeepsFinal
    <2>3. CASE UNCHANGED <<blockAt, labelAt>>
      BY <2>3 DEF KeepsFinal
    <2> QED
      BY <2>1, <2>2, <2>3 DEF Next, VmAccept, StoreFails, SetBase, MergeCommit,
         WriteStateId, Fallback, StalledOnFork, RevertLastFinal, StartRevert, UpdateTip,
         RejectPending, Crash, Restart, RestartRegenerated, ledger
  <1> QED
    BY <1>1, <1>2, <1>3, AcceptorInvariant, PTL DEF Spec, FinalImmutable
-----------------------------------------------------------------------------
(* The VM's finalized root *)

\* b is the block that get_last_final_block finds: Final, and nothing above is.
LastFinalIs(b) ==
  \E h \in Heights : /\ labelAt[h] = "Final" /\ blockAt[h] = b
                     /\ \A g \in Heights : g > h => labelAt[g] # "Final"

\* finalize_state runs behind the labels: between the ledger transaction and the
\* state.id file the last final block is newBase, otherwise it is RuskTip.base.
BaseInv ==
  /\ pc \notin {"dbStored", "merging"} => vmBase = stateId /\ LastFinalIs(vmBase)
  /\ pc \in {"dbStored", "merging"} => LastFinalIs(newBase)
  /\ pc = "merging" => vmBase = newBase

\* The transaction either makes nothing Final, and the last final block stays, or
\* hands the highest new one to finalize_state.
LEMMA StoreBlockBase ==
  ASSUME AcceptorInv, BaseInv, NEW lfb \in Heights, StoreBlock(lfb)
  PROVE  BaseInv'
  <1> DEFINE cur == Height[pending]
             finals == NewFinals(pending, lfb)
  <1>1. /\ cur \in Heights /\ lfb \in 0..(cur - 1)
        /\ finals \subseteq (lfb + 1)..(cur - 1)
        /\ \A h \in Heights : h = cur => labelAt'[h] \in {"Attested", "Accepted"}
        /\ \A h \in Heights : h # cur =>
             (labelAt'[h] = "Final" <=> labelAt[h] = "Final" \/ h \in finals)
        /\ ChainTo(Height[tip]) /\ cur = Height[tip] + 1 /\ Height[tip] \in Heights
        /\ \A h \in (lfb + 1)..(cur - 1) : labelAt[h] # "Final"
    BY StoredLabels
  <1>2. /\ pc = "vmAccepted" /\ vmBase' = vmBase /\ stateId' = stateId
        /\ \A h \in Heights : h # cur => blockAt'[h] = blockAt[h]
        /\ pc' \in {"idle", "dbStored"}
    BY DEF StoreBlock, vm, AcceptorInv, TypeOK
  <1>3. \A h \in Heights : h >= cur => labelAt[h] = "None"
    BY <1>1 DEF ChainTo, Heights
  <1>4. Heights \subseteq Nat /\ cur \in Nat /\ lfb \in Nat
    BY <1>1 DEF Heights
  <1> HIDE DEF cur, finals
  <1>5. CASE finals = {}
    <2>1. pc' = "idle"
      BY <1>5 DEF StoreBlock, finals
    <2>2. PICK h \in Heights : /\ labelAt[h] = "Final" /\ blockAt[h] = vmBase
                               /\ \A g \in Heights : g > h => labelAt[g] # "Final"
      BY <1>2 DEF BaseInv, LastFinalIs
    <2>3. h # cur /\ labelAt'[h] = "Final" /\ blockAt'[h] = vmBase
      BY <1>1, <1>2, <1>3, <1>4, <2>2
    <2>4. \A g \in Heights : g > h => labelAt'[g] # "Final"
      BY <1>1, <1>5, <2>2
    <2>5. LastFinalIs(vmBase)'
      BY <1>2, <2>3, <2>4 DEF LastFinalIs
    <2> QED  BY <1>2, <2>1, <2>2, <2>5 DEF BaseInv
  <1>6. CASE finals # {}
    <2>1. PICK top \in finals : /\ \A h \in finals : h <= top
                                /\ newBase' = blockAt[top] /\ pc' = "dbStored"
      BY <1>6 DEF StoreBlock, finals
    <2>2. top \in Heights /\ top # cur /\ lfb + 1 <= top /\ top < cur
      BY <1>1, <1>4, TreeAssumption DEF Heights
    <2>3. labelAt'[top] = "Final" /\ blockAt'[top] = newBase'
      BY <1>1, <1>2, <2>1, <2>2
    <2>4. ASSUME NEW g \in Heights, g > top PROVE labelAt'[g] # "Final"
      <3>1. g \notin finals
        BY <1>4, <2>1, <2>2, <2>4
      <3>2. g >= cur \/ g \in (lfb + 1)..(cur - 1)
        BY <1>4, <2>2, <2>4
      <3> QED  BY <1>1, <1>3, <3>1, <3>2
    <2>5. LastFinalIs(newBase)'
      BY <2>2, <2>3, <2>4 DEF LastFinalIs
    <2> QED  BY <2>1, <2>5 DEF BaseInv
  <1> QED  BY <1>5, <1>6

\* A revert deletes nothing Final, so the last final block stays where it is.
LEMMA DeleteBlocksBase ==
  ASSUME AcceptorInv, MergedInv, BaseInv, DeleteBlocks PROVE BaseInv'
  <1>1. /\ pc = "vmReverted" /\ pc' = "dbDeleted" /\ vmBase' = vmBase /\ stateId' = stateId
    BY DEF DeleteBlocks, vm
  <1>2. PICK h \in Heights : /\ labelAt[h] = "Final" /\ blockAt[h] = vmBase
                             /\ \A g \in Heights : g > h => labelAt[g] # "Final"
    BY <1>1 DEF BaseInv, LastFinalIs
  <1>3. ~Deleted(h)
    BY <1>1, <1>2 DEF MergedInv, Deleted
  <1>4. labelAt'[h] = "Final" /\ blockAt'[h] = vmBase
    BY <1>2, <1>3 DEF DeleteBlocks
  <1>5. \A g \in Heights : g > h => labelAt'[g] # "Final"
    BY <1>2 DEF DeleteBlocks
  <1>6. LastFinalIs(vmBase)'
    BY <1>1, <1>4, <1>5 DEF LastFinalIs
  <1> QED  BY <1>1, <1>6 DEF BaseInv

\* Without a crash, RuskTip.base, the state.id file and the last final block of the
\* ledger are the same block whenever no operation is running.
THEOREM BaseStaysLastFinal ==
  ASSUME MaxCrashes = 0 PROVE Spec => []BaseIsLastFinal
  <1>1. Init => MergedInv /\ BaseInv
    BY TreeAssumption DEF Init, MergedInv, BaseInv, LastFinalIs, Heights
  <1>2. AcceptorInv /\ MergedInv /\ [Next]_vars => MergedInv'
    BY NextMerged
  <1>3. AcceptorInv /\ MergedInv /\ BaseInv /\ [Next]_vars => BaseInv'
    <2> SUFFICES ASSUME AcceptorInv, MergedInv, BaseInv, [Next]_vars PROVE BaseInv'
      OBVIOUS
    <2>1. ASSUME NEW lfb \in Heights, StoreBlock(lfb) PROVE BaseInv'
      BY <2>1, StoreBlockBase
    <2>2. CASE DeleteBlocks
      BY <2>2, DeleteBlocksBase
    <2>3. CASE SetBase
      BY <2>3 DEF SetBase, BaseInv, LastFinalIs, ledger
    <2>4. CASE WriteStateId
      BY <2>4 DEF WriteStateId, BaseInv, LastFinalIs, ledger
    <2>5. CASE \E d \in Blocks : MergeCommit(d)
      BY <2>5 DEF MergeCommit, BaseInv, LastFinalIs, ledger
    <2>6. ~Crash /\ ~Restart /\ ~RestartRegenerated
      BY DEF Crash, Restart, RestartRegenerated, MergedInv, AcceptorInv, TypeOK
    <2>7. CASE /\ pc \notin {"dbStored", "merging"} /\ pc' \notin {"dbStored", "merging"}
               /\ UNCHANGED <<blockAt, labelAt, vmBase, stateId>>
      BY <2>7 DEF BaseInv, LastFinalIs
    <2>8. CASE UNCHANGED vars
      BY <2>8 DEF BaseInv, LastFinalIs, vars, ledger, vm, op
    <2> QED
      BY <2>1, <2>2, <2>3, <2>4, <2>5, <2>6, <2>7, <2>8 DEF Next, VmAccept, StoreFails,
         Fallback, StalledOnFork, RevertLastFinal, StartRevert, UpdateTip, RejectPending,
         ledger, vm
  <1>4. AcceptorInv /\ BaseInv => BaseIsLastFinal
    <2> SUFFICES ASSUME AcceptorInv, BaseInv, pc = "idle"
                 PROVE  \E h \in Heights : /\ IsLastFinal(labelAt, h, Height[tip] + 1)
                                           /\ blockAt[h] = vmBase
      BY DEF BaseInv, BaseIsLastFinal
    <2>1. PICK h \in Heights : /\ labelAt[h] = "Final" /\ blockAt[h] = vmBase
                               /\ \A g \in Heights : g > h => labelAt[g] # "Final"
      BY DEF BaseInv, LastFinalIs
    <2>2. ChainTo(Height[tip]) /\ Height[tip] \in Heights
      BY TreeAssumption DEF AcceptorInv, RegisterInv, TopBlock, TypeOK
    <2>3. h <= Height[tip]
      BY <2>1, <2>2 DEF ChainTo, Heights
    <2>4. IsLastFinal(labelAt, h, Height[tip] + 1)
      BY <2>1, <2>2, <2>3, TreeAssumption DEF IsLastFinal, Heights
    <2> QED  BY <2>1, <2>4
  <1> QED  BY <1>1, <1>2, <1>3, <1>4, AcceptorInvariant, PTL DEF Spec
=============================================================================
