----------------------------- MODULE MCAcceptor -----------------------------
(* A block tree for TLC: a block is the path of (iteration, PNI) pairs from  *)
(* genesis.                                                                  *)
EXTENDS Acceptor, SequencesExt

CONSTANTS
  Kinds,    \* the (iteration, PNI) pairs a header may carry
  TreeDepth \* the height of the tree

MCBlocks == UNION {[1..n -> Kinds] : n \in 0..TreeDepth}
MCGenesis == <<>>
MCParent == [b \in MCBlocks |-> IF b = <<>> THEN <<>> ELSE Front(b)]
MCHeight == [b \in MCBlocks |-> Len(b)]
MCIter == [b \in MCBlocks |-> IF b = <<>> THEN 0 ELSE b[Len(b)][1]]
MCPni == [b \in MCBlocks |-> IF b = <<>> THEN 0 ELSE b[Len(b)][2]]

\* Iteration 0 (attested) and iteration 1 whose predecessor is not attested.
TwoKinds == {<<0, 0>>, <<1, 1>>}
\* Iteration 2 after two iterations that are not attested, instead: the block above
\* it is confirmed long before it is.
GapKinds == {<<0, 0>>, <<2, 2>>}

-----------------------------------------------------------------------------
\* A node that neither crashes nor fails to write (MaxCrashes = MaxDbErrors = 0):
\* the steps that are enabled then.  ChainRecovery has the others.
SteadyNext ==
  \/ \E blk \in Blocks : VmAccept(blk)
  \/ \E lfb \in Heights : StoreBlock(lfb)
  \/ SetBase
  \/ \E d \in Blocks : MergeCommit(d)
  \/ WriteStateId
  \/ \E blk \in Blocks : Fallback(blk)
  \/ \E blk \in Blocks : StalledOnFork(blk)
  \/ RevertLastFinal
  \/ DeleteBlocks
  \/ UpdateTip
  \/ RejectPending

SteadySpec == Init /\ [][SteadyNext]_vars
=============================================================================
