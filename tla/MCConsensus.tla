----------------------------- MODULE MCConsensus -----------------------------
(***************************************************************************)
(* Small instances of one consensus round.                                 *)
(*                                                                         *)
(* a and b hold two of the five credits of every committee and c one, so   *)
(* that majority = 3 and supermajority = 4: the two honest nodes make a    *)
(* quorum of either kind, one of them with c only one of the smaller kind, *)
(* and c is below the bound that keeps attestations exclusive.  g never    *)
(* votes.                                                                  *)
(***************************************************************************)
EXTENDS Consensus, TLC

CONSTANTS a, b, c, g

\* Credits 2, 2 and 1.
MCSlots == 1..5

MCCommittee ==
  [i \in Iters |-> [s \in VotingSteps |->
     [k \in MCSlots |-> IF k <= 2 THEN a ELSE IF k <= 4 THEN b ELSE c]]]

\* Two provisioners with a credit each: a quorum needs both.
PairSlots == 1..2

PairCommittee ==
  [i \in Iters |-> [s \in VotingSteps |-> [k \in PairSlots |-> IF k = 1 THEN a ELSE b]]]

\* The Proposal step of every iteration belongs to a node that runs this code...
GeneratorHonest == [i \in Iters |-> a]

\* ... or to one that may sign several candidates, or none.
GeneratorFaulty == [i \in Iters |-> g]

\* a and b have the same credits, and no other definition tells them apart when
\* the generator is faulty.
Symmetry == Permutations({a, b})

-----------------------------------------------------------------------------
\* Two honest nodes that vote and never generate a candidate, stay on their tip
\* (MayRevert = {}) and stop after iteration 0 (StopIter = 0), so that no message is
\* of a past iteration: the steps that are enabled then.  RoundTasks has the others.
VotersNext ==
  \E n \in Honest :
    \/ \E h \in Hashes : ReceiveCandidate(n, h)
    \/ ProposalTimeout(n)
    \/ \E t \in tasks[n] : CastValidation(n, t)
    \/ \E v \in Votes, p \in Provisioners : ReceiveValidation(n, v, p)
    \/ ValidationTimeout(n)
    \/ CastRatification(n)
    \/ \E v \in Votes, p \in Provisioners : ReceiveRatification(n, v, p)
    \/ RatificationTimeout(n)
    \/ \E q \in quorums : ReceiveQuorum(n, q)
    \/ \E i \in Iters, v \in Votes : ReceiveQuorum(n, AggregatedQuorum(i, v))
    \/ Restart(n)

VotersSpec == Init /\ [][VotersNext]_vars
=============================================================================
