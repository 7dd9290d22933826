-------------------------- MODULE AttestationProofs --------------------------
(***************************************************************************)
(* Proofs about the attestations a node builds: what the aggregators, the  *)
(* registry and the Quorum messages hold passes verify_att.                *)
(***************************************************************************)
EXTENDS ConsensusProofs

-----------------------------------------------------------------------------
(* The invariant *)

\* The types of the variables that Shape leaves out.
VoteTypes ==
  /\ ratifications \subseteq
       [iter : Iters, vote : Votes, signer : Honest, vr : StepVotesSet]
  /\ quorums \subseteq [iter : Iters, vote : Votes, validation : StepVotesSet,
                        ratification : StepVotesSet]
  /\ results \subseteq [iter : Iters, sv : StepVotesSet]
  /\ open \in [Honest -> BOOLEAN]
  /\ result \in [Honest -> StepVotesSet]
  /\ vAggr \in [Honest -> [Iters -> [Votes -> SUBSET Provisioners]]]
  /\ rAggr \in [Honest -> [Iters -> [Votes -> SUBSET Provisioners]]]
  /\ reg \in [Honest -> [Iters -> [Votes -> AttestationInfo]]]
  /\ restarts \in 0..MaxRestarts

\* The quorum flags of an attestation tell the truth about its votes.
FlagsTrue(i, v, info) ==
  /\ info.valQuorum /\ v # NoQuorum => QuorumReached(i, "validation", v, info.val)
  /\ info.ratQuorum => QuorumReached(i, "ratification", v, info.rat)

\* The votes for v that an aggregator may still count: a quorum from the network
\* replaces the registry's entry of a Fail vote only, and then the iteration is
\* over or, in emergency mode, Fail votes are not counted at all.
Tracked(current, i, v) == IsValid(v) \/ (~Emergency(i) /\ i >= current)

RegInv ==
  \A n \in Honest, i \in Iters, v \in Votes :
    /\ FlagsTrue(i, v, reg[n][i][v])
    /\ Tracked(iter[n], i, v) => /\ reg[n][i][v].val = vAggr[n][i][v]
                           /\ reg[n][i][v].rat = rAggr[n][i][v]

\* A ratification vote is the result it carries, and Valid in emergency mode.
VotesInv ==
  \A m \in ratifications : m.vr.vote = m.vote /\ (Emergency(m.iter) => IsValid(m.vote))

\* The result that a Ratification step works with has a quorum of this iteration.
Quorate(i, sv) == sv.vote # NoQuorum => QuorumReached(i, "validation", sv.vote, sv.voters)

ResultInv ==
  \A n \in Honest : step[n] \in {"ratify", "ratification"} => Quorate(iter[n], result[n])

QuorumInv ==
  /\ SuccessQuorumsVerify
  /\ \A q \in quorums : Emergency(q.iter) => IsValid(q.vote)

AttestationInv == VoteTypes /\ RegInv /\ VotesInv /\ ResultInv /\ QuorumInv

-----------------------------------------------------------------------------
(* Credits and nested updates *)

\* More voters have more credits.
LEMMA QuorumGrows ==
  ASSUME NEW i, NEW s, NEW v, NEW A, NEW B, A \subseteq B, QuorumReached(i, s, v, A)
  PROVE  QuorumReached(i, s, v, B)
<1> DEFINE Held(voters) == {k \in Slots : Committee[i][s][k] \in voters}
<1>1. Held(A) \in SUBSET Held(B) /\ Held(B) \in SUBSET Slots
  OBVIOUS
<1>2. IsFiniteSet(Slots)
  BY CommitteeAssumption
<1>3. /\ IsFiniteSet(Held(B)) /\ IsFiniteSet(Held(A))
      /\ Cardinality(Held(A)) <= Cardinality(Held(B))
  <2> HIDE DEF Held
  <2> QED
    BY <1>1, <1>2, FS_Subset
<1>4. /\ Cardinality(Held(A)) \in Nat /\ Cardinality(Held(B)) \in Nat
      /\ Cardinality(Slots) \in Nat
  BY <1>2, <1>3, FS_CardinalityType
<1>5. TargetQuorum(v) \in Int
  BY <1>4 DEF TargetQuorum, majority, supermajority
<1>6. Cardinality(Held(A)) >= TargetQuorum(v)
  BY DEF QuorumReached, Credits
<1>7. Cardinality(Held(B)) >= TargetQuorum(v)
  BY <1>3, <1>4, <1>5, <1>6
<1> QED
  BY <1>7 DEF QuorumReached, Credits

\* One entry of a table changes.
LEMMA TableUpdate ==
  ASSUME NEW S, NEW f \in [Honest -> [Iters -> [Votes -> S]]],
         NEW n \in Honest, NEW i \in Iters, NEW v \in Votes, NEW x \in S,
         NEW g, g = [f EXCEPT ![n][i][v] = x]
  PROVE  /\ g \in [Honest -> [Iters -> [Votes -> S]]]
         /\ g[n][i][v] = x
         /\ \A m \in Honest, j \in Iters, w \in Votes :
              (m # n \/ j # i \/ w # v) => g[m][j][w] = f[m][j][w]
  OBVIOUS

\* The registry's entry of n for v in iteration i becomes x, and no other changes.
Enter(n, i, v, x) ==
  /\ reg' \in [Honest -> [Iters -> [Votes -> AttestationInfo]]]
  /\ reg'[n][i][v] = x
  /\ \A m \in Honest, j \in Iters, w \in Votes :
       (m # n \/ j # i \/ w # v) => reg'[m][j][w] = reg[m][j][w]

\* The aggregators change at most there.
CountedAt(n, i, v) ==
  \A m \in Honest, j \in Iters, w \in Votes :
    (m # n \/ j # i \/ w # v) => /\ vAggr'[m][j][w] = vAggr[m][j][w]
                                 /\ rAggr'[m][j][w] = rAggr[m][j][w]

\* No iteration that is over is entered again.
MovesOn ==
  \A m \in Honest, j \in Iters, w \in Votes :
    Tracked(iter'[m], j, w) => Tracked(iter[m], j, w)

LEMMA RegUpdate ==
  ASSUME reg \in [Honest -> [Iters -> [Votes -> AttestationInfo]]],
         NEW n \in Honest, NEW i \in Iters, NEW v \in Votes, NEW x \in AttestationInfo,
         reg' = [reg EXCEPT ![n][i][v] = x]
  PROVE  Enter(n, i, v, x)
  BY DEF Enter

\* What set_sv does to an entry of the registry.
LEMMA SetSvFacts ==
  ASSUME NEW info \in AttestationInfo, NEW voters \in SUBSET Provisioners,
         NEW quorum \in BOOLEAN
  PROVE  /\ SetSv(info, "validation", voters, quorum) \in AttestationInfo
         /\ SetSv(info, "validation", voters, quorum).val = voters
         /\ SetSv(info, "validation", voters, quorum).rat = info.rat
         /\ SetSv(info, "validation", voters, quorum).valQuorum = (info.valQuorum \/ quorum)
         /\ SetSv(info, "validation", voters, quorum).ratQuorum = info.ratQuorum
         /\ SetSv(info, "ratification", voters, quorum) \in AttestationInfo
         /\ SetSv(info, "ratification", voters, quorum).val = info.val
         /\ SetSv(info, "ratification", voters, quorum).rat = voters
         /\ SetSv(info, "ratification", voters, quorum).valQuorum = info.valQuorum
         /\ SetSv(info, "ratification", voters, quorum).ratQuorum = (info.ratQuorum \/ quorum)
  BY DEF SetSv, AttestationInfo

\* An entry that agrees with the aggregators is good.
LEMMA EntryUpdated ==
  ASSUME RegInv, NEW n \in Honest, NEW i \in Iters, NEW v \in Votes, NEW x,
         Enter(n, i, v, x), CountedAt(n, i, v), MovesOn, FlagsTrue(i, v, x),
         Tracked(iter'[n], i, v) => x.val = vAggr'[n][i][v] /\ x.rat = rAggr'[n][i][v]
  PROVE  RegInv'
<1> SUFFICES ASSUME NEW m \in Honest, NEW j \in Iters, NEW w \in Votes
             PROVE  /\ FlagsTrue(j, w, reg'[m][j][w])
                    /\ Tracked(iter'[m], j, w) => /\ reg'[m][j][w].val = vAggr'[m][j][w]
                                                  /\ reg'[m][j][w].rat = rAggr'[m][j][w]
  BY DEF RegInv, FlagsTrue
<1>1. CASE m = n /\ j = i /\ w = v
  BY <1>1 DEF Enter
<1>2. CASE m # n \/ j # i \/ w # v
  <2>1. reg'[m][j][w] = reg[m][j][w]
    BY <1>2 DEF Enter
  <2>2. /\ FlagsTrue(j, w, reg[m][j][w])
        /\ Tracked(iter[m], j, w) => /\ reg[m][j][w].val = vAggr[m][j][w]
                                     /\ reg[m][j][w].rat = rAggr[m][j][w]
    BY DEF RegInv
  <2>3. /\ Tracked(iter'[m], j, w) => Tracked(iter[m], j, w)
        /\ vAggr'[m][j][w] = vAggr[m][j][w] /\ rAggr'[m][j][w] = rAggr[m][j][w]
    BY <1>2 DEF MovesOn, CountedAt
  <2> QED
    BY <2>1, <2>2, <2>3
<1> QED
  BY <1>1, <1>2

\* The two tables after a vote.
AddValidation(n, i, v, voters) ==
  /\ vAggr' = [vAggr EXCEPT ![n][i][v] = voters]
  /\ reg' = SetStepVotes(n, i, v, "validation", voters,
                         QuorumReached(i, "validation", v, voters))

AddRatification(n, i, v, voters) ==
  /\ rAggr' = [rAggr EXCEPT ![n][i][v] = voters]
  /\ reg' = SetStepVotes(n, i, v, "ratification", voters,
                         QuorumReached(i, "ratification", v, voters))

\* A Validation vote is counted in the aggregator and in the registry.
LEMMA ValidationCounted ==
  ASSUME VoteTypes, RegInv, NEW n \in Honest, NEW i \in Iters, NEW v \in Votes,
         NEW p \in Provisioners, Tracked(iter[n], i, v), UNCHANGED <<rAggr, iter>>,
         NEW voters, voters = vAggr[n][i][v] \cup {p}, AddValidation(n, i, v, voters)
  PROVE  /\ RegInv' /\ voters \in SUBSET Provisioners
         /\ vAggr' \in [Honest -> [Iters -> [Votes -> SUBSET Provisioners]]]
         /\ reg' \in [Honest -> [Iters -> [Votes -> AttestationInfo]]]
<1>1. /\ vAggr \in [Honest -> [Iters -> [Votes -> SUBSET Provisioners]]]
      /\ vAggr[n][i][v] \in SUBSET Provisioners /\ reg[n][i][v] \in AttestationInfo
      /\ voters \in SUBSET Provisioners
  BY DEF VoteTypes
<1>2. PICK info \in AttestationInfo : info = reg[n][i][v]
  BY <1>1
<1>3. PICK quorum \in BOOLEAN : quorum = QuorumReached(i, "validation", v, voters)
  <2>1. QuorumReached(i, "validation", v, voters) \in BOOLEAN
    BY DEF QuorumReached
  <2> QED
    BY <2>1, Zenon
<1>4. PICK x \in AttestationInfo :
        /\ x = SetSv(info, "validation", voters, quorum)
        /\ x.val = voters /\ x.rat = info.rat
        /\ x.valQuorum = (info.valQuorum \/ quorum) /\ x.ratQuorum = info.ratQuorum
  BY <1>1, SetSvFacts
<1>5. Enter(n, i, v, x)
  <2>1. reg' = [reg EXCEPT ![n][i][v] = x]
    BY <1>2, <1>3, <1>4 DEF AddValidation, SetStepVotes
  <2>2. reg \in [Honest -> [Iters -> [Votes -> AttestationInfo]]]
    BY DEF VoteTypes
  <2> QED
    BY <2>1, <2>2, RegUpdate
<1>6. FlagsTrue(i, v, info) /\ info.val = vAggr[n][i][v] /\ info.rat = rAggr[n][i][v]
  BY <1>2 DEF RegInv
<1>7. FlagsTrue(i, v, x)
  <2>1. info.valQuorum /\ v # NoQuorum => QuorumReached(i, "validation", v, voters)
    BY <1>6, QuorumGrows DEF FlagsTrue
  <2>2. x.valQuorum /\ v # NoQuorum => QuorumReached(i, "validation", v, x.val)
    BY <1>3, <1>4, <2>1
  <2>3. x.ratQuorum => QuorumReached(i, "ratification", v, x.rat)
    BY <1>4, <1>6 DEF FlagsTrue
  <2> QED
    BY <2>2, <2>3 DEF FlagsTrue
<1>8. /\ vAggr' \in [Honest -> [Iters -> [Votes -> SUBSET Provisioners]]]
      /\ vAggr'[n][i][v] = voters
      /\ \A m \in Honest, j \in Iters, w \in Votes :
           (m # n \/ j # i \/ w # v) => vAggr'[m][j][w] = vAggr[m][j][w]
  BY <1>1, TableUpdate DEF AddValidation
<1>9. x.val = vAggr'[n][i][v] /\ x.rat = rAggr'[n][i][v]
  BY <1>4, <1>6, <1>8
<1>10. CountedAt(n, i, v) /\ MovesOn
  BY <1>8 DEF CountedAt, MovesOn
<1>11. RegInv'
  BY <1>5, <1>7, <1>9, <1>10, EntryUpdated
<1> QED
  BY <1>1, <1>5, <1>8, <1>11 DEF Enter

\* The same for a Ratification vote, which may also end the iteration.
LEMMA RatificationCounted ==
  ASSUME VoteTypes, RegInv, NEW n \in Honest, NEW i \in Iters, NEW v \in Votes,
         NEW p \in Provisioners, Tracked(iter[n], i, v), vAggr' = vAggr, MovesOn,
         NEW voters, voters = rAggr[n][i][v] \cup {p}, AddRatification(n, i, v, voters)
  PROVE  /\ RegInv' /\ voters \in SUBSET Provisioners
         /\ rAggr' \in [Honest -> [Iters -> [Votes -> SUBSET Provisioners]]]
         /\ reg' \in [Honest -> [Iters -> [Votes -> AttestationInfo]]]
<1>1. /\ rAggr \in [Honest -> [Iters -> [Votes -> SUBSET Provisioners]]]
      /\ rAggr[n][i][v] \in SUBSET Provisioners /\ reg[n][i][v] \in AttestationInfo
      /\ voters \in SUBSET Provisioners
  BY DEF VoteTypes
<1>2. PICK info \in AttestationInfo : info = reg[n][i][v]
  BY <1>1
<1>3. PICK quorum \in BOOLEAN : quorum = QuorumReached(i, "ratification", v, voters)
  <2>1. QuorumReached(i, "ratification", v, voters) \in BOOLEAN
    BY DEF QuorumReached
  <2> QED
    BY <2>1, Zenon
<1>4. PICK x \in AttestationInfo :
        /\ x = SetSv(info, "ratification", voters, quorum)
        /\ x.rat = voters /\ x.val = info.val
        /\ x.ratQuorum = (info.ratQuorum \/ quorum) /\ x.valQuorum = info.valQuorum
  BY <1>1, SetSvFacts
<1>5. Enter(n, i, v, x)
  <2>1. reg' = [reg EXCEPT ![n][i][v] = x]
    BY <1>2, <1>3, <1>4 DEF AddRatification, SetStepVotes
  <2>2. reg \in [Honest -> [Iters -> [Votes -> AttestationInfo]]]
    BY DEF VoteTypes
  <2> QED
    BY <2>1, <2>2, RegUpdate
<1>6. FlagsTrue(i, v, info) /\ info.val = vAggr[n][i][v] /\ info.rat = rAggr[n][i][v]
  BY <1>2 DEF RegInv
<1>7. FlagsTrue(i, v, x)
  <2>1. info.ratQuorum => QuorumReached(i, "ratification", v, voters)
    BY <1>6, QuorumGrows DEF FlagsTrue
  <2>2. x.ratQuorum => QuorumReached(i, "ratification", v, x.rat)
    BY <1>3, <1>4, <2>1
  <2>3. x.valQuorum /\ v # NoQuorum => QuorumReached(i, "validation", v, x.val)
    BY <1>4, <1>6 DEF FlagsTrue
  <2> QED
    BY <2>2, <2>3 DEF FlagsTrue
<1>8. /\ rAggr' \in [Honest -> [Iters -> [Votes -> SUBSET Provisioners]]]
      /\ rAggr'[n][i][v] = voters
      /\ \A m \in Honest, j \in Iters, w \in Votes :
           (m # n \/ j # i \/ w # v) => rAggr'[m][j][w] = rAggr[m][j][w]
  BY <1>1, TableUpdate DEF AddRatification
<1>9. x.val = vAggr'[n][i][v] /\ x.rat = rAggr'[n][i][v]
  BY <1>4, <1>6, <1>8
<1>10. CountedAt(n, i, v) /\ MovesOn
  BY <1>8 DEF CountedAt, MovesOn
<1>11. RegInv'
  BY <1>5, <1>7, <1>9, <1>10, EntryUpdated
<1> QED
  BY <1>1, <1>5, <1>8, <1>11 DEF Enter
-----------------------------------------------------------------------------
(* The actions *)

\* The votes the tables are made of.
LEMMA VoteFacts ==
  /\ NoQuorum \in Votes /\ NoStepVotes \in StepVotesSet
  /\ \A h \in Hashes : Valid(h) \in Votes /\ IsValid(Valid(h))
  /\ ~IsValid(NoQuorum)
  /\ \A v \in Votes, voters \in SUBSET Provisioners :
       /\ StepVotes(v, voters) \in StepVotesSet
       /\ StepVotes(v, voters).vote = v /\ StepVotes(v, voters).voters = voters
  /\ NoStepVotes.vote = NoQuorum
<1>1. NoQuorum \in Votes /\ (\A h \in Hashes : Valid(h) \in Votes)
  BY DEF Votes
<1>2. \A h \in Hashes : IsValid(Valid(h))
  BY DEF IsValid, Valid
<1>3. ~IsValid(NoQuorum)
  BY DEF IsValid, NoQuorum
<1> QED
  BY <1>1, <1>2, <1>3 DEF StepVotesSet, StepVotes, NoStepVotes

\* The end of an iteration.
LEMMA NextIterationMovesOn ==
  ASSUME Shape, NEW n \in Honest, NextIteration(n)
  PROVE  /\ MovesOn
         /\ \A m \in Honest : step'[m] \in {"ratify", "ratification"} =>
              step[m] = step'[m] /\ iter'[m] = iter[m] /\ m # n
<1>1. /\ iter' \in [Honest -> Iters]
      /\ step' = [step EXCEPT ![n] = "proposal"]
      /\ \A m \in Honest : m # n => iter'[m] = iter[m]
      /\ \A i \in Iters : (~Emergency(i) /\ i <= iter[n]) => i < iter'[n]
  BY NextIterationFacts
<1>2. step \in [Honest -> StepNames] /\ iter \in [Honest -> Iters]
  BY DEF Shape
<1>3. ASSUME NEW m \in Honest, NEW j \in Iters, ~Emergency(j), j >= iter'[m]
      PROVE  j >= iter[m]
  <2>1. j \in Nat /\ iter[m] \in Nat /\ iter'[m] \in Nat
    BY <1>1, <1>2, IterFacts
  <2>2. CASE m = n
    BY <1>1, <1>3, <2>1, <2>2
  <2>3. CASE m # n
    BY <1>1, <1>3, <2>3
  <2> QED
    BY <2>2, <2>3
<1>4. MovesOn
  BY <1>3 DEF MovesOn, Tracked
<1> QED
  BY <1>1, <1>2, <1>4

\* A step that leaves votes and attestations alone.
LEMMA QuietStep ==
  ASSUME AttestationInv, MovesOn,
         UNCHANGED <<ratifications, quorums, results, result, vAggr, rAggr, reg, restarts>>,
         open' \in [Honest -> BOOLEAN],
         \A m \in Honest : step'[m] \in {"ratify", "ratification"} =>
           step[m] \in {"ratify", "ratification"} /\ iter'[m] = iter[m]
  PROVE  AttestationInv'
<1>1. VoteTypes'
  BY DEF AttestationInv, VoteTypes
<1>2. RegInv'
  BY DEF AttestationInv, RegInv, MovesOn, FlagsTrue
<1>3. VotesInv'
  BY DEF AttestationInv, VotesInv
<1>4. ResultInv'
  BY DEF AttestationInv, ResultInv, Quorate
<1>5. QuorumInv'
  BY DEF AttestationInv, QuorumInv, SuccessQuorumsVerify
<1> QED
  BY <1>1, <1>2, <1>3, <1>4, <1>5 DEF AttestationInv

\* No task, candidate or timeout of the first two steps touches an attestation.
LEMMA ProposalInv ==
  ASSUME Shape, AttestationInv, NEW n \in Honest, NEW h,
         Propose(n, h) \/ ReceiveCandidate(n, h) \/ ProposalTimeout(n)
  PROVE  AttestationInv'
<1>1. /\ UNCHANGED <<ratifications, quorums, results, result, vAggr, rAggr, reg, restarts>>
      /\ iter' = iter /\ open' = open /\ step' = [step EXCEPT ![n] = "validation"]
  BY DEF Propose, ReceiveCandidate, ProposalTimeout, StartValidation, msgs
<1>2. \A m \in Honest : step'[m] \in {"ratify", "ratification"} =>
        step[m] \in {"ratify", "ratification"} /\ iter'[m] = iter[m]
  BY <1>1 DEF Shape
<1>3. MovesOn /\ open' \in [Honest -> BOOLEAN]
  BY <1>1 DEF MovesOn, AttestationInv, VoteTypes
<1> QED
  BY <1>1, <1>2, <1>3, QuietStep

LEMMA CastValidationInv ==
  ASSUME Shape, AttestationInv, NEW n \in Honest, NEW t, NEW i, NEW h,
         CastValidation(n, t) \/ PastCandidate(n, i, h)
  PROVE  AttestationInv'
<1>1. /\ UNCHANGED <<ratifications, quorums, results, result, vAggr, rAggr, reg, restarts>>
      /\ iter' = iter /\ open' = open /\ step' = step
  BY DEF CastValidation, PastCandidate, phase
<1>2. MovesOn /\ open' \in [Honest -> BOOLEAN]
  BY <1>1 DEF MovesOn, AttestationInv, VoteTypes
<1> QED
  BY <1>1, <1>2, QuietStep

LEMMA LeaveTipInv ==
  ASSUME Shape, AttestationInv, NEW n \in Honest, LeaveTip(n)
  PROVE  AttestationInv'
<1>1. /\ UNCHANGED <<ratifications, quorums, results, result, vAggr, rAggr, reg, restarts>>
      /\ iter' = iter /\ open' = open /\ step' = [step EXCEPT ![n] = "stopped"]
  BY DEF LeaveTip, msgs
<1>2. \A m \in Honest : step'[m] \in {"ratify", "ratification"} =>
        step[m] \in {"ratify", "ratification"} /\ iter'[m] = iter[m]
  BY <1>1 DEF Shape
<1>3. MovesOn /\ open' \in [Honest -> BOOLEAN]
  BY <1>1 DEF MovesOn, AttestationInv, VoteTypes
<1> QED
  BY <1>1, <1>2, <1>3, QuietStep

LEMMA RatificationTimeoutInv ==
  ASSUME Shape, AttestationInv, NEW n \in Honest, RatificationTimeout(n)
  PROVE  AttestationInv'
<1>1. UNCHANGED <<ratifications, quorums, results, result, vAggr, rAggr, reg, restarts>>
  BY DEF RatificationTimeout, msgs
<1>2. open' \in [Honest -> BOOLEAN]
  BY DEF RatificationTimeout, AttestationInv, VoteTypes
<1>3. CASE iter' = iter /\ step' = step
  <2>1. MovesOn
    BY <1>3 DEF MovesOn
  <2> QED
    BY <1>1, <1>2, <1>3, <2>1, QuietStep
<1>4. CASE NextIteration(n)
  BY <1>1, <1>2, <1>4, NextIterationMovesOn, QuietStep
<1> QED
  BY <1>3, <1>4 DEF RatificationTimeout

\* A new task starts with empty tables.
LEMMA RestartInv ==
  ASSUME Shape, AttestationInv, NEW n \in Honest, Restart(n)
  PROVE  AttestationInv'
<1>1. /\ UNCHANGED <<ratifications, quorums, results>>
      /\ iter' = [iter EXCEPT ![n] = RestoredIter(n)]
      /\ step' = [step EXCEPT ![n] = "proposal"]
      /\ open' = [open EXCEPT ![n] = FALSE]
      /\ result' = [result EXCEPT ![n] = NoStepVotes]
      /\ vAggr' = [vAggr EXCEPT ![n] = NoVoters]
      /\ rAggr' = [rAggr EXCEPT ![n] = NoVoters]
      /\ reg' = [reg EXCEPT ![n] = NoAtts]
      /\ restarts < MaxRestarts /\ restarts' = restarts + 1
  BY DEF Restart, msgs
<1>2. NoVoters \in [Iters -> [Votes -> SUBSET Provisioners]]
  BY DEF NoVoters
<1>3. NoAtts \in [Iters -> [Votes -> AttestationInfo]]
  BY DEF NoAtts, AttestationInfo
<1>4. VoteTypes'
  <2>1. restarts' \in 0..MaxRestarts
    BY <1>1, RoundAssumption DEF AttestationInv, VoteTypes
  <2>2. /\ open' \in [Honest -> BOOLEAN] /\ result' \in [Honest -> StepVotesSet]
    BY <1>1, VoteFacts DEF AttestationInv, VoteTypes
  <2>3. /\ vAggr' \in [Honest -> [Iters -> [Votes -> SUBSET Provisioners]]]
        /\ rAggr' \in [Honest -> [Iters -> [Votes -> SUBSET Provisioners]]]
    BY <1>1, <1>2 DEF AttestationInv, VoteTypes
  <2>4. reg' \in [Honest -> [Iters -> [Votes -> AttestationInfo]]]
    BY <1>1, <1>3 DEF AttestationInv, VoteTypes
  <2> QED
    BY <1>1, <2>1, <2>2, <2>3, <2>4 DEF AttestationInv, VoteTypes
<1>5. RegInv'
  <2> SUFFICES ASSUME NEW m \in Honest, NEW j \in Iters, NEW w \in Votes
               PROVE  /\ FlagsTrue(j, w, reg'[m][j][w])
                      /\ Tracked(iter'[m], j, w) =>
                           /\ reg'[m][j][w].val = vAggr'[m][j][w]
                           /\ reg'[m][j][w].rat = rAggr'[m][j][w]
    BY DEF RegInv, FlagsTrue
  <2>1. CASE m = n
    <3>1. reg'[m] = NoAtts /\ vAggr'[m] = NoVoters /\ rAggr'[m] = NoVoters
      BY <1>1, <2>1 DEF AttestationInv, VoteTypes
    <3>2. /\ NoAtts[j][w].val = {} /\ NoAtts[j][w].rat = {}
          /\ ~NoAtts[j][w].valQuorum /\ ~NoAtts[j][w].ratQuorum
          /\ NoVoters[j][w] = {}
      BY DEF NoAtts, NoVoters
    <3> QED
      BY <3>1, <3>2 DEF FlagsTrue
  <2>2. CASE m # n
    <3>1. /\ reg'[m] = reg[m] /\ vAggr'[m] = vAggr[m] /\ rAggr'[m] = rAggr[m]
          /\ iter'[m] = iter[m]
      BY <1>1, <2>2 DEF AttestationInv, VoteTypes, Shape
    <3> QED
      BY <3>1 DEF AttestationInv, RegInv
  <2> QED
    BY <2>1, <2>2
<1>6. VotesInv'
  BY <1>1 DEF AttestationInv, VotesInv
<1>7. ResultInv'
  BY <1>1 DEF AttestationInv, ResultInv, Quorate, Shape, VoteTypes
<1>8. QuorumInv'
  BY <1>1 DEF AttestationInv, QuorumInv, SuccessQuorumsVerify
<1> QED
  BY <1>4, <1>5, <1>6, <1>7, <1>8 DEF AttestationInv
\* A Validation vote: the quorum that ends the step becomes the local result.
LEMMA ReceiveValidationInv ==
  ASSUME Shape, AttestationInv, NEW n \in Honest, NEW v \in Votes, NEW p \in Provisioners,
         ReceiveValidation(n, v, p)
  PROVE  AttestationInv'
<1>1. PICK voters : voters = vAggr[n][iter[n]][v] \cup {p}
  OBVIOUS
<1>2. PICK i \in Iters : i = iter[n]
  BY DEF Shape
<1>3. /\ UNCHANGED <<rAggr, iter, open, ratifications, quorums, restarts>>
      /\ AddValidation(n, i, v, voters)
      /\ Counts(vAggr[n], i, v, p) /\ step[n] = "validation"
  BY <1>1, <1>2 DEF ReceiveValidation, AddValidation
<1>4. Tracked(iter[n], i, v)
  BY <1>2, <1>3, IterFacts DEF Counts, Tracked
<1>5. /\ RegInv' /\ voters \in SUBSET Provisioners
      /\ vAggr' \in [Honest -> [Iters -> [Votes -> SUBSET Provisioners]]]
      /\ reg' \in [Honest -> [Iters -> [Votes -> AttestationInfo]]]
  BY <1>1, <1>2, <1>3, <1>4, ValidationCounted DEF AttestationInv
<1>6. PICK sv \in StepVotesSet : sv = StepVotes(v, voters) /\ sv.vote = v /\ sv.voters = voters
  BY <1>5, VoteFacts
<1>7. \/ /\ QuorumReached(i, "validation", v, voters)
         /\ step' = [step EXCEPT ![n] = "ratify"] /\ result' = [result EXCEPT ![n] = sv]
         /\ results' \in {results, results \cup {[iter |-> i, sv |-> sv]}}
      \/ step' = step /\ result' = result /\ results' = results
  BY <1>1, <1>2, <1>6 DEF ReceiveValidation, StartRatification
<1>8. VoteTypes'
  <2>1. results' \subseteq [iter : Iters, sv : StepVotesSet]
    BY <1>7 DEF AttestationInv, VoteTypes
  <2>2. result' \in [Honest -> StepVotesSet]
    BY <1>7 DEF AttestationInv, VoteTypes
  <2> QED
    BY <1>3, <1>5, <2>1, <2>2 DEF AttestationInv, VoteTypes
<1>9. ResultInv'
  <2>1. CASE step' = step /\ result' = result
    BY <1>3, <2>1 DEF AttestationInv, ResultInv, Quorate
  <2>2. CASE /\ QuorumReached(i, "validation", v, voters)
             /\ step' = [step EXCEPT ![n] = "ratify"] /\ result' = [result EXCEPT ![n] = sv]
    <3>1. Quorate(iter'[n], result'[n])
      BY <1>2, <1>3, <1>6, <2>2 DEF Quorate, AttestationInv, VoteTypes
    <3>2. \A m \in Honest : m # n => step'[m] = step[m] /\ result'[m] = result[m]
      BY <2>2 DEF Shape, AttestationInv, VoteTypes
    <3> QED
      BY <1>3, <3>1, <3>2 DEF AttestationInv, ResultInv, Quorate
  <2> QED
    BY <1>7, <2>1, <2>2
<1>10. VotesInv' /\ QuorumInv'
  BY <1>3 DEF AttestationInv, VotesInv, QuorumInv, SuccessQuorumsVerify
<1> QED
  BY <1>5, <1>8, <1>9, <1>10 DEF AttestationInv

LEMMA ValidationTimeoutInv ==
  ASSUME Shape, AttestationInv, NEW n \in Honest, ValidationTimeout(n)
  PROVE  AttestationInv'
<1>1. /\ UNCHANGED <<ratifications, quorums, results, iter, open, vAggr, rAggr, reg, restarts>>
      /\ step' = [step EXCEPT ![n] = "ratify"] /\ result' = [result EXCEPT ![n] = NoStepVotes]
  BY DEF ValidationTimeout, StartRatification, msgs
<1>2. VoteTypes'
  BY <1>1, VoteFacts DEF AttestationInv, VoteTypes
<1>3. RegInv'
  BY <1>1 DEF AttestationInv, RegInv, FlagsTrue
<1>4. ResultInv'
  <2>1. Quorate(iter'[n], result'[n])
    BY <1>1, VoteFacts DEF Quorate, AttestationInv, VoteTypes
  <2>2. \A m \in Honest : m # n => step'[m] = step[m] /\ result'[m] = result[m]
    BY <1>1 DEF Shape, AttestationInv, VoteTypes
  <2> QED
    BY <1>1, <2>1, <2>2 DEF AttestationInv, ResultInv, Quorate
<1>5. VotesInv' /\ QuorumInv'
  BY <1>1 DEF AttestationInv, VotesInv, QuorumInv, SuccessQuorumsVerify
<1> QED
  BY <1>2, <1>3, <1>4, <1>5 DEF AttestationInv

\* A Ratification vote is counted with a validation result that has a quorum, and is
\* that result if it is a Valid one.
LEMMA CountRatificationInv ==
  ASSUME Shape, AttestationInv, NEW n \in Honest, NEW v \in Votes, NEW p \in Provisioners,
         NEW local \in StepVotesSet, CountRatification(n, v, p, local),
         Quorate(iter[n], local), IsValid(v) => local.vote = v,
         step[n] \in {"ratify", "ratification"}, UNCHANGED <<vAggr, results, open, restarts>>,
         ratifications' \subseteq
           [iter : Iters, vote : Votes, signer : Honest, vr : StepVotesSet]
  PROVE  VoteTypes' /\ RegInv' /\ ResultInv' /\ QuorumInv'
<1>1. PICK voters : voters = rAggr[n][iter[n]][v] \cup {p}
  OBVIOUS
<1>2. PICK i \in Iters : i = iter[n]
  BY DEF Shape
<1>3. /\ AddRatification(n, i, v, voters)
      /\ result' = [result EXCEPT ![n] = local]
      /\ Counts(rAggr[n], i, v, p)
  BY <1>1, <1>2 DEF CountRatification, AddRatification
<1>4. \/ /\ QuorumReached(i, "ratification", v, voters)
         /\ quorums' = quorums \cup {[iter |-> i, vote |-> v, validation |-> local,
                                      ratification |-> StepVotes(v, voters)]}
         /\ NextIteration(n)
      \/ /\ step' = [step EXCEPT ![n] = "ratification"]
         /\ UNCHANGED <<quorums, iter>>
  BY <1>1, <1>2 DEF CountRatification
<1>5. Tracked(iter[n], i, v)
  BY <1>2, <1>3, IterFacts DEF Counts, Tracked
<1>6. MovesOn
  <2>1. iter' = iter => MovesOn
    BY DEF MovesOn
  <2> QED
    BY <1>4, <2>1, NextIterationMovesOn
<1>7. /\ RegInv' /\ voters \in SUBSET Provisioners
      /\ rAggr' \in [Honest -> [Iters -> [Votes -> SUBSET Provisioners]]]
      /\ reg' \in [Honest -> [Iters -> [Votes -> AttestationInfo]]]
  BY <1>1, <1>2, <1>3, <1>5, <1>6, RatificationCounted DEF AttestationInv
<1>8. PICK sv \in StepVotesSet : sv = StepVotes(v, voters) /\ sv.vote = v /\ sv.voters = voters
  BY <1>7, VoteFacts
<1>9. \A m \in Honest : m # n => result'[m] = result[m]
  BY <1>3 DEF AttestationInv, VoteTypes
<1>10. result'[n] = local /\ result' \in [Honest -> StepVotesSet]
  BY <1>3 DEF AttestationInv, VoteTypes
<1>11. CASE /\ QuorumReached(i, "ratification", v, voters)
            /\ quorums' = quorums \cup {[iter |-> i, vote |-> v, validation |-> local,
                                         ratification |-> sv]}
            /\ NextIteration(n)
  <2> DEFINE q == [iter |-> i, vote |-> v, validation |-> local, ratification |-> sv]
  <2>1. VoteTypes'
    BY <1>7, <1>10, <1>11 DEF AttestationInv, VoteTypes
  <2>2. ResultInv'
    <3>1. \A m \in Honest : step'[m] \in {"ratify", "ratification"} =>
              step[m] = step'[m] /\ iter'[m] = iter[m] /\ m # n
      BY <1>11, NextIterationMovesOn
    <3> QED
      BY <1>9, <3>1 DEF AttestationInv, ResultInv, Quorate
  <2>3. Emergency(i) => IsValid(v)
    BY <1>3 DEF Counts
  <2>4. IsValid(v) => VerifyAtt(i, v, local, sv)
    <3> SUFFICES ASSUME IsValid(v) PROVE VerifyAtt(i, v, local, sv)
      OBVIOUS
    <3>1. v # NoQuorum /\ local.vote = v
      BY VoteFacts
    <3>2. QuorumReached(i, "validation", v, local.voters)
      BY <1>2, <3>1 DEF Quorate
    <3> QED
      BY <1>8, <1>11, <3>1, <3>2 DEF VerifyAtt, VerifyVotes
  <2>5. q.iter = i /\ q.vote = v /\ q.validation = local /\ q.ratification = sv
    OBVIOUS
  <2>6. quorums' = quorums \cup {q}
    BY <1>11
  <2> HIDE DEF q
  <2>7. QuorumInv'
    BY <2>3, <2>4, <2>5, <2>6 DEF AttestationInv, QuorumInv, SuccessQuorumsVerify
  <2> QED
    BY <1>7, <2>1, <2>2, <2>7
<1>12. CASE /\ step' = [step EXCEPT ![n] = "ratification"]
            /\ UNCHANGED <<quorums, iter>>
  <2>1. VoteTypes'
    BY <1>7, <1>10, <1>12 DEF AttestationInv, VoteTypes
  <2>2. ResultInv'
    <3>1. Quorate(iter'[n], result'[n])
      BY <1>10, <1>12
    <3>2. \A m \in Honest : m # n => step'[m] = step[m]
      BY <1>12 DEF Shape
    <3> QED
      BY <1>9, <1>12, <3>1, <3>2 DEF AttestationInv, ResultInv, Quorate
  <2>3. QuorumInv'
    BY <1>12 DEF AttestationInv, QuorumInv, SuccessQuorumsVerify
  <2> QED
    BY <1>7, <2>1, <2>2, <2>3
<1> QED
  BY <1>4, <1>8, <1>11, <1>12
\* The node's own ratification vote is its validation result.
LEMMA CastRatificationInv ==
  ASSUME Shape, AttestationInv, NEW n \in Honest, CastRatification(n)
  PROVE  AttestationInv'
<1>1. PICK i \in Iters : i = iter[n]
  BY DEF Shape
<1>2. PICK local \in StepVotesSet : local = result[n]
  BY DEF AttestationInv, VoteTypes
<1>3. local.vote \in Votes /\ n \in Provisioners
  BY RoundAssumption DEF StepVotesSet
<1>4. /\ step[n] = "ratify" /\ UNCHANGED <<vAggr, results, open, restarts>>
  BY DEF CastRatification
<1>5. Quorate(iter[n], local)
  BY <1>2, <1>4 DEF AttestationInv, ResultInv
<1>6. \/ ratifications' = ratifications
      \/ /\ IsValid(local.vote) \/ ~Emergency(i)
         /\ ratifications' = ratifications \cup
              {[iter |-> i, vote |-> local.vote, signer |-> n, vr |-> local]}
  BY <1>1, <1>2 DEF CastRatification
<1>7. /\ ratifications' \subseteq
           [iter : Iters, vote : Votes, signer : Honest, vr : StepVotesSet]
      /\ VotesInv'
  BY <1>3, <1>6 DEF AttestationInv, VoteTypes, VotesInv
<1>8. CASE CountRatification(n, local.vote, n, local)
  BY <1>3, <1>4, <1>5, <1>7, <1>8, CountRatificationInv DEF AttestationInv
<1>9. CASE /\ step' = [step EXCEPT ![n] = "ratification"]
           /\ UNCHANGED <<quorums, iter, result, rAggr, reg>>
  <2>1. VoteTypes'
    BY <1>4, <1>7, <1>9 DEF AttestationInv, VoteTypes
  <2>2. RegInv' /\ QuorumInv'
    BY <1>4, <1>9 DEF AttestationInv, RegInv, FlagsTrue, QuorumInv, SuccessQuorumsVerify
  <2>3. ResultInv'
    BY <1>4, <1>9 DEF AttestationInv, ResultInv, Quorate, Shape
  <2> QED
    BY <1>7, <2>1, <2>2, <2>3 DEF AttestationInv
<1> QED
  BY <1>2, <1>8, <1>9 DEF CastRatification

\* A peer's ratification vote carries a result for that vote, and is refused unless
\* this result, or the local one for the same vote, has a quorum.
LEMMA AdoptedFacts ==
  ASSUME Shape, AttestationInv, NEW n \in Honest, NEW v \in Votes, NEW p \in Provisioners,
         step[n] = "ratification",
         NEW vr \in RatificationResults(iter[n], v, p),
         NEW local \in AdoptedResults(iter[n], result[n], vr)
  PROVE  /\ local \in StepVotesSet /\ Quorate(iter[n], local)
         /\ IsValid(v) => local.vote = v
<1>1. vr \in StepVotesSet /\ vr.vote = v
  <2>1. CASE p \in Honest
    <3>1. PICK m \in ratifications : m.vote = v /\ m.vr = vr
      BY <2>1 DEF RatificationResults
    <3> QED
      BY <3>1 DEF AttestationInv, VoteTypes, VotesInv
  <2>2. CASE p \notin Honest
    <3>1. PICK voters \in SUBSET Provisioners : vr = StepVotes(v, voters)
      <4>1. {} \in SUBSET Provisioners /\ ValidationVoters(iter[n], v) \in SUBSET Provisioners
        BY DEF ValidationVoters
      <4>2. \/ vr = StepVotes(v, {}) \/ vr = StepVotes(v, ValidationVoters(iter[n], v))
        BY <2>2 DEF RatificationResults
      <4> QED
        BY <4>1, <4>2
    <3> QED
      BY <3>1, VoteFacts
  <2> QED
    BY <2>1, <2>2
<1>2. result[n] \in StepVotesSet /\ Quorate(iter[n], result[n])
  BY DEF AttestationInv, VoteTypes, ResultInv
<1>3. CASE vr.vote \in {NoQuorum, result[n].vote}
  <2>1. local = result[n]
    BY <1>3 DEF AdoptedResults
  <2>2. IsValid(v) => v = result[n].vote
    BY <1>1, <1>3, VoteFacts
  <2> QED
    BY <1>2, <2>1, <2>2
<1>4. CASE vr.vote \notin {NoQuorum, result[n].vote}
  <2>1. local = vr /\ VerifyVotes(iter[n], "validation", vr.vote, vr)
    BY <1>4 DEF AdoptedResults
  <2>2. Quorate(iter[n], vr)
    BY <2>1 DEF Quorate, VerifyVotes
  <2> QED
    BY <1>1, <2>1, <2>2
<1> QED
  BY <1>3, <1>4

LEMMA ReceiveRatificationInv ==
  ASSUME Shape, AttestationInv, NEW n \in Honest, NEW v \in Votes, NEW p \in Provisioners,
         ReceiveRatification(n, v, p)
  PROVE  AttestationInv'
<1>1. /\ step[n] = "ratification"
      /\ UNCHANGED <<ratifications, results, open, vAggr, restarts>>
  BY DEF ReceiveRatification
<1>2. PICK vr \in RatificationResults(iter[n], v, p) :
        \E local \in AdoptedResults(iter[n], result[n], vr) :
          \/ CountRatification(n, v, p, local)
          \/ /\ result' = [result EXCEPT ![n] = local]
             /\ UNCHANGED <<quorums, iter, step, rAggr, reg>>
  BY DEF ReceiveRatification
<1>3. PICK local \in AdoptedResults(iter[n], result[n], vr) :
        \/ CountRatification(n, v, p, local)
        \/ /\ result' = [result EXCEPT ![n] = local]
           /\ UNCHANGED <<quorums, iter, step, rAggr, reg>>
  BY <1>2
<1>4. /\ local \in StepVotesSet /\ Quorate(iter[n], local)
      /\ IsValid(v) => local.vote = v
  BY <1>1, AdoptedFacts
<1>5. VotesInv'
  BY <1>1 DEF AttestationInv, VotesInv
<1>6. CASE CountRatification(n, v, p, local)
  <2>1. ratifications' \subseteq
          [iter : Iters, vote : Votes, signer : Honest, vr : StepVotesSet]
    BY <1>1 DEF AttestationInv, VoteTypes
  <2> QED
    BY <1>1, <1>4, <1>5, <1>6, <2>1, CountRatificationInv DEF AttestationInv
<1>7. CASE /\ result' = [result EXCEPT ![n] = local]
           /\ UNCHANGED <<quorums, iter, step, rAggr, reg>>
  <2>1. VoteTypes'
    BY <1>1, <1>4, <1>7 DEF AttestationInv, VoteTypes
  <2>2. RegInv' /\ QuorumInv'
    BY <1>1, <1>7 DEF AttestationInv, RegInv, FlagsTrue, QuorumInv, SuccessQuorumsVerify
  <2>3. result'[n] = local /\ \A m \in Honest : m # n => result'[m] = result[m]
    BY <1>7 DEF AttestationInv, VoteTypes
  <2>4. ResultInv'
    BY <1>4, <1>7, <2>3 DEF AttestationInv, ResultInv, Quorate
  <2> QED
    BY <1>5, <2>1, <2>2, <2>4 DEF AttestationInv
<1> QED
  BY <1>3, <1>6, <1>7

\* A Fail attestation from the network is verified before it replaces the entry, and
\* no aggregator writes there afterwards.
LEMMA ReceiveQuorumInv ==
  ASSUME Shape, AttestationInv, NEW n \in Honest,
         NEW q \in [iter : Iters, vote : Votes, validation : StepVotesSet,
                    ratification : StepVotesSet],
         ReceiveQuorum(n, q)
  PROVE  AttestationInv'
<1>1. PICK i \in Iters, v \in Votes : i = q.iter /\ v = q.vote
  OBVIOUS
<1>2. /\ i <= iter[n] /\ VerifyAtt(i, v, q.validation, q.ratification)
      /\ UNCHANGED <<ratifications, quorums, results, open, result, vAggr, rAggr, restarts>>
  BY <1>1 DEF ReceiveQuorum, msgs
<1>3. \/ i = iter[n] /\ NextIteration(n)
      \/ i # iter[n] /\ UNCHANGED <<iter, step>>
  BY <1>1 DEF ReceiveQuorum
<1>4. /\ MovesOn
      /\ \A m \in Honest : step'[m] \in {"ratify", "ratification"} =>
              step[m] = step'[m] /\ iter'[m] = iter[m]
  <2>1. iter' = iter => MovesOn
    BY DEF MovesOn
  <2> QED
    BY <1>3, <2>1, NextIterationMovesOn
<1>5. open' \in [Honest -> BOOLEAN]
  BY <1>2 DEF AttestationInv, VoteTypes
<1>6. CASE reg' = reg
  BY <1>2, <1>4, <1>5, <1>6, QuietStep
<1>7. CASE ~IsValid(v) /\ reg' = SetAttestation(n, q)
  <2>1. PICK info \in AttestationInfo : info = reg[n][i][v]
    BY DEF AttestationInv, VoteTypes
  <2>2. PICK qv \in SUBSET Provisioners, qr \in SUBSET Provisioners :
          qv = q.validation.voters /\ qr = q.ratification.voters
    BY DEF StepVotesSet
  <2>3. PICK quorum \in BOOLEAN, yes \in BOOLEAN : quorum = (v # NoQuorum) /\ yes = TRUE
    BY Zenon
  <2>4. PICK y \in AttestationInfo :
          /\ y = SetSv(info, "validation", qv, quorum) /\ y.val = qv
    BY SetSvFacts
  <2>5. PICK x \in AttestationInfo :
          /\ x = SetSv(y, "ratification", qr, yes)
          /\ x.val = qv /\ x.rat = qr
    BY <2>4, SetSvFacts
  <2>6. Enter(n, i, v, x)
    <3>1. reg' = [reg EXCEPT ![n][i][v] = x]
      BY <1>1, <1>7, <2>1, <2>2, <2>3, <2>4, <2>5 DEF SetAttestation
    <3>2. reg \in [Honest -> [Iters -> [Votes -> AttestationInfo]]]
      BY DEF AttestationInv, VoteTypes
    <3> QED
      BY <3>1, <3>2, RegUpdate
  <2>7. FlagsTrue(i, v, x)
    BY <1>2, <2>2, <2>5 DEF FlagsTrue, VerifyAtt, VerifyVotes
  <2>8. ~Tracked(iter'[n], i, v)
    <3>1. CASE i = iter[n] /\ NextIteration(n)
      <4>1. ~Emergency(i) => i < iter'[n]
        BY <3>1, NextIterationFacts, IterFacts
      <4>2. i \in Nat /\ iter'[n] \in Nat
        BY <3>1, NextIterationFacts, IterFacts
      <4> QED
        BY <1>7, <4>1, <4>2 DEF Tracked
    <3>2. CASE i # iter[n] /\ UNCHANGED <<iter, step>>
      <4>1. i \in Nat /\ iter[n] \in Nat
        BY IterFacts DEF Shape
      <4> QED
        BY <1>2, <1>7, <3>2, <4>1 DEF Tracked
    <3> QED
      BY <1>3, <3>1, <3>2
  <2>9. CountedAt(n, i, v)
    BY <1>2 DEF CountedAt
  <2>10. RegInv'
    BY <1>4, <2>6, <2>7, <2>8, <2>9, EntryUpdated DEF AttestationInv
  <2>11. VoteTypes'
    BY <1>2, <2>6 DEF AttestationInv, VoteTypes, Enter
  <2>12. VotesInv' /\ QuorumInv'
    BY <1>2 DEF AttestationInv, VotesInv, QuorumInv, SuccessQuorumsVerify
  <2>13. ResultInv'
    BY <1>2, <1>4 DEF AttestationInv, ResultInv, Quorate
  <2> QED
    BY <2>10, <2>11, <2>12, <2>13 DEF AttestationInv
<1> QED
  BY <1>1, <1>6, <1>7 DEF ReceiveQuorum
\* try_cast_ratification_vote signs a Valid vote, the result it is given.
LEMMA RatifiedLateInv ==
  ASSUME AttestationInv, NEW n \in Honest, NEW i \in Iters, NEW sv \in StepVotesSet,
         IsValid(sv.vote),
         ratifications' \in {ratifications, RatifiedLate(n, i, sv)}
  PROVE  /\ ratifications' \subseteq
              [iter : Iters, vote : Votes, signer : Honest, vr : StepVotesSet]
         /\ VotesInv'
<1>1. \/ ratifications' = ratifications
      \/ ratifications' = ratifications \cup
           {[iter |-> i, vote |-> sv.vote, signer |-> n, vr |-> sv]}
  BY DEF RatifiedLate
<1>2. sv.vote \in Votes
  BY DEF StepVotesSet
<1> QED
  BY <1>1, <1>2 DEF AttestationInv, VoteTypes, VotesInv

LEMMA PastValidationInv ==
  ASSUME Shape, AttestationInv, NEW n \in Honest, NEW i \in Iters, NEW h \in Hashes,
         NEW p \in Provisioners, PastValidation(n, i, h, p)
  PROVE  AttestationInv'
<1>1. PICK v \in Votes : v = Valid(h) /\ IsValid(v)
  BY VoteFacts
<1>2. PICK voters : voters = vAggr[n][i][v] \cup {p}
  OBVIOUS
<1>3. /\ UNCHANGED <<rAggr, iter, step, open, result, quorums, restarts>>
      /\ AddValidation(n, i, v, voters)
  BY <1>1, <1>2 DEF PastValidation, AddValidation, phase
<1>4. Tracked(iter[n], i, v)
  BY <1>1 DEF Tracked
<1>5. /\ RegInv' /\ voters \in SUBSET Provisioners
      /\ vAggr' \in [Honest -> [Iters -> [Votes -> SUBSET Provisioners]]]
      /\ reg' \in [Honest -> [Iters -> [Votes -> AttestationInfo]]]
  BY <1>2, <1>3, <1>4, ValidationCounted DEF AttestationInv
<1>6. PICK sv \in StepVotesSet : sv = StepVotes(v, voters) /\ sv.vote = v
  BY <1>5, VoteFacts
<1>7. /\ results' \in {results, results \cup {[iter |-> i, sv |-> sv]}}
      /\ ratifications' \in {ratifications, RatifiedLate(n, i, sv)}
  BY <1>1, <1>2, <1>6 DEF PastValidation
<1>8. /\ ratifications' \subseteq
           [iter : Iters, vote : Votes, signer : Honest, vr : StepVotesSet]
      /\ VotesInv'
  BY <1>1, <1>6, <1>7, RatifiedLateInv
<1>9. results' \subseteq [iter : Iters, sv : StepVotesSet]
  BY <1>7 DEF AttestationInv, VoteTypes
<1>10. VoteTypes'
  BY <1>3, <1>5, <1>8, <1>9 DEF AttestationInv, VoteTypes
<1>11. ResultInv' /\ QuorumInv'
  BY <1>3 DEF AttestationInv, ResultInv, Quorate, QuorumInv, SuccessQuorumsVerify
<1> QED
  BY <1>5, <1>8, <1>10, <1>11 DEF AttestationInv

LEMMA PastValidationQuorumInv ==
  ASSUME Shape, AttestationInv, NEW n \in Honest, NEW r \in results,
         PastValidationQuorum(n, r)
  PROVE  AttestationInv'
<1>1. r \in [iter : Iters, sv : StepVotesSet]
  BY DEF AttestationInv, VoteTypes
<1>2. PICK i \in Iters, sv \in StepVotesSet : i = r.iter /\ sv = r.sv
  BY <1>1
<1>3. /\ UNCHANGED <<vAggr, rAggr, reg, iter, step, open, result, quorums, restarts>>
      /\ results' = results \cup {r} /\ IsValid(sv.vote)
      /\ ratifications' \in {ratifications, RatifiedLate(n, i, sv)}
  BY <1>2 DEF PastValidationQuorum, phase
<1>4. /\ ratifications' \subseteq
           [iter : Iters, vote : Votes, signer : Honest, vr : StepVotesSet]
      /\ VotesInv'
  BY <1>3, RatifiedLateInv
<1>5. VoteTypes'
  BY <1>1, <1>3, <1>4 DEF AttestationInv, VoteTypes
<1>6. RegInv'
  BY <1>3 DEF AttestationInv, RegInv, FlagsTrue
<1>7. ResultInv' /\ QuorumInv'
  BY <1>3 DEF AttestationInv, ResultInv, Quorate, QuorumInv, SuccessQuorumsVerify
<1> QED
  BY <1>4, <1>5, <1>6, <1>7 DEF AttestationInv

\* What the registry publishes for a past iteration is what it has counted.
LEMMA PastRatificationInv ==
  ASSUME Shape, AttestationInv, NEW n \in Honest, NEW i \in Iters, NEW h \in Hashes,
         NEW p \in Provisioners, PastRatification(n, i, h, p)
  PROVE  AttestationInv'
<1>1. PICK v \in Votes : v = Valid(h) /\ IsValid(v) /\ v # NoQuorum
  BY VoteFacts
<1>2. PICK voters : voters = rAggr[n][i][v] \cup {p}
  OBVIOUS
<1>3. PICK info : info = SetSv(reg[n][i][v], "ratification", voters,
                               QuorumReached(i, "ratification", v, voters))
  OBVIOUS
<1>4. /\ UNCHANGED <<vAggr, iter, step, open, result, ratifications, results, restarts>>
      /\ AddRatification(n, i, v, voters) /\ reg' = [reg EXCEPT ![n][i][v] = info]
      /\ \/ quorums' = quorums
         \/ /\ IsReady(v, info)
            /\ quorums' = quorums \cup
                 {[iter |-> i, vote |-> v, validation |-> StepVotes(v, info.val),
                   ratification |-> StepVotes(v, info.rat)]}
  BY <1>1, <1>2, <1>3 DEF PastRatification, AddRatification, SetStepVotes, phase
<1>5. Tracked(iter[n], i, v) /\ MovesOn
  BY <1>1, <1>4 DEF Tracked, MovesOn
<1>6. /\ RegInv' /\ voters \in SUBSET Provisioners
      /\ rAggr' \in [Honest -> [Iters -> [Votes -> SUBSET Provisioners]]]
      /\ reg' \in [Honest -> [Iters -> [Votes -> AttestationInfo]]]
  BY <1>2, <1>4, <1>5, RatificationCounted DEF AttestationInv
<1>7. /\ reg'[n][i][v] = info /\ info \in AttestationInfo
  <2>1. reg \in [Honest -> [Iters -> [Votes -> AttestationInfo]]]
    BY DEF AttestationInv, VoteTypes
  <2>2. reg'[n][i][v] = info
    BY <1>4, <2>1
  <2> QED
    BY <1>6, <2>2
<1>8. /\ info.val \in SUBSET Provisioners /\ info.rat \in SUBSET Provisioners
      /\ FlagsTrue(i, v, info)
  <2>1. FlagsTrue(i, v, reg'[n][i][v])
    BY <1>6 DEF RegInv, FlagsTrue
  <2> QED
    BY <1>7, <2>1 DEF AttestationInfo
<1>9. PICK sv \in StepVotesSet, sr \in StepVotesSet :
        /\ sv = StepVotes(v, info.val) /\ sv.vote = v /\ sv.voters = info.val
        /\ sr = StepVotes(v, info.rat) /\ sr.vote = v /\ sr.voters = info.rat
  BY <1>8, VoteFacts
<1>10. IsReady(v, info) => VerifyAtt(i, v, sv, sr)
  BY <1>1, <1>8, <1>9 DEF IsReady, FlagsTrue, VerifyAtt, VerifyVotes
<1>11. quorums' \subseteq [iter : Iters, vote : Votes, validation : StepVotesSet,
                           ratification : StepVotesSet]
  BY <1>4, <1>9 DEF AttestationInv, VoteTypes
<1>12. QuorumInv'
  <2>1. CASE quorums' = quorums
    BY <2>1 DEF AttestationInv, QuorumInv, SuccessQuorumsVerify
  <2>2. CASE /\ IsReady(v, info)
             /\ quorums' = quorums \cup {[iter |-> i, vote |-> v, validation |-> sv,
                                          ratification |-> sr]}
    <3> DEFINE q == [iter |-> i, vote |-> v, validation |-> sv, ratification |-> sr]
    <3>1. q.iter = i /\ q.vote = v /\ q.validation = sv /\ q.ratification = sr
      OBVIOUS
    <3>2. quorums' = quorums \cup {q}
      BY <2>2
    <3> HIDE DEF q
    <3> QED
      BY <1>1, <1>10, <2>2, <3>1, <3>2 DEF AttestationInv, QuorumInv, SuccessQuorumsVerify
  <2> QED
    BY <1>4, <1>9, <2>1, <2>2
<1>13. VoteTypes'
  BY <1>4, <1>6, <1>11 DEF AttestationInv, VoteTypes
<1>14. VotesInv' /\ ResultInv'
  BY <1>4 DEF AttestationInv, VotesInv, ResultInv, Quorate
<1> QED
  BY <1>6, <1>12, <1>13, <1>14 DEF AttestationInv

\* The Quorum messages a node may receive.
LEMMA AggregatedQuorumType ==
  ASSUME NEW i \in Iters, NEW v \in Votes
  PROVE  AggregatedQuorum(i, v) \in
           [iter : Iters, vote : Votes, validation : StepVotesSet,
            ratification : StepVotesSet]
<1>1. /\ ValidationVoters(i, v) \in SUBSET Provisioners
      /\ RatificationVoters(i, v) \in SUBSET Provisioners
  BY DEF ValidationVoters, RatificationVoters
<1> QED
  BY <1>1 DEF AggregatedQuorum, StepVotes, StepVotesSet

LEMMA AttestationInvInit == Init => AttestationInv
<1> SUFFICES ASSUME Init PROVE AttestationInv
  OBVIOUS
<1>1. NoVoters \in [Iters -> [Votes -> SUBSET Provisioners]]
  BY DEF NoVoters
<1>2. NoAtts \in [Iters -> [Votes -> AttestationInfo]]
  BY DEF NoAtts, AttestationInfo
<1>3. VoteTypes
  BY <1>1, <1>2, VoteFacts, RoundAssumption DEF Init, VoteTypes
<1>4. RegInv
  <2>1. \A j \in Iters, w \in Votes :
          /\ NoAtts[j][w].val = {} /\ NoAtts[j][w].rat = {}
          /\ ~NoAtts[j][w].valQuorum /\ ~NoAtts[j][w].ratQuorum
          /\ NoVoters[j][w] = {}
    BY DEF NoAtts, NoVoters
  <2> QED
    BY <2>1 DEF Init, RegInv, FlagsTrue
<1>5. VotesInv /\ ResultInv /\ QuorumInv
  BY DEF Init, VotesInv, ResultInv, QuorumInv, SuccessQuorumsVerify
<1> QED
  BY <1>3, <1>4, <1>5 DEF AttestationInv

LEMMA AttestationInvStep ==
  ASSUME Shape, AttestationInv, [Next]_vars
  PROVE  AttestationInv'
<1>1. CASE UNCHANGED vars
  <2>1. /\ UNCHANGED <<ratifications, quorums, results, result, vAggr, rAggr, reg, restarts>>
        /\ iter' = iter /\ step' = step /\ open' = open
    BY <1>1 DEF vars, msgs, phase
  <2>2. MovesOn /\ open' \in [Honest -> BOOLEAN]
    BY <2>1 DEF MovesOn, AttestationInv, VoteTypes
  <2> QED
    BY <2>1, <2>2, QuietStep
<1>2. CASE Next
  <2>1. PICK n \in Honest :
          \/ \E h \in Hashes : Propose(n, h)
          \/ \E h \in Hashes : ReceiveCandidate(n, h)
          \/ ProposalTimeout(n)
          \/ \E t \in tasks[n] : CastValidation(n, t)
          \/ \E v \in Votes, p \in Provisioners : ReceiveValidation(n, v, p)
          \/ ValidationTimeout(n)
          \/ CastRatification(n)
          \/ \E v \in Votes, p \in Provisioners : ReceiveRatification(n, v, p)
          \/ RatificationTimeout(n)
          \/ \E q \in quorums : ReceiveQuorum(n, q)
          \/ \E i \in Iters, v \in Votes : ReceiveQuorum(n, AggregatedQuorum(i, v))
          \/ \E i \in Iters, h \in Hashes : PastCandidate(n, i, h)
          \/ \E i \in Iters, h \in Hashes, p \in Provisioners : PastValidation(n, i, h, p)
          \/ \E r \in results : PastValidationQuorum(n, r)
          \/ \E i \in Iters, h \in Hashes, p \in Provisioners : PastRatification(n, i, h, p)
          \/ Restart(n)
          \/ LeaveTip(n)
    BY <1>2 DEF Next
  <2>2. ASSUME NEW q \in quorums, ReceiveQuorum(n, q) PROVE AttestationInv'
    <3>1. q \in [iter : Iters, vote : Votes, validation : StepVotesSet,
                 ratification : StepVotesSet]
      BY DEF AttestationInv, VoteTypes
    <3> QED
      BY <2>2, <3>1, ReceiveQuorumInv
  <2>3. ASSUME NEW i \in Iters, NEW v \in Votes, ReceiveQuorum(n, AggregatedQuorum(i, v))
        PROVE  AttestationInv'
    BY <2>3, AggregatedQuorumType, ReceiveQuorumInv
  <2> QED
    BY <2>1, <2>2, <2>3, ProposalInv, CastValidationInv, ReceiveValidationInv,
       ValidationTimeoutInv, CastRatificationInv, ReceiveRatificationInv,
       RatificationTimeoutInv, PastValidationInv, PastValidationQuorumInv,
       PastRatificationInv, RestartInv, LeaveTipInv
<1> QED
  BY <1>1, <1>2
-----------------------------------------------------------------------------
(* What the invariant says of the attestations *)

\* AttestationInv holds throughout the round.
THEOREM AttestationInvariant == Spec => []AttestationInv
<1>1. Shape /\ AttestationInv /\ [Next]_vars => AttestationInv'
  BY AttestationInvStep
<1>2. RoundInv => Shape
  BY DEF RoundInv
<1> QED
  BY <1>1, <1>2, AttestationInvInit, RoundInvariant, PTL DEF Spec

\* Messages, aggregators and registry keep their types, for every committee.
THEOREM ConsensusTypes == Spec => []TypeOK
<1>1. RoundInv /\ AttestationInv => TypeOK
  BY DEF RoundInv, Shape, AttestationInv, VoteTypes, TypeOK
<1> QED
  BY <1>1, RoundInvariant, AttestationInvariant, PTL

\* Every Success Quorum that an honest node publishes passes verify_att at its peers.
THEOREM SuccessQuorumsAlwaysVerify == Spec => []SuccessQuorumsVerify
<1>1. AttestationInv => SuccessQuorumsVerify
  BY DEF AttestationInv, QuorumInv
<1> QED
  BY <1>1, AttestationInvariant, PTL

\* Every Fail attestation of the registry passes verify_failed_iterations.
THEOREM FailAttsAlwaysVerify == Spec => []FailAttsVerify
<1>1. AttestationInv => FailAttsVerify
  <2> SUFFICES ASSUME AttestationInv, NEW n \in Honest, NEW i \in Iters,
                      NEW v \in FailAtts(n, i)
               PROVE  VerifyAtt(i, v, StepVotes(v, reg[n][i][v].val),
                                StepVotes(v, reg[n][i][v].rat))
    BY DEF FailAttsVerify
  <2>1. v \in Votes /\ IsReady(v, reg[n][i][v])
    BY DEF FailAtts
  <2>2. PICK info \in AttestationInfo : info = reg[n][i][v]
    BY <2>1 DEF AttestationInv, VoteTypes
  <2>3. FlagsTrue(i, v, info)
    BY <2>1, <2>2 DEF AttestationInv, RegInv
  <2>4. info.val \in SUBSET Provisioners /\ info.rat \in SUBSET Provisioners
    BY DEF AttestationInfo
  <2>5. /\ StepVotes(v, info.val).vote = v /\ StepVotes(v, info.val).voters = info.val
        /\ StepVotes(v, info.rat).vote = v /\ StepVotes(v, info.rat).voters = info.rat
    BY <2>1, <2>4, VoteFacts
  <2> QED
    BY <2>1, <2>2, <2>3, <2>5 DEF IsReady, FlagsTrue, VerifyAtt, VerifyVotes
<1> QED
  BY <1>1, AttestationInvariant, PTL

-----------------------------------------------------------------------------
(* Emergency iterations *)

EmergencyInv ==
  \A n \in Honest, i \in Iters, v \in Votes :
    (Emergency(i) /\ ~IsValid(v)) => ~reg[n][i][v].ratQuorum

\* A Fail attestation of an emergency iteration that passes verify_att needs the vote
\* of a node that runs this code, and no such node ever casts it.
LEMMA NoEmergencyFail ==
  ASSUME FaultyBelowMajority, AttestationInv, NEW n \in Honest, NEW i \in Iters,
         NEW v \in Votes, Emergency(i), ~IsValid(v),
         ReceiveQuorum(n, AggregatedQuorum(i, v))
  PROVE  FALSE
<1> DEFINE q == AggregatedQuorum(i, v)
           voters == RatificationVoters(i, v)
<1>1. /\ q.iter = i /\ q.vote = v /\ q.ratification.voters = voters
  BY DEF AggregatedQuorum, StepVotes
<1>2. VerifyAtt(q.iter, q.vote, q.validation, q.ratification)
  BY DEF ReceiveQuorum
<1>3. QuorumReached(i, "ratification", v, voters)
  BY <1>1, <1>2 DEF VerifyAtt, VerifyVotes
<1>4. voters \subseteq Provisioners \ Honest
  BY DEF RatificationVoters, AttestationInv, VotesInv
<1>5. QuorumReached(i, "ratification", v, Provisioners \ Honest)
  BY <1>3, <1>4, QuorumGrows
<1> QED
  BY <1>5 DEF FaultyBelowMajority, QuorumReached, TargetQuorum

\* A counted vote of an emergency iteration is Valid, so that the others' entries stay.
LEMMA CountedValid ==
  ASSUME VoteTypes, EmergencyInv, NEW n \in Honest, NEW i \in Iters, NEW v \in Votes,
         NEW s, NEW voters, NEW quorum, ~(Emergency(i) /\ ~IsValid(v)),
         reg' = SetStepVotes(n, i, v, s, voters, quorum)
  PROVE  EmergencyInv'
<1> SUFFICES ASSUME NEW m \in Honest, NEW j \in Iters, NEW w \in Votes,
                    Emergency(j), ~IsValid(w)
             PROVE  ~reg'[m][j][w].ratQuorum
  BY DEF EmergencyInv
<1>1. j # i \/ w # v
  OBVIOUS
<1>2. reg'[m][j][w] = reg[m][j][w]
  <2>1. reg \in [Honest -> [Iters -> [Votes -> AttestationInfo]]]
    BY DEF VoteTypes
  <2>2. PICK x : reg' = [reg EXCEPT ![n][i][v] = x]
    BY DEF SetStepVotes
  <2> QED
    BY <1>1, <2>1, <2>2
<1> QED
  BY <1>2 DEF EmergencyInv

LEMMA EmergencyStep ==
  ASSUME FaultyBelowMajority, Shape, AttestationInv, EmergencyInv, [Next]_vars
  PROVE  EmergencyInv'
<1>1. VoteTypes
  BY DEF AttestationInv
<1>2. CASE reg' = reg
  BY <1>2 DEF EmergencyInv
<1>3. ASSUME NEW n \in Honest, NEW v \in Votes, NEW p \in Provisioners,
             ReceiveValidation(n, v, p)
      PROVE  EmergencyInv'
  <2>1. /\ iter[n] \in Iters /\ Counts(vAggr[n], iter[n], v, p)
        /\ \E voters, quorum : reg' = SetStepVotes(n, iter[n], v, "validation", voters, quorum)
    BY <1>3 DEF ReceiveValidation, Shape
  <2> QED
    BY <1>1, <2>1, CountedValid DEF Counts
<1>4. ASSUME NEW n \in Honest, NEW v \in Votes, NEW p, NEW local,
             CountRatification(n, v, p, local)
      PROVE  EmergencyInv'
  <2>1. /\ iter[n] \in Iters /\ Counts(rAggr[n], iter[n], v, p)
        /\ \E voters, quorum : reg' = SetStepVotes(n, iter[n], v, "ratification", voters, quorum)
    BY <1>4 DEF CountRatification, Shape
  <2> QED
    BY <1>1, <2>1, CountedValid DEF Counts
<1>5. ASSUME NEW n \in Honest, CastRatification(n)
      PROVE  EmergencyInv'
  <2>1. result[n].vote \in Votes
    BY DEF AttestationInv, VoteTypes, StepVotesSet
  <2>2. CountRatification(n, result[n].vote, n, result[n]) \/ reg' = reg
    BY <1>5 DEF CastRatification
  <2> QED
    BY <1>2, <1>4, <2>1, <2>2
<1>6. ASSUME NEW n \in Honest, NEW v \in Votes, NEW p \in Provisioners,
             ReceiveRatification(n, v, p)
      PROVE  EmergencyInv'
  <2>1. (\E local : CountRatification(n, v, p, local)) \/ reg' = reg
    BY <1>6 DEF ReceiveRatification
  <2> QED
    BY <1>2, <1>4, <2>1
<1>7. ASSUME NEW n \in Honest, NEW i \in Iters, NEW h \in Hashes, NEW p \in Provisioners,
             PastValidation(n, i, h, p) \/ PastRatification(n, i, h, p)
      PROVE  EmergencyInv'
  <2>1. Valid(h) \in Votes /\ IsValid(Valid(h))
    BY VoteFacts
  <2>2. \E s, voters, quorum : reg' = SetStepVotes(n, i, Valid(h), s, voters, quorum)
    BY <1>7 DEF PastValidation, PastRatification, SetStepVotes
  <2> QED
    BY <1>1, <2>1, <2>2, CountedValid
<1>8. ASSUME NEW n \in Honest,
             NEW q \in [iter : Iters, vote : Votes, validation : StepVotesSet,
                        ratification : StepVotesSet],
             ReceiveQuorum(n, q), ~(Emergency(q.iter) /\ ~IsValid(q.vote))
      PROVE  EmergencyInv'
  <2>1. CASE reg' = SetAttestation(n, q)
    <3> SUFFICES ASSUME NEW m \in Honest, NEW j \in Iters, NEW w \in Votes,
                        Emergency(j), ~IsValid(w)
                 PROVE  reg'[m][j][w] = reg[m][j][w]
      BY DEF EmergencyInv
    <3>1. reg \in [Honest -> [Iters -> [Votes -> AttestationInfo]]]
      BY <1>1 DEF VoteTypes
    <3>2. PICK x : reg' = [reg EXCEPT ![n][q.iter][q.vote] = x]
      BY <2>1 DEF SetAttestation
    <3>3. q.iter # j \/ q.vote # w
      BY <1>8
    <3> QED
      BY <3>1, <3>2, <3>3
  <2> QED
    BY <1>2, <1>8, <2>1 DEF ReceiveQuorum
<1>9. ASSUME NEW n \in Honest, NEW q \in quorums, ReceiveQuorum(n, q)
      PROVE  EmergencyInv'
  <2>1. /\ q \in [iter : Iters, vote : Votes, validation : StepVotesSet,
                  ratification : StepVotesSet]
        /\ Emergency(q.iter) => IsValid(q.vote)
    BY DEF AttestationInv, VoteTypes, QuorumInv
  <2> QED
    BY <1>8, <1>9, <2>1
<1>10. ASSUME NEW n \in Honest, NEW i \in Iters, NEW v \in Votes,
              ReceiveQuorum(n, AggregatedQuorum(i, v))
       PROVE  EmergencyInv'
  <2>1. ~(Emergency(i) /\ ~IsValid(v))
    BY <1>10, NoEmergencyFail
  <2>2. AggregatedQuorum(i, v).iter = i /\ AggregatedQuorum(i, v).vote = v
    BY DEF AggregatedQuorum
  <2> QED
    BY <1>8, <1>10, <2>1, <2>2, AggregatedQuorumType
<1>11. ASSUME NEW n \in Honest, Restart(n) PROVE EmergencyInv'
  <2> SUFFICES ASSUME NEW m \in Honest, NEW j \in Iters, NEW w \in Votes,
                      Emergency(j), ~IsValid(w)
               PROVE  ~reg'[m][j][w].ratQuorum
    BY DEF EmergencyInv
  <2>1. reg' = [reg EXCEPT ![n] = NoAtts] /\ reg \in [Honest -> [Iters -> [Votes -> AttestationInfo]]]
    BY <1>1, <1>11 DEF Restart, VoteTypes
  <2>2. ~NoAtts[j][w].ratQuorum
    BY DEF NoAtts
  <2>3. reg'[m] = NoAtts \/ reg'[m] = reg[m]
    BY <2>1
  <2> QED
    BY <2>2, <2>3 DEF EmergencyInv
<1>12. ASSUME NEW n, NEW h, NEW t, NEW i, NEW r,
              \/ Propose(n, h) \/ ReceiveCandidate(n, h) \/ ProposalTimeout(n)
              \/ CastValidation(n, t) \/ ValidationTimeout(n) \/ RatificationTimeout(n)
              \/ PastCandidate(n, i, h) \/ PastValidationQuorum(n, r) \/ LeaveTip(n)
       PROVE  reg' = reg
  BY <1>12 DEF Propose, ReceiveCandidate, ProposalTimeout, CastValidation,
     ValidationTimeout, RatificationTimeout, PastCandidate, PastValidationQuorum, LeaveTip
<1>13. CASE UNCHANGED vars
  BY <1>2, <1>13 DEF vars
<1> QED
  BY <1>2, <1>3, <1>5, <1>6, <1>7, <1>9, <1>10, <1>11, <1>12, <1>13 DEF Next

\* As long as the others have no majority, an emergency iteration never gets a Fail
\* attestation: it can only end with a block.
THEOREM EmergencyEndsWithBlock ==
  ASSUME FaultyBelowMajority PROVE Spec => []EmergencyNeverFails
<1>1. Init => EmergencyInv
  BY DEF Init, EmergencyInv, NoAtts
<1>2. Shape /\ AttestationInv /\ EmergencyInv /\ [Next]_vars => EmergencyInv'
  BY EmergencyStep
<1>3. RoundInv => Shape
  BY DEF RoundInv
<1>4. AttestationInv /\ EmergencyInv => EmergencyNeverFails
  <2> SUFFICES ASSUME AttestationInv, EmergencyInv PROVE EmergencyNeverFails
    OBVIOUS
  <2>1. \A q \in quorums : q.iter >= EmergencyIter => IsValid(q.vote)
    BY DEF AttestationInv, QuorumInv, Emergency
  <2>2. \A n \in Honest, i \in Iters : i >= EmergencyIter => FailAtts(n, i) = {}
    BY DEF EmergencyInv, FailAtts, IsReady, Emergency
  <2> QED
    BY <2>1, <2>2 DEF EmergencyNeverFails
<1> QED
  BY <1>1, <1>2, <1>3, <1>4, RoundInvariant, AttestationInvariant, PTL DEF Spec
=============================================================================
