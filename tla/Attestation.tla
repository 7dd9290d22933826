----------------------------- MODULE Attestation -----------------------------
(***************************************************************************)
(* Committees, votes, quorums and the verification of attestations, shared *)
(* by the consensus task, which builds them, and by the acceptor, which    *)
(* verifies them.  A committee is a function from its 64 credits (slots)   *)
(* to provisioners; sortition, which draws it, is external to this module. *)
(***************************************************************************)
EXTENDS Integers, FiniteSets

CONSTANTS
  Provisioners,   \* the eligible provisioners of the round
  Slots,          \* the credits of a voting committee
  Hashes,         \* the candidate blocks the round may see
  NoHash,         \* "no candidate"
  MaxIter,        \* CONSENSUS_MAX_ITER
  EmergencyIter,  \* EMERGENCY_MODE_ITERATION_THRESHOLD
  Committee       \* [iteration -> [step -> [slot -> provisioner]]]

Iters == 0..(MaxIter - 1)

VotingSteps == {"validation", "ratification"}

ASSUME CommitteeAssumption ==
  /\ IsFiniteSet(Slots)
  /\ NoHash \notin Hashes
  /\ MaxIter \in Nat
  /\ EmergencyIter \in Nat
  /\ EmergencyIter + 1 < MaxIter
  /\ Committee \in [Iters -> [VotingSteps -> [Slots -> Provisioners]]]

\* Mutated form of Emergency: the threshold itself is left out.
EmergencyAfter(i) == i > EmergencyIter

\* is_emergency_iter
Emergency(i) == i >= EmergencyIter

Valid(h)    == <<"Valid", h>>
Invalid(h)  == <<"Invalid", h>>
NoCandidate == <<"NoCandidate", NoHash>>
NoQuorum    == <<"NoQuorum", NoHash>>

IsValid(vote) == vote[1] = "Valid"

Votes == {Valid(h) : h \in Hashes} \cup {Invalid(h) : h \in Hashes}
           \cup {NoCandidate, NoQuorum}

IsMember(p, i, step) == \E s \in Slots : Committee[i][step][s] = p

\* total_occurrences: the credits of a set of voters.
Credits(i, step, voters) ==
  Cardinality({s \in Slots : Committee[i][step][s] \in voters})

majority == Cardinality(Slots) \div 2 + 1

\* value / 3 * 2, rounded up.
supermajority == (2 * Cardinality(Slots) + 2) \div 3

\* Mutated form of TargetQuorum: every vote needs a majority.
TargetMajority(vote) == majority

TargetQuorum(vote) == IF IsValid(vote) THEN supermajority ELSE majority

QuorumReached(i, step, vote, voters) ==
  Credits(i, step, voters) >= TargetQuorum(vote)

\* StepVotes: the aggregated signature of some voters, over one vote.
StepVotes(vote, voters) == [vote |-> vote, voters |-> voters]

NoStepVotes == StepVotes(NoQuorum, {})

\* verify_votes: a quorum, unless it is the validation part of a NoQuorum
\* attestation; and a signature over that vote, unless the bitset is 0.
VerifyVotes(i, step, vote, sv) ==
  /\ \/ step = "validation" /\ vote = NoQuorum
     \/ QuorumReached(i, step, vote, sv.voters)
  /\ sv.voters # {} => sv.vote = vote

\* verify_att, for an expected result that is checked by the caller.
VerifyAtt(i, vote, validation, ratification) ==
  /\ VerifyVotes(i, "validation", vote, validation)
  /\ VerifyVotes(i, "ratification", vote, ratification)
=============================================================================
