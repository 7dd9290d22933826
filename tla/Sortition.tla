----------------------------- MODULE Sortition -----------------------------
(***************************************************************************)
(* Deterministic sortition and the committees of one round: the extraction *)
(* of members (consensus/src/user/provisioners.rs, sortition.rs), the      *)
(* committees a consensus task generates as it goes (iteration_ctx.rs), in *)
(* whatever order messages of later iterations make it need them, and the  *)
(* ones a verifier of attestations computes (quorum/verifiers.rs).         *)
(* Provisioners are numbers, in the order of their keys, and a stake is a  *)
(* number of DUSK.                                                         *)
(***************************************************************************)
EXTENDS Naturals, SequencesExt

CONSTANTS
  Seeds,        \* the seeds a round may have
  StakeLists,   \* the lists of provisioners: functions to [value, since]
  MinStake,     \* DEFAULT_MINIMUM_STAKE
  Round,
  VoteCredits,  \* VALIDATION_ and RATIFICATION_COMMITTEE_CREDITS
  MaxIter       \* CONSENSUS_MAX_ITER

Proposal     == 0
Validation   == 1
Ratification == 2
StepNames    == Proposal..Ratification

\* StepName::to_step, a u8
ToStep(iter, name) == (iter * 3 + name) % 256

\* What the constants must satisfy.
SortitionAssumption ==
  /\ MinStake \in Nat \ {0} /\ Round \in Nat /\ VoteCredits \in Nat \ {0}
  /\ MaxIter \in 1..85
  /\ \A list \in StakeLists : \E p \in DOMAIN list : list[p].since <= Round /\ list[p].value >= MinStake

VARIABLES
  seed, list,  \* of the round
  curIter,     \* IterationCtx::iter
  nextIter,    \* the iteration the round loop runs next
  committees   \* RoundCommittees: the committees generated so far, by step

sortVars == <<seed, list, curIter, nextIter, committees>>

-----------------------------------------------------------------------------
(* Extraction *)

Eligibles(provs) == {p \in DOMAIN provs : provs[p].since <= Round /\ provs[p].value >= MinStake}

\* CommitteeGenerator::from_provisioners: nobody is left out when that would
\* leave nobody.
Candidates(provs, exclusion) ==
  IF Eligibles(provs) \ exclusion = {} THEN Eligibles(provs) ELSE Eligibles(provs) \ exclusion

\* A hash of seed, step and counter; only that it is one matters.
SortitionHash(sd, step, counter) == (sd * 31 + step * (17 + sd) + counter * (5 + 2 * sd)) % 97

\* extract_and_subtract_member: the first member, in key order, whose stake the
\* score does not go past.
ExtractMember(weights, score) ==
  Min({p \in DOMAIN weights :
         score <= SumFunctionOnSet(weights, {q \in DOMAIN weights : q <= p})})

\* create_committee: a member for each credit, which costs it 1 DUSK of weight,
\* until the credits are given or no weight is left.  A committee is a function
\* from its members to their credits.
CreateCommittee(provs, step, credits, exclusion) ==
  LET start == [weights |-> [p \in Candidates(provs, exclusion) |-> provs[p].value],
                members |-> [p \in {} |-> 0], over |-> FALSE]
      draw(acc, counter) ==
        LET total == SumFunction(acc.weights)
            p     == ExtractMember(acc.weights, SortitionHash(seed, step, counter) % total)
            taken == IF acc.weights[p] = 0 THEN 0 ELSE 1
            had   == IF p \in DOMAIN acc.members THEN acc.members[p] ELSE 0
        IN IF acc.over THEN acc
           ELSE [weights |-> [acc.weights EXCEPT ![p] = @ - taken],
                 members |-> (p :> had + 1) @@ acc.members,
                 over    |-> total <= taken]
  IN FoldLeft(draw, start, [i \in 1..credits |-> i - 1]).members

CreditsOf(name) == IF name = Proposal THEN 1 ELSE VoteCredits

\* exclude_next_generator
ExcludeNext(iter) == iter < MaxIter - 1

-----------------------------------------------------------------------------
(* The committees of a consensus task *)

CommitteesGenerator(c, iter) == Min(DOMAIN c[ToStep(iter, Proposal)])

\* Mutated form of ConfigStep: the step of the iteration that runs.
StepThatRuns(iter, name) == ToStep(curIter, name)

\* The step of the sortition configuration, which is built for the iteration
\* that runs and then set to the one the committee is for.
ConfigStep(iter, name) == ToStep(iter, name)

\* The generators of this iteration and of the next do not vote.
Exclusion(c, iter) ==
  {CommitteesGenerator(c, iter)}
    \cup (IF ExcludeNext(iter) THEN {CommitteesGenerator(c, iter + 1)} ELSE {})

WithProposal(c, iter) ==
  IF ToStep(iter, Proposal) \in DOMAIN c THEN c
  ELSE (ToStep(iter, Proposal) :> CreateCommittee(list, ConfigStep(iter, Proposal), 1, {})) @@ c

\* generate_committee
GenerateCommittee(c, iter, name) ==
  LET c1 == IF name # Proposal /\ ExcludeNext(iter) THEN WithProposal(c, iter + 1) ELSE c IN
  IF ToStep(iter, name) \in DOMAIN c THEN c
  ELSE IF name = Proposal THEN WithProposal(c, iter)
  ELSE (ToStep(iter, name) :>
          CreateCommittee(list, ConfigStep(iter, name), CreditsOf(name), Exclusion(c1, iter))) @@ c1

\* generate_iteration_committees
GenerateIteration(c, iter) ==
  FoldLeft(LAMBDA acc, name : GenerateCommittee(acc, iter, name), c,
           <<Proposal, Validation, Ratification>>)

-----------------------------------------------------------------------------
(* The committees of a verifier *)

\* Provisioners::get_generator
GetGenerator(iter) == Min(DOMAIN CreateCommittee(list, ToStep(iter, Proposal), 1, {}))

\* get_step_committee, and the start of verify_step_votes
StepCommittee(iter, name) ==
  CreateCommittee(list, ToStep(iter, name), CreditsOf(name),
                  {GetGenerator(iter)} \cup (IF ExcludeNext(iter) THEN {GetGenerator(iter + 1)} ELSE {}))

-----------------------------------------------------------------------------
(* Bitsets of voters *)

MemberAt(c, pos) == SetToSortSeq(DOMAIN c, <)[pos + 1]

\* Committee::bits, as the set of the positions of its ones.
Bits(c, voters) == {pos \in 0..(Cardinality(DOMAIN c) - 1) : MemberAt(c, pos) \in voters}

\* Committee::intersect: the voters, with their credits.
Intersect(c, bits) ==
  [p \in {MemberAt(c, pos) : pos \in bits \cap 0..(Cardinality(DOMAIN c) - 1)} |-> c[p]]

-----------------------------------------------------------------------------
(* spawn_consensus *)

SortInit ==
  /\ seed \in Seeds
  /\ list \in StakeLists
  /\ curIter = 0
  /\ nextIter = 0
  /\ committees = <<>>

\* A task that restarts on its tip generates the committees of the iterations
\* up to the saved one, and goes on after it.
Restore(saved) ==
  /\ committees = <<>>
  /\ committees' = FoldLeft(GenerateIteration, committees, [i \in 1..(saved + 1) |-> i - 1])
  /\ nextIter' = saved + 1
  /\ UNCHANGED <<seed, list, curIter>>

\* on_begin, then the committees of the iteration.  The last one is run again.
BeginIteration ==
  /\ curIter' = nextIter
  /\ nextIter' = IF nextIter = MaxIter - 1 THEN nextIter ELSE nextIter + 1
  /\ committees' = GenerateIteration(committees, nextIter)
  /\ UNCHANGED <<seed, list>>

\* process_inbound_msg of a message of a later iteration of this round.
FutureIteration(iter) ==
  /\ ToStep(curIter, Ratification) \in DOMAIN committees
  /\ iter > curIter
  /\ committees' = GenerateIteration(committees, iter)
  /\ UNCHANGED <<seed, list, curIter, nextIter>>

SortNext ==
  \/ \E saved \in 0..(MaxIter - 2) : Restore(saved)
  \/ BeginIteration
  \/ \E iter \in 0..(MaxIter - 1) : FutureIteration(iter)

SortSpec == SortInit /\ [][SortNext]_sortVars

-----------------------------------------------------------------------------
VotingSteps == {<<iter, name>> \in (0..(MaxIter - 1)) \X {Validation, Ratification} :
                  ToStep(iter, name) \in DOMAIN committees}

\* The committee a node uses to count the votes of a step is the one any node
\* uses to verify their attestation, whatever the order in which messages of
\* other iterations made it generate its committees, and after a restart.
CommitteesAgree ==
  /\ \A v \in VotingSteps : committees[ToStep(v[1], v[2])] = StepCommittee(v[1], v[2])
  /\ \A iter \in 0..(MaxIter - 1) :
       ToStep(iter, Proposal) \in DOMAIN committees
         => CommitteesGenerator(committees, iter) = GetGenerator(iter)

\* The bitset of an attestation gives back exactly the members that voted and
\* their credits, so a verifier counts what the aggregator counted.
BitsetsRoundTrip ==
  \A v \in VotingSteps :
    LET c == committees[ToStep(v[1], v[2])] IN
    \A voters \in SUBSET DOMAIN c :
      Intersect(c, Bits(c, voters)) = [p \in voters |-> c[p]]

\* The verifier of an attestation counts the votes its aggregator counted: both
\* draw the same committees, and the bitset gives back the members that voted.
VerifiersCountAlike == CommitteesAgree /\ BitsetsRoundTrip
=============================================================================
