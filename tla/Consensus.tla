------------------------------ MODULE Consensus ------------------------------
(***************************************************************************)
(* One round of Succinct Attestation (the consensus crate): the iterations *)
(* of Proposal, Validation and Ratification that the consensus task of     *)
(* every honest provisioner runs on top of the same tip, its vote          *)
(* aggregators, its registry of attestations, and what it restores after   *)
(* a restart.                                                              *)
(*                                                                         *)
(* Messages are the sets of everything signed so far: a message may be     *)
(* received late, twice, out of order or never.  The queue of future       *)
(* messages is such a delay.  A provisioner outside Honest runs nothing    *)
(* and may have signed anything.  A message that a handler refuses leaves  *)
(* its state alone, so refusals are guards here.                           *)
(***************************************************************************)
EXTENDS Attestation

CONSTANTS
  Honest,       \* the provisioners that run this code
  MayRevert,    \* those whose tip may be left for a block that is then reverted
  Generator,    \* [iteration -> provisioner]: the Proposal committees
  MaxRestarts,  \* bound: number of restarts of a consensus task
  StopIter      \* bound: a node that is past this iteration stops

ASSUME RoundAssumption ==
  /\ Honest \subseteq Provisioners
  /\ MayRevert \subseteq Honest
  /\ Generator \in [Iters -> Provisioners]
  /\ MaxRestarts \in Nat
  /\ StopIter \in Nat

VARIABLES
  \* signed messages
  candidates,    \* Candidate: [iter, hash], signed by the iteration's generator
  validations,   \* Validation: [iter, vote, signer]
  ratifications, \* Ratification: [iter, vote, signer, vr]
  quorums,       \* Quorum messages honest nodes built
  results,       \* stored ValidationResults, the answers to GetResource
  \* per honest node
  iter, step,    \* the running phase
  open,          \* open_consensus_mode
  tasks,         \* spawned try_votes: [iter, hash]
  result,        \* RatificationHandler.validation_result
  vAggr, rAggr,  \* the two Aggregators: [iteration -> [vote -> voters]]
  reg,           \* AttInfoRegistry: [iteration -> [vote -> attestation info]]
  saved,         \* MD_LAST_ITER for this tip, durable; -1 when it names another
  restarts

msgs  == <<candidates, validations, ratifications, quorums, results>>
phase == <<iter, step, open, tasks>>
vars  == <<msgs, phase, result, vAggr, rAggr, reg, saved, restarts>>

\* "ratify" is the Ratification step before the node has cast its own vote;
\* "stopped", no consensus task for this tip.
StepNames == {"proposal", "validation", "ratify", "ratification", "stopped"}

\* The provisioners whose votes the properties can rely on.
Steady == Honest \ MayRevert

StepVotesSet == [vote : Votes, voters : SUBSET Provisioners]

AttestationInfo == [val : SUBSET Provisioners, valQuorum : BOOLEAN,
                    rat : SUBSET Provisioners, ratQuorum : BOOLEAN]

TypeOK ==
  /\ candidates \subseteq [iter : Iters, hash : Hashes]
  /\ validations \subseteq [iter : Iters, vote : Votes, signer : Honest]
  /\ ratifications \subseteq
       [iter : Iters, vote : Votes, signer : Honest, vr : StepVotesSet]
  /\ quorums \subseteq [iter : Iters, vote : Votes, validation : StepVotesSet,
                        ratification : StepVotesSet]
  /\ results \subseteq [iter : Iters, sv : StepVotesSet]
  /\ iter \in [Honest -> Iters]
  /\ step \in [Honest -> StepNames]
  /\ open \in [Honest -> BOOLEAN]
  /\ tasks \in [Honest -> SUBSET [iter : Iters, hash : Hashes \cup {NoHash}]]
  /\ result \in [Honest -> StepVotesSet]
  /\ vAggr \in [Honest -> [Iters -> [Votes -> SUBSET Provisioners]]]
  /\ rAggr \in [Honest -> [Iters -> [Votes -> SUBSET Provisioners]]]
  /\ reg \in [Honest -> [Iters -> [Votes -> AttestationInfo]]]
  /\ saved \in [Honest -> Iters \cup {-1}]
  /\ restarts \in 0..MaxRestarts

NoVoters == [i \in Iters |-> [v \in Votes |-> {}]]

NoAtts ==
  [i \in Iters |-> [v \in Votes |->
     [val |-> {}, valQuorum |-> FALSE, rat |-> {}, ratQuorum |-> FALSE]]]

\* Every node enters iteration 0 and saves it.
Init ==
  /\ candidates = {} /\ validations = {} /\ ratifications = {}
  /\ quorums = {} /\ results = {}
  /\ iter = [n \in Honest |-> 0]
  /\ step = [n \in Honest |-> "proposal"]
  /\ open = [n \in Honest |-> FALSE]
  /\ tasks = [n \in Honest |-> {}]
  /\ result = [n \in Honest |-> NoStepVotes]
  /\ vAggr = [n \in Honest |-> NoVoters]
  /\ rAggr = [n \in Honest |-> NoVoters]
  /\ reg = [n \in Honest |-> NoAtts]
  /\ saved = [n \in Honest |-> 0]
  /\ restarts = 0

-----------------------------------------------------------------------------
(* What can be received *)

Active(n) == iter[n] <= StopIter /\ step[n] # "stopped"

ValidationVoters(i, vote) ==
  {p \in Provisioners : /\ IsMember(p, i, "validation")
                        /\ p \in Honest =>
                             [iter |-> i, vote |-> vote, signer |-> p] \in validations}

RatificationVoters(i, vote) ==
  {p \in Provisioners : /\ IsMember(p, i, "ratification")
                        /\ p \in Honest =>
                             \E m \in ratifications :
                               m.iter = i /\ m.vote = vote /\ m.signer = p}

CandidateSent(i, h) ==
  Generator[i] \in Honest => [iter |-> i, hash |-> h] \in candidates

\* The validation results that p's ratification votes carry.
RatificationResults(i, vote, p) ==
  IF p \in Honest
  THEN {m.vr : m \in {x \in ratifications :
                        x.iter = i /\ x.vote = vote /\ x.signer = p}}
  ELSE {StepVotes(vote, IF vote = NoQuorum THEN {} ELSE ValidationVoters(i, vote))}

\* A Quorum message that anybody may aggregate from the signed votes.
AggregatedQuorum(i, vote) ==
  [iter |-> i, vote |-> vote,
   validation |-> StepVotes(vote, IF vote = NoQuorum THEN {}
                                  ELSE ValidationVoters(i, vote)),
   ratification |-> StepVotes(vote, RatificationVoters(i, vote))]

-----------------------------------------------------------------------------
(* Aggregator and AttInfoRegistry *)

\* collect_vote adds the vote; otherwise it is a duplicate, conflicts with an
\* earlier one, or is not Valid in an emergency iteration.
Counts(aggr, i, vote, p) ==
  /\ ~(Emergency(i) /\ ~IsValid(vote))
  /\ p \notin aggr[i][vote]
  /\ ~Emergency(i) => \A w \in Votes : p \notin aggr[i][w]

\* set_sv: a quorum flag, once set, stays.
SetSv(info, s, voters, quorum) ==
  IF s = "validation"
  THEN [info EXCEPT !.val = voters, !.valQuorum = @ \/ quorum]
  ELSE [info EXCEPT !.rat = voters, !.ratQuorum = @ \/ quorum]

SetStepVotes(n, i, vote, s, voters, quorum) ==
  [reg EXCEPT ![n][i][vote] = SetSv(@, s, voters, quorum)]

\* Mutated form of IsReady: the validation quorum is not asked for.
IsReadyRatified(vote, info) == info.ratQuorum

IsReady(vote, info) ==
  /\ info.ratQuorum
  /\ vote # NoQuorum => info.valQuorum

\* get_fail_att: the Fail votes with a complete attestation.
FailAtts(n, i) == {v \in Votes : ~IsValid(v) /\ IsReady(v, reg[n][i][v])}

\* set_attestation, from a verified Quorum message.
SetAttestation(n, q) ==
  [reg EXCEPT ![n][q.iter][q.vote] =
     SetSv(SetSv(@, "validation", q.validation.voters, q.vote # NoQuorum),
           "ratification", q.ratification.voters, TRUE)]

-----------------------------------------------------------------------------
(* The round loop *)

\* The end of an iteration and the start of the next.  on_close aborts the
\* voting tasks, but a task that is past its last await still casts its vote.
\* The last iteration is repeated, its tasks kept.
NextIteration(n) ==
  /\ step' = [step EXCEPT ![n] = "proposal"]
  /\ \/ /\ iter[n] < MaxIter - 1
        /\ iter' = [iter EXCEPT ![n] = @ + 1]
        /\ \E late \in SUBSET tasks[n] : tasks' = [tasks EXCEPT ![n] = late]
     \/ /\ iter[n] >= MaxIter - 1
        /\ UNCHANGED <<iter, tasks>>
  /\ saved' = [saved EXCEPT ![n] = iter'[n]]

\* The Validation step starts: a member spawns its vote, unless there is no
\* candidate in an emergency iteration.
StartValidation(n, h) ==
  /\ step' = [step EXCEPT ![n] = "validation"]
  /\ tasks' = [tasks EXCEPT ![n] =
       IF IsMember(n, iter[n], "validation") /\ (h # NoHash \/ ~Emergency(iter[n]))
       THEN @ \cup {[iter |-> iter[n], hash |-> h]} ELSE @]

\* The Ratification step starts with the outcome of the Validation step.
StartRatification(n, vr) ==
  /\ step' = [step EXCEPT ![n] = "ratify"]
  /\ result' = [result EXCEPT ![n] = vr]

\* Mutated form of RestoredIter: the saved iteration is resumed.
SameIter(n) ==
  IF saved[n] = -1 THEN 0
  ELSE IF saved[n] > EmergencyIter THEN EmergencyIter ELSE saved[n]

\* The iteration a new consensus task starts from.
RestoredIter(n) ==
  IF saved[n] = -1 THEN 0
  ELSE (IF saved[n] > EmergencyIter THEN EmergencyIter ELSE saved[n]) + 1

\* The task is aborted (crash, or restart_consensus on the same tip) and
\* spawned again: aggregators and registry start empty.
Restart(n) ==
  /\ iter[n] <= StopIter
  /\ restarts < MaxRestarts
  /\ restarts' = restarts + 1
  /\ iter' = [iter EXCEPT ![n] = RestoredIter(n)]
  /\ saved' = [saved EXCEPT ![n] = RestoredIter(n)]
  /\ step' = [step EXCEPT ![n] = "proposal"]
  /\ open' = [open EXCEPT ![n] = FALSE]
  /\ \E late \in SUBSET tasks[n] : tasks' = [tasks EXCEPT ![n] = late]
  /\ result' = [result EXCEPT ![n] = NoStepVotes]
  /\ vAggr' = [vAggr EXCEPT ![n] = NoVoters]
  /\ rAggr' = [rAggr EXCEPT ![n] = NoVoters]
  /\ reg' = [reg EXCEPT ![n] = NoAtts]
  /\ UNCHANGED msgs

\* n accepts a block on top of the tip and saves the first iteration of the
\* round after it.  If that block is reverted, a Restart brings n back.
LeaveTip(n) ==
  /\ Active(n)
  /\ n \in MayRevert
  /\ saved' = [saved EXCEPT ![n] = -1]
  /\ step' = [step EXCEPT ![n] = "stopped"]
  /\ \E late \in SUBSET tasks[n] : tasks' = [tasks EXCEPT ![n] = late]
  /\ UNCHANGED <<msgs, iter, open, result, vAggr, rAggr, reg, restarts>>

-----------------------------------------------------------------------------
(* Proposal *)

\* The generator publishes a candidate and collects it itself.
Propose(n, h) ==
  /\ Active(n)
  /\ step[n] = "proposal"
  /\ n = Generator[iter[n]]
  /\ candidates' = candidates \cup {[iter |-> iter[n], hash |-> h]}
  /\ StartValidation(n, h)
  /\ UNCHANGED <<validations, ratifications, quorums, results, iter, open,
                 result, vAggr, rAggr, reg, saved, restarts>>

ReceiveCandidate(n, h) ==
  /\ Active(n)
  /\ step[n] = "proposal"
  /\ CandidateSent(iter[n], h)
  /\ StartValidation(n, h)
  /\ UNCHANGED <<msgs, iter, open, result, vAggr, rAggr, reg, saved, restarts>>

ProposalTimeout(n) ==
  /\ Active(n)
  /\ step[n] = "proposal"
  /\ StartValidation(n, NoHash)
  /\ UNCHANGED <<msgs, iter, open, result, vAggr, rAggr, reg, saved, restarts>>

-----------------------------------------------------------------------------
(* Validation *)

\* The votes try_vote may come to; must_vote FALSE means none.
PossibleVotes(h) == IF h = NoHash THEN {NoCandidate} ELSE {Valid(h), Invalid(h)}

\* try_vote ends.  In an emergency iteration only a Valid vote is published.
CastValidation(n, t) ==
  /\ t \in tasks[n]
  /\ tasks' = [tasks EXCEPT ![n] = @ \ {t}]
  /\ \/ \E v \in PossibleVotes(t.hash) :
          /\ IsValid(v) \/ ~Emergency(t.iter)
          /\ validations' = validations \cup
                              {[iter |-> t.iter, vote |-> v, signer |-> n]}
     \/ t.hash # NoHash /\ UNCHANGED validations
  /\ UNCHANGED <<candidates, ratifications, quorums, results, iter, step, open,
                 result, vAggr, rAggr, reg, saved, restarts>>

\* ValidationHandler::collect of p's vote: a quorum ends the step.
ReceiveValidation(n, vote, p) ==
  LET i == iter[n]
      voters == vAggr[n][i][vote] \cup {p}
      quorum == QuorumReached(i, "validation", vote, voters) IN
  /\ Active(n)
  /\ step[n] = "validation"
  /\ vote # NoQuorum
  /\ p \in ValidationVoters(i, vote)
  /\ Counts(vAggr[n], i, vote, p)
  /\ vAggr' = [vAggr EXCEPT ![n][i][vote] = voters]
  /\ reg' = SetStepVotes(n, i, vote, "validation", voters, quorum)
  /\ \/ /\ quorum
        /\ StartRatification(n, StepVotes(vote, voters))
        /\ results' = IF Emergency(i)
                      THEN results \cup {[iter |-> i, sv |-> StepVotes(vote, voters)]}
                      ELSE results
     \/ ~quorum /\ UNCHANGED <<step, result, results>>
  /\ UNCHANGED <<candidates, validations, ratifications, quorums, iter, open,
                 tasks, rAggr, saved, restarts>>

ValidationTimeout(n) ==
  /\ Active(n)
  /\ step[n] = "validation"
  /\ StartRatification(n, NoStepVotes)
  /\ UNCHANGED <<msgs, iter, open, tasks, vAggr, rAggr, reg, saved, restarts>>

-----------------------------------------------------------------------------
(* Ratification *)

\* Mutated form of AdoptedResults: the local result is never replaced.
AdoptedNever(i, local, vr) == {local}

\* RatificationHandler::collect compares the result in p's vote with the local
\* one: the result the handler goes on with, or none if the vote is refused.
AdoptedResults(i, local, vr) ==
  IF vr.vote \in {NoQuorum, local.vote} THEN {local}
  ELSE {x \in {vr} : /\ local.vote = NoQuorum \/ Emergency(i)
                     /\ VerifyVotes(i, "validation", vr.vote, vr)}

\* The vote is counted with local as validation result: a quorum is published
\* and ends the iteration.  In open consensus mode the step goes on, and what
\* is sent is the vote that completed the quorum.
CountRatification(n, vote, p, local) ==
  LET i == iter[n]
      voters == rAggr[n][i][vote] \cup {p}
      quorum == QuorumReached(i, "ratification", vote, voters) IN
  /\ Counts(rAggr[n], i, vote, p)
  /\ rAggr' = [rAggr EXCEPT ![n][i][vote] = voters]
  /\ reg' = SetStepVotes(n, i, vote, "ratification", voters, quorum)
  /\ result' = [result EXCEPT ![n] = local]
  /\ \/ /\ quorum /\ ~open[n]
        /\ quorums' = quorums \cup
             {[iter |-> i, vote |-> vote, validation |-> local,
               ratification |-> StepVotes(vote, voters)]}
        /\ NextIteration(n)
     \/ /\ ~quorum \/ open[n]
        /\ step' = [step EXCEPT ![n] = "ratification"]
        /\ UNCHANGED <<quorums, iter, tasks, saved>>

\* A committee member casts its own vote, the validation result, and counts it;
\* in an emergency iteration only a Valid one.
CastRatification(n) ==
  LET i == iter[n] IN
  /\ Active(n)
  /\ step[n] = "ratify"
  /\ \/ /\ IsMember(n, i, "ratification")
        /\ IsValid(result[n].vote) \/ ~Emergency(i)
        /\ ratifications' = ratifications \cup
             {[iter |-> i, vote |-> result[n].vote, signer |-> n, vr |-> result[n]]}
        /\ \/ CountRatification(n, result[n].vote, n, result[n])
           \/ /\ ~Counts(rAggr[n], i, result[n].vote, n)
              /\ step' = [step EXCEPT ![n] = "ratification"]
              /\ UNCHANGED <<quorums, iter, tasks, saved, result, rAggr, reg>>
     \/ /\ ~IsMember(n, i, "ratification") \/ (Emergency(i) /\ ~IsValid(result[n].vote))
        /\ step' = [step EXCEPT ![n] = "ratification"]
        /\ UNCHANGED <<ratifications, quorums, iter, tasks, saved, result, rAggr, reg>>
  /\ UNCHANGED <<candidates, validations, results, open, vAggr, restarts>>

\* A vote that is not counted (a conflicting one, or a Fail vote in an emergency
\* iteration) may still replace the local result.
ReceiveRatification(n, vote, p) ==
  LET i == iter[n] IN
  /\ Active(n)
  /\ step[n] = "ratification"
  /\ IsMember(p, i, "ratification")
  /\ p \notin rAggr[n][i][vote]
  /\ \E vr \in RatificationResults(i, vote, p) :
       \E local \in AdoptedResults(i, result[n], vr) :
         \/ CountRatification(n, vote, p, local)
         \/ /\ ~Counts(rAggr[n], i, vote, p)
            /\ local # result[n]
            /\ result' = [result EXCEPT ![n] = local]
            /\ UNCHANGED <<quorums, iter, step, tasks, saved, rAggr, reg>>
  /\ UNCHANGED <<candidates, validations, ratifications, results, open, vAggr, restarts>>

\* The last step of the last iteration enters open consensus mode.
RatificationTimeout(n) ==
  /\ Active(n)
  /\ step[n] = "ratification"
  /\ ~open[n]
  /\ \/ /\ iter[n] = MaxIter - 1
        /\ open' = [open EXCEPT ![n] = TRUE]
        /\ UNCHANGED <<iter, step, tasks, saved>>
     \/ /\ iter[n] # MaxIter - 1
        /\ NextIteration(n)
        /\ UNCHANGED open
  /\ UNCHANGED <<msgs, result, vAggr, rAggr, reg, restarts>>

-----------------------------------------------------------------------------
(* Quorum messages from the network *)

\* reroute_msg verifies the attestation; the event loop stores a new Fail
\* attestation and ends the iteration if the Quorum is for the current one.
ReceiveQuorum(n, q) ==
  LET new == ~IsValid(q.vote) /\ FailAtts(n, q.iter) = {} IN
  /\ Active(n)
  /\ step[n] # "ratify"
  /\ ~open[n]
  /\ q.iter <= iter[n]
  /\ VerifyAtt(q.iter, q.vote, q.validation, q.ratification)
  /\ new \/ q.iter = iter[n]
  /\ reg' = IF new THEN SetAttestation(n, q) ELSE reg
  /\ \/ q.iter = iter[n] /\ NextIteration(n)
     \/ q.iter # iter[n] /\ UNCHANGED <<iter, step, tasks, saved>>
  /\ UNCHANGED <<msgs, open, result, vAggr, rAggr, restarts>>

-----------------------------------------------------------------------------
(* Messages from earlier steps, handled in emergency iterations only *)

\* A step of iteration i is over for n.
IsPast(n, i, s) ==
  \/ i < iter[n]
  \/ i = iter[n] /\ s = "proposal" /\ step[n] # "proposal"
  \/ i = iter[n] /\ s = "validation" /\ step[n] = "ratification"

\* try_cast_validation_vote
PastCandidate(n, i, h) ==
  /\ Active(n)
  /\ Emergency(i)
  /\ step[n] # "ratify"
  /\ IsPast(n, i, "proposal")
  /\ CandidateSent(i, h)
  /\ IsMember(n, i, "validation")
  /\ validations' = validations \cup {[iter |-> i, vote |-> Valid(h), signer |-> n]}
  /\ UNCHANGED <<candidates, ratifications, quorums, results, phase, result,
                 vAggr, rAggr, reg, saved, restarts>>

\* try_cast_ratification_vote
RatifiedLate(n, i, sv) ==
  IF IsMember(n, i, "ratification")
  THEN ratifications \cup {[iter |-> i, vote |-> sv.vote, signer |-> n, vr |-> sv]}
  ELSE ratifications

\* ValidationHandler::collect_from_past of a vote
PastValidation(n, i, h, p) ==
  LET vote == Valid(h)
      voters == vAggr[n][i][vote] \cup {p}
      quorum == QuorumReached(i, "validation", vote, voters)
      sv == StepVotes(vote, voters) IN
  /\ Active(n)
  /\ Emergency(i)
  /\ step[n] # "ratify"
  /\ IsPast(n, i, "validation")
  /\ p \in ValidationVoters(i, vote)
  /\ Counts(vAggr[n], i, vote, p)
  /\ vAggr' = [vAggr EXCEPT ![n][i][vote] = voters]
  /\ reg' = SetStepVotes(n, i, vote, "validation", voters, quorum)
  /\ results' = IF quorum THEN results \cup {[iter |-> i, sv |-> sv]} ELSE results
  /\ ratifications' = IF quorum THEN RatifiedLate(n, i, sv) ELSE ratifications
  /\ UNCHANGED <<candidates, validations, quorums, phase, result, rAggr, saved, restarts>>

\* ValidationHandler::collect_from_past of a ValidationQuorum, a stored result
\* that a peer sends on request
PastValidationQuorum(n, r) ==
  /\ Active(n)
  /\ Emergency(r.iter)
  /\ step[n] # "ratify"
  /\ IsPast(n, r.iter, "proposal")
  /\ IsValid(r.sv.vote)
  /\ VerifyVotes(r.iter, "validation", r.sv.vote, r.sv)
  /\ results' = results \cup {r}
  /\ ratifications' = RatifiedLate(n, r.iter, r.sv)
  /\ UNCHANGED <<candidates, validations, quorums, phase, result, vAggr, rAggr,
                 reg, saved, restarts>>

\* RatificationHandler::collect_from_past: a complete attestation in the
\* registry is published.
PastRatification(n, i, h, p) ==
  LET vote == Valid(h)
      voters == rAggr[n][i][vote] \cup {p}
      info == SetSv(reg[n][i][vote], "ratification", voters,
                    QuorumReached(i, "ratification", vote, voters)) IN
  /\ Active(n)
  /\ Emergency(i)
  /\ step[n] # "ratify"
  /\ i < iter[n]
  /\ p \in RatificationVoters(i, vote)
  /\ Counts(rAggr[n], i, vote, p)
  /\ rAggr' = [rAggr EXCEPT ![n][i][vote] = voters]
  /\ reg' = [reg EXCEPT ![n][i][vote] = info]
  /\ quorums' = IF IsReady(vote, info)
                THEN quorums \cup
                       {[iter |-> i, vote |-> vote,
                         validation |-> StepVotes(vote, info.val),
                         ratification |-> StepVotes(vote, info.rat)]}
                ELSE quorums
  /\ UNCHANGED <<candidates, validations, ratifications, results, phase, result,
                 vAggr, saved, restarts>>

Next ==
  \E n \in Honest :
    \/ \E h \in Hashes : Propose(n, h)
    \/ \E h \in Hashes : ReceiveCandidate(n, h)
    \/ ProposalTimeout(n)
    \/ \E t \in tasks[n] : CastValidation(n, t)
    \/ \E v \in Votes, p \in Provisioners : ReceiveValidation(n, v, p)
    \/ ValidationTimeout(n)
    \/ CastRatification(n)
    \/ \E v \in Votes, p \in Provisioners : ReceiveRatification(n, v, p)
    \/ RatificationTimeout(n)
    \/ \E q \in quorums : ReceiveQuorum(n, q)
    \/ \E i \in Iters, v \in Votes : ReceiveQuorum(n, AggregatedQuorum(i, v))
    \/ \E i \in Iters, h \in Hashes : PastCandidate(n, i, h)
    \/ \E i \in Iters, h \in Hashes, p \in Provisioners : PastValidation(n, i, h, p)
    \/ \E r \in results : PastValidationQuorum(n, r)
    \/ \E i \in Iters, h \in Hashes, p \in Provisioners : PastRatification(n, i, h, p)
    \/ Restart(n)
    \/ LeaveTip(n)

Spec == Init /\ [][Next]_vars

-----------------------------------------------------------------------------
(* Properties *)

\* An honest provisioner never produces the evidence of a Fault (two candidates,
\* two validation votes or two ratification votes of one iteration), through
\* timeouts, late tasks and restarts, as long as the round's tip is not reverted
\* to.  verify_faults refuses emergency iterations, where voting again is part
\* of the protocol.
HonestNotSlashable ==
  /\ \A m1, m2 \in candidates :
       (/\ m1.iter = m2.iter
        /\ Generator[m1.iter] \in Steady
        /\ ~Emergency(m1.iter)) => m1.hash = m2.hash
  /\ \A m1, m2 \in validations :
       (/\ m1.iter = m2.iter
        /\ m1.signer = m2.signer /\ m1.signer \in Steady
        /\ ~Emergency(m1.iter)) => m1.vote = m2.vote
  /\ \A m1, m2 \in ratifications :
       (/\ m1.iter = m2.iter
        /\ m1.signer = m2.signer /\ m1.signer \in Steady
        /\ ~Emergency(m1.iter)) => m1.vote = m2.vote

\* The credits of the provisioners that are not steady are fewer than those two
\* quorums of different kinds must share: 33 + 43 - 64 = 12 in the code.
FewFaulty ==
  \A i \in Iters :
    Credits(i, "ratification", Provisioners \ Steady) + Cardinality(Slots)
      < majority + supermajority

\* The provisioners that do not run this code have no majority of an emergency
\* iteration's committee.
FaultyBelowMajority ==
  \A i \in Iters : Emergency(i) =>
    ~(Credits(i, "ratification", Provisioners \ Honest) >= majority)

\* While few are faulty, no normal iteration can have both a Success and a Fail
\* attestation, whatever the faulty ones sign: a block that carries the Fail
\* attestations of all earlier iterations (PNI = 0, label Attested) has no rival
\* among them.
AttestationsExclusive ==
  FewFaulty =>
    \A i \in Iters, v, w \in Votes :
      ~ /\ ~Emergency(i)
        /\ IsValid(v) /\ ~IsValid(w)
        /\ QuorumReached(i, "ratification", v, RatificationVoters(i, v))
        /\ QuorumReached(i, "ratification", w, RatificationVoters(i, w))

\* A Success Quorum an honest node publishes passes verify_att at every peer,
\* also when the validation result came from a peer, or in a past iteration
\* from the registry.
SuccessQuorumsVerify ==
  \A q \in quorums : IsValid(q.vote) =>
    VerifyAtt(q.iter, q.vote, q.validation, q.ratification)

\* Every attestation the registry gives to the block generator passes
\* verify_failed_iterations, although set_sv replaces votes and keeps flags.
FailAttsVerify ==
  \A n \in Honest, i \in Iters : \A v \in FailAtts(n, i) :
    VerifyAtt(i, v, StepVotes(v, reg[n][i][v].val), StepVotes(v, reg[n][i][v].rat))

\* No Fail attestation is ever built for an emergency iteration, so that such an
\* iteration can only end with a block.
EmergencyNeverFails ==
  /\ \A q \in quorums : q.iter >= EmergencyIter => IsValid(q.vote)
  /\ \A n \in Honest, i \in Iters : i >= EmergencyIter => FailAtts(n, i) = {}

\* Every Quorum message an honest node publishes passes verify_att.
QuorumsCoherent ==
  \A q \in quorums : VerifyAtt(q.iter, q.vote, q.validation, q.ratification)

\* In open consensus mode a node that holds a quorum of Valid ratification votes
\* has broadcast the Success Quorum.
OpenModeBroadcasts ==
  \A n \in Honest, h \in Hashes :
    (open[n] /\ QuorumReached(iter[n], "ratification", Valid(h),
                              rAggr[n][iter[n]][Valid(h)])) =>
      \E q \in quorums : q.iter = iter[n] /\ q.vote = Valid(h)
=============================================================================
