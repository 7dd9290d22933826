----------------------------- MODULE RoundTime -----------------------------
(***************************************************************************)
(* The clock of one round on one node: the step timers with their adaptive *)
(* timeouts, the minimum-block-time slot, the timestamps of candidates and *)
(* of Emergency Blocks, and the header checks that read the clock and count *)
(* failed iterations.  Time is in whole seconds of the node's own clock,   *)
(* shifted so that the tip's timestamp is always Base.  Timers fire on     *)
(* time: the work done inside a step takes less than its deadline leaves.  *)
(***************************************************************************)
EXTENDS Integers, Sequences, FiniteSets, FiniteSetsExt

CONSTANTS
  MinStepTimeout, MaxStepTimeout, TimeoutIncrease,
  MaxIters,       \* CONSENSUS_MAX_ITER
  Relax,          \* RELAX_ITERATION_THRESHOLD
  MinBlockTime,   \* MINIMUM_BLOCK_TIME
  Margin,         \* MARGIN_TIMESTAMP, also the largest skew of honest clocks
  AvgValues,      \* AVG_VALUES_NUM
  Skews,          \* how far the clocks of honest generators are ahead
  MaxRounds       \* bound: rounds, and further runs of their last iteration,
                  \* a behaviour plays

\* The slot of the next block opens within one iteration, and honest clocks
\* differ by no more than the margin the header check allows, which is shorter
\* than the longest step.
RoundTimeAssumption ==
  /\ {MinStepTimeout, MaxStepTimeout, TimeoutIncrease, MaxIters, AvgValues} \subseteq Nat \ {0}
  /\ {Relax, MinBlockTime, Margin} \subseteq Nat
  /\ MinStepTimeout <= MaxStepTimeout
  /\ MinBlockTime <= 3 * MaxStepTimeout
  /\ Margin < MaxStepTimeout
  /\ MaxIters < 255
  /\ Skews \subseteq -Margin .. Margin

VARIABLES
  now,       \* local clock, tip timestamp = Base
  curIter, at, \* iteration, and the step that runs ("slot" waits for the slot,
               \* "quorum" for the end of an iteration that has its Quorum)
  began,     \* when the step began
  deadline,  \* of the running event loop
  timeouts,  \* TimeoutSet of the round
  metrics,   \* the stored AverageElapsedTime of each step, None at first
  cands,     \* candidate known for each iteration
  votes,     \* the validation vote cast for each iteration
  fails,     \* iterations with a Fail attestation
  late,      \* the round began later than one iteration after the tip
  again,     \* a Quorum ended the last iteration, which then runs again
  earlier,   \* candidates of its earlier runs
  rounds

timeVars == <<now, curIter, at, began, deadline, timeouts, metrics, cands, votes, fails, late,
              again, earlier, rounds>>

None == <<>>   \* no candidate, no stored average
Steps == {"proposal", "validation", "ratification"}
TimeIters == 0 .. MaxIters - 1
EmergencyBlockIter == 255
Base == Margin
Slot == Base + MinBlockTime

\* The time of every iteration of a round, plus the tip's own iteration.
MinEmergencyBlockTime == (MaxIters + 1) * (MaxStepTimeout * 3)

-----------------------------------------------------------------------------
(* Timeouts *)

PushBack(q, v) == IF Len(q) = AvgValues THEN Append(Tail(q), v) ELSE Append(q, v)

\* Sums(q)[k] is the sum of the first k elements.
Sums(q) == LET up[k \in 0 .. Len(q)] == IF k = 0 THEN 0 ELSE up[k - 1] + q[k] IN up

\* A fraction of a second rounds up.
Average(q) == (Sums(q)[Len(q)] + Len(q) - 1) \div Len(q)

\* Mutated form of ReadAvgTimeout: the average is taken as it is above the minimum.
ReadAvgUncapped(m) == Max({MinStepTimeout, IF m = None THEN MaxStepTimeout ELSE Average(m)})

ReadAvgTimeout(m) ==
  LET avg == IF m = None THEN MaxStepTimeout ELSE Average(m)
  IN Min({MaxStepTimeout, Max({MinStepTimeout, avg})})

AdjustBaseTimeouts == [s \in Steps |-> ReadAvgTimeout(metrics[s])]

OnTimeout(s) ==
  timeouts' = [timeouts EXCEPT ![s] = Min({MaxStepTimeout, @ + TimeoutIncrease})]

Elapsed(s) == [metrics EXCEPT ![s] = PushBack(@, now - began)]

\* The averages left behind in the last round a behaviour plays are read by no other.
Kept(m, n) == IF n = MaxRounds THEN [s \in Steps |-> None] ELSE m

ReportElapsed(s) == metrics' = Kept(Elapsed(s), rounds)

NextSlotIn == IF now >= Slot THEN 0 ELSE Slot - now

-----------------------------------------------------------------------------
(* Headers *)

\* A generator whose clock differs by `skew` signs max(tip + minimum, its time).
Timestamp(skew) == Max({Slot, now + skew})

\* get_failed_atts: the Fail attestations the generator knows, below `to`.
GetFailedAtts(known, to) == {j \in known : j < to}

Candidate(i, skew, known) ==
  [iter |-> i, ts |-> Timestamp(skew), failed |-> GetFailedAtts(known, Min({Relax, i}))]

IsEmergencyBlock(h) == h.iter = EmergencyBlockIter

TimeCheck(h) ==
  IF h.ts < Slot \/ (IsEmergencyBlock(h) /\ h.ts < Base + MinEmergencyBlockTime)
  THEN "BlockTimeLess"
  ELSE IF h.ts > now + Margin THEN "BlockTimeHigher" ELSE "Ok"

FailedCheck(h) ==
  IF \E j \in h.failed : j >= Relax \/ j \notin fails THEN "InvalidFailedIterations" ELSE "Ok"

ExecuteChecks(h) == IF TimeCheck(h) # "Ok" THEN TimeCheck(h) ELSE FailedCheck(h)

\* Previous Non-Attested Iterations, a subtraction of u8.
Pni(h) == (Min({h.iter, MaxIters}) - Cardinality(h.failed)) % 256

MustVote(e) == e \in {"BlockTimeLess", "InvalidFailedIterations"}

\* try_vote, up to the state transition: an error that must not be voted is silent.
TryVote(i, c) ==
  votes' = [votes EXCEPT ![i] =
    IF c = None THEN "NoCandidate"
    ELSE IF ExecuteChecks(c) = "Ok" THEN "Valid"
    ELSE IF MustVote(ExecuteChecks(c)) THEN "Invalid" ELSE "Silent"]

-----------------------------------------------------------------------------
(* Steps *)

\* The event loop of a step starts: its deadline, the slot included for Proposal.
Loop(s, t) ==
  /\ at' = s
  /\ began' = now
  /\ deadline' = now + t[s] + (IF s = "proposal" THEN NextSlotIn ELSE 0)

\* Proposal, at the start of iteration i: a known candidate (a future message,
\* or the node's own block) skips the loop and waits for the slot.
StartIteration(i, t, known) ==
  /\ curIter' = i
  /\ \/ known = None /\ Loop("proposal", t)
     \/ known # None /\ at' = "slot" /\ began' = now /\ deadline' = now

\* The round of a node that generates the candidate of iteration i itself.
OwnCandidate(i) ==
  /\ at = "proposal" /\ began = now /\ curIter = i /\ cands[i] = None
  /\ \E known \in SUBSET fails : cands' = [cands EXCEPT ![i] = Candidate(i, 0, known)]
  /\ at' = "slot" /\ deadline' = now
  /\ UNCHANGED <<now, curIter, began, timeouts, metrics, votes, fails, late, again, earlier, rounds>>

\* A candidate of an honest generator arrives: the running Proposal step ends,
\* a later iteration's is kept, an earlier one's is voted at once.
CandidateArrives(i) ==
  /\ cands[i] = None
  /\ at # "quorum" /\ ~(i = curIter /\ at = "slot")    \* asleep until the slot
  /\ \E skew \in Skews, known \in SUBSET fails :
       LET c == Candidate(i, skew, known)
       IN /\ cands' = [cands EXCEPT ![i] = c]
          /\ IF i < curIter \/ (i = curIter /\ at # "proposal")
             THEN TryVote(i, c) ELSE UNCHANGED votes
  /\ IF i = curIter /\ at = "proposal"
     THEN ReportElapsed("proposal") /\ at' = "slot" /\ deadline' = now
     ELSE UNCHANGED <<metrics, at, deadline>>
  /\ UNCHANGED <<now, curIter, began, timeouts, fails, late, again, earlier, rounds>>

ProposalExpires ==
  /\ at = "proposal" /\ now = deadline
  /\ OnTimeout("proposal")
  /\ at' = "slot"
  /\ UNCHANGED <<now, curIter, began, deadline, metrics, cands, votes, fails, late, again, earlier, rounds>>

\* Mutated form of SlotOpen: no wait, the step ends as soon as it has its candidate.
SlotAlwaysOpen == TRUE

\* wait_until_next_slot
SlotOpen == now >= Slot

\* The slot is open: Validation starts with the node's own vote.
EnterValidation ==
  /\ at = "slot"
  /\ SlotOpen
  /\ TryVote(curIter, cands[curIter])
  /\ Loop("validation", timeouts)
  /\ UNCHANGED <<now, curIter, timeouts, metrics, cands, fails, late, again, earlier, rounds>>

ValidationEnds ==
  /\ at = "validation"
  /\ \/ ReportElapsed("validation") /\ UNCHANGED timeouts /\ Loop("ratification", timeouts)
     \/ /\ now = deadline
        /\ OnTimeout("validation") /\ UNCHANGED metrics /\ Loop("ratification", timeouts)
  /\ UNCHANGED <<now, curIter, cands, votes, fails, late, again, earlier, rounds>>

LastIter == curIter = MaxIters - 1
LastStep == LastIter /\ at = "ratification"

\* A timeout of Ratification, not the last one: the next iteration begins.
RatificationExpires ==
  /\ at = "ratification" /\ ~LastStep /\ now = deadline
  /\ OnTimeout("ratification")
  /\ StartIteration(curIter + 1, timeouts', cands[curIter + 1])
  /\ UNCHANGED <<now, metrics, cands, votes, fails, late, again, earlier, rounds>>

\* A Quorum of the current iteration, Success or Fail, ends it in any step: one
\* from the network leaves the averages alone, one built here ends Ratification.
QuorumEnds ==
  /\ at \in Steps
  /\ LastIter => rounds < MaxRounds
  /\ at' = "quorum" /\ began' = now /\ deadline' = now
  /\ again' = (again \/ LastIter)
  /\ rounds' = IF LastIter THEN rounds + 1 ELSE rounds
  /\ fails' \in {fails, fails \cup {curIter}}
  /\ \/ metrics' = Kept(metrics, rounds')
     \/ at = "ratification" /\ metrics' = Kept(Elapsed("ratification"), rounds')
  /\ UNCHANGED <<now, curIter, timeouts, cands, votes, late, earlier>>

\* The next iteration, if no block is accepted meanwhile; Proposal ends with
\* the slot also on a Quorum.
IterationEnds ==
  /\ at = "quorum" /\ SlotOpen /\ ~LastIter
  /\ StartIteration(curIter + 1, timeouts, cands[curIter + 1])
  /\ UNCHANGED <<now, timeouts, metrics, cands, votes, fails, late, again, earlier, rounds>>

\* There is none after the last, which runs again from Proposal, with no message
\* left for it ("Sticking to the same iter"); an earlier candidate may still win.
LastIterationAgain ==
  /\ at = "quorum" /\ SlotOpen /\ LastIter
  /\ earlier' = earlier \cup {c \in {cands[curIter]} \ {None} : votes[curIter] = "Valid"}
  /\ cands' = [cands EXCEPT ![curIter] = None]
  /\ votes' = [votes EXCEPT ![curIter] = "None"]
  /\ StartIteration(curIter, timeouts, None)
  /\ UNCHANGED <<now, timeouts, metrics, fails, late, again, rounds>>

\* The timeout of the last step starts Open Consensus, which has no deadline.
OpenConsensus ==
  /\ LastStep /\ now = deadline
  /\ at' = "open"
  /\ UNCHANGED <<now, curIter, began, deadline, timeouts, metrics, cands, votes, fails, late, again, earlier, rounds>>

\* A Fail attestation of an iteration some generator collected meanwhile.
FailAttested(i) ==
  /\ i <= curIter /\ i \notin fails
  /\ fails' = fails \cup {i}
  /\ UNCHANGED <<now, curIter, at, began, deadline, timeouts, metrics, cands, votes, late, again, earlier, rounds>>

\* A block is accepted: the next round, with the timestamp of the block as Base.
NewRound(ts) ==
  /\ rounds < MaxRounds
  /\ now' = now - ts + Base
  /\ curIter' = 0
  /\ at' = "proposal"
  /\ began' = now'
  /\ timeouts' = AdjustBaseTimeouts
  /\ deadline' = now' + timeouts'["proposal"] + Max({0, Slot - now'})
  /\ cands' = [i \in TimeIters |-> None]
  /\ votes' = [i \in TimeIters |-> "None"]
  /\ fails' = {}
  /\ late' = (now' > Base + 3 * MaxStepTimeout)
  /\ again' = FALSE /\ earlier' = {}
  /\ rounds' = rounds + 1
  /\ metrics' = Kept(metrics, rounds')

AcceptCandidate ==
  \E c \in ({cands[i] : i \in {j \in TimeIters : votes[j] = "Valid"}} \ {None}) \cup earlier :
    /\ ExecuteChecks(c) = "Ok"
    /\ NewRound(c.ts)

EmergencyBlock(ts, known) == [iter |-> EmergencyBlockIter, ts |-> ts, failed |-> GetFailedAtts(known, Relax)]

AcceptEmergency ==
  \E ts \in {now, now + Margin} :
    /\ ExecuteChecks(EmergencyBlock(ts, fails)) = "Ok"
    /\ NewRound(ts)

\* Time passes up to the next timer; at the end of the slot and of a step the
\* timer goes first.
Tick ==
  /\ \/ at \in {"slot", "quorum"} /\ ~SlotOpen
     \/ at \in Steps /\ now < deadline
     \/ at = "open" /\ now < Base + MinEmergencyBlockTime + 1
  /\ now' = now + 1
  /\ UNCHANGED <<curIter, at, began, deadline, timeouts, metrics, cands, votes, fails, late, again, earlier, rounds>>

TimeInit ==
  /\ now \in 0 .. Base + 1
  /\ curIter = 0 /\ at = "proposal" /\ began = now
  /\ metrics = [s \in Steps |-> None]
  /\ timeouts = AdjustBaseTimeouts
  /\ deadline = now + timeouts["proposal"] + NextSlotIn
  /\ cands = [i \in TimeIters |-> None]
  /\ votes = [i \in TimeIters |-> "None"]
  /\ fails = {} /\ late = FALSE /\ rounds = 0
  /\ again = FALSE /\ earlier = {}

TimeNext ==
  \/ \E i \in TimeIters : OwnCandidate(i) \/ CandidateArrives(i) \/ FailAttested(i)
  \/ ProposalExpires \/ EnterValidation \/ ValidationEnds \/ RatificationExpires \/ OpenConsensus
  \/ QuorumEnds \/ IterationEnds \/ LastIterationAgain
  \/ AcceptCandidate \/ AcceptEmergency \/ Tick

TimeSpec == TimeInit /\ [][TimeNext]_timeVars

-----------------------------------------------------------------------------
(* A node that waited for its slot never refuses, or is silent about, the   *)
(* candidate of an honest generator because of its timestamp or of its      *)
(* failed iterations, whichever clock is ahead (try_vote, execute_checks).  *)
HonestCandidatesVoted == \A i \in TimeIters : votes[i] \notin {"Invalid", "Silent"}

(* What the comment on verify_basic_fields promises: an Emergency Block is  *)
(* acceptable only after the time all iterations need.  If the round began  *)
(* within one iteration of the tip's timestamp, then when such a block      *)
(* first passes the checks every iteration has run to its end once (a last  *)
(* one that ended on a Quorum runs again, as often as it does so, and may   *)
(* be in any of its steps), or at most the clock margin of the last step is *)
(* left.                                                                    *)
EmergencyNotEarly ==
  (~late /\ ExecuteChecks(EmergencyBlock(now + Margin, fails)) = "Ok")
    => at = "open" \/ again \/ (LastStep /\ deadline - now <= Margin)

(* The PNI of an honest candidate, and of an Emergency Block, counts the    *)
(* iterations before it that carry no attestation, and never wraps around.  *)
PniCountsUnattested ==
  \A h \in ({cands[i] : i \in TimeIters} \ {None}) \cup earlier \cup {EmergencyBlock(now, fails)} :
    Pni(h) = Cardinality({j \in TimeIters : j < h.iter /\ j \notin h.failed})

\* The header of an honest generator passes at every honest node: it is not
\* refused for its timestamp or its failed iterations, and its PNI counts the
\* iterations without attestation and never wraps around.
HonestHeadersPass == HonestCandidatesVoted /\ PniCountsUnattested
=============================================================================
