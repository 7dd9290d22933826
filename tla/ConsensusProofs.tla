--------------------------- MODULE ConsensusProofs ---------------------------
(***************************************************************************)
(* Proofs about one consensus round: a steady provisioner is never         *)
(* slashable, and therefore no normal iteration has two attestations with  *)
(* opposite results.                                                       *)
(*                                                                         *)
(* The properties are about the signed messages, and what prevents a       *)
(* second one is the position of the node in the round.  RoundInv relates  *)
(* the two; an action changes them in one of the few ways named below.     *)
(***************************************************************************)
EXTENDS Consensus, FiniteSetTheorems, TLAPS

\* Node n has passed the Proposal step of iteration i, or has ratified in it.
Started(n, i) == i < iter[n] \/ (i = iter[n] /\ step[n] # "proposal")

Ratified(n, i) == i < iter[n] \/ (i = iter[n] /\ step[n] = "ratification")

\* The types of what RoundInv speaks of.
Shape ==
  /\ candidates \subseteq [iter : Iters, hash : Hashes]
  /\ validations \subseteq [iter : Iters, vote : Votes, signer : Honest]
  /\ \A m \in ratifications : m.iter \in Iters
  /\ iter \in [Honest -> Iters]
  /\ step \in [Honest -> StepNames]
  /\ tasks \in [Honest -> SUBSET [iter : Iters, hash : Hashes \cup {NoHash}]]
  /\ saved \in [Honest -> Iters \cup {-1}]

ResultsShape == \A r \in results : r.iter \in Iters

\* A running node has saved its iteration.
SavedInv(n) == saved[n] = iter[n] /\ step[n] # "stopped"

CandidateInv(n) ==
  \A m \in candidates :
    (Generator[m.iter] = n /\ ~Emergency(m.iter)) => Started(n, m.iter)

\* A task that has still to vote is the only one of its iteration, and n has not
\* voted there.
TaskInv(n) ==
  \A t \in tasks[n] : ~Emergency(t.iter) =>
    /\ Started(n, t.iter)
    /\ \A u \in tasks[n] : u.iter = t.iter => u = t
    /\ \A m \in validations : ~(m.signer = n /\ m.iter = t.iter)

ValidationInv(n) ==
  \A m \in validations :
    (m.signer = n /\ ~Emergency(m.iter)) => Started(n, m.iter)

RatificationInv(n) ==
  \A m \in ratifications :
    (m.signer = n /\ ~Emergency(m.iter)) => Ratified(n, m.iter)

NodeInv(n) ==
  SavedInv(n) /\ CandidateInv(n) /\ TaskInv(n) /\ ValidationInv(n) /\ RatificationInv(n)

RoundInv ==
  Shape /\ ResultsShape /\ (\A n \in Steady : NodeInv(n)) /\ HonestNotSlashable

core == <<candidates, validations, ratifications, iter, step, tasks, saved>>

-----------------------------------------------------------------------------
(* What the actions do to these variables *)

\* The Proposal step ends, with a candidate of n's own or not.
Begin(n) ==
  /\ step[n] = "proposal"
  /\ \E h \in Hashes \cup {NoHash} :
       /\ StartValidation(n, h)
       /\ \/ candidates' = candidates
          \/ /\ h \in Hashes /\ n = Generator[iter[n]]
             /\ candidates' = candidates \cup {[iter |-> iter[n], hash |-> h]}
  /\ UNCHANGED <<validations, ratifications, iter, saved>>

\* A voting task ends.
Cast(n) ==
  \E t \in tasks[n] :
    /\ tasks' = [tasks EXCEPT ![n] = @ \ {t}]
    /\ \/ \E v \in Votes :
            validations' = validations \cup {[iter |-> t.iter, vote |-> v, signer |-> n]}
       \/ UNCHANGED validations
    /\ UNCHANGED <<candidates, ratifications, iter, step, saved>>

\* The node goes on within an iteration.
Advance(n) ==
  /\ step[n] \in {"validation", "ratify", "ratification"}
  /\ \/ step' = step
     \/ step' = [step EXCEPT ![n] = "ratification"]
     \/ step[n] = "validation" /\ step' = [step EXCEPT ![n] = "ratify"]
  /\ UNCHANGED <<iter, tasks, saved>>

Wait(n) ==
  /\ Advance(n) \/ NextIteration(n)
  /\ UNCHANGED <<candidates, validations, ratifications>>

\* The node signs its ratification vote.
Ratify(n) ==
  /\ step[n] = "ratify"
  /\ \E v, vr : ratifications' = ratifications \cup
                  {[iter |-> iter[n], vote |-> v, signer |-> n, vr |-> vr]}
  /\ \/ NextIteration(n)
     \/ /\ step' = [step EXCEPT ![n] = "ratification"]
        /\ UNCHANGED <<iter, tasks, saved>>
  /\ UNCHANGED <<candidates, validations>>

\* Votes in emergency iterations.
Late(n) ==
  /\ \/ validations' = validations
     \/ \E i \in Iters, v \in Votes :
          /\ Emergency(i)
          /\ validations' = validations \cup {[iter |-> i, vote |-> v, signer |-> n]}
  /\ \/ ratifications' = ratifications
     \/ \E i \in Iters : \E v, vr :
          /\ Emergency(i)
          /\ ratifications' = ratifications \cup
               {[iter |-> i, vote |-> v, signer |-> n, vr |-> vr]}
  /\ UNCHANGED <<candidates, iter, step, tasks, saved>>

\* The task starts again.
Reset(n) ==
  /\ iter' = [iter EXCEPT ![n] = RestoredIter(n)]
  /\ saved' = [saved EXCEPT ![n] = RestoredIter(n)]
  /\ step' = [step EXCEPT ![n] = "proposal"]
  /\ \E late \in SUBSET tasks[n] : tasks' = [tasks EXCEPT ![n] = late]
  /\ UNCHANGED <<candidates, validations, ratifications>>

Leave(n) ==
  /\ n \in MayRevert
  /\ saved' = [saved EXCEPT ![n] = -1]
  /\ step' = [step EXCEPT ![n] = "stopped"]
  /\ \E late \in SUBSET tasks[n] : tasks' = [tasks EXCEPT ![n] = late]
  /\ UNCHANGED <<candidates, validations, ratifications, iter>>

Effect(n) ==
  \/ Begin(n) \/ Cast(n) \/ Wait(n) \/ Ratify(n) \/ Late(n) \/ Reset(n) \/ Leave(n)
  \/ UNCHANGED core

\* The Proposal step of every action that starts Validation has effect Begin.
LEMMA ProposalEffect ==
  ASSUME NEW n \in Honest, NEW h \in Hashes,
         Propose(n, h) \/ ReceiveCandidate(n, h) \/ ProposalTimeout(n)
  PROVE  Begin(n)
  BY DEF Propose, ReceiveCandidate, ProposalTimeout, Begin, msgs

\* The end of try_vote has effect Cast.
LEMMA CastValidationEffect ==
  ASSUME NEW n \in Honest, NEW t \in tasks[n], Shape, CastValidation(n, t)
  PROVE  Cast(n)
<1>1. t.hash \in Hashes \cup {NoHash}
  BY DEF Shape
<1>2. PossibleVotes(t.hash) \subseteq Votes
  BY <1>1 DEF PossibleVotes, Votes, NoCandidate
<1> QED
  BY <1>2 DEF CastValidation, Cast

\* The actions of the Validation step sign nothing.
LEMMA ValidationEffect ==
  ASSUME NEW n \in Honest, NEW v \in Votes, NEW p \in Provisioners,
         ReceiveValidation(n, v, p) \/ ValidationTimeout(n)
  PROVE  Wait(n)
  BY DEF ReceiveValidation, ValidationTimeout, StartRatification, Wait, Advance, msgs

\* Counting a ratification vote either ends the iteration or goes on with it.
LEMMA CountEffect ==
  ASSUME NEW n \in Honest, NEW v, NEW p, NEW local, CountRatification(n, v, p, local)
  PROVE  \/ NextIteration(n)
         \/ /\ step' = [step EXCEPT ![n] = "ratification"]
            /\ UNCHANGED <<iter, tasks, saved>>
  BY DEF CountRatification

\* The node's own ratification vote has effect Ratify, or Wait if it has none.
LEMMA CastRatificationEffect ==
  ASSUME NEW n \in Honest, CastRatification(n)
  PROVE  Ratify(n) \/ Wait(n)
<1>1. CASE ratifications' = ratifications
  <2>1. /\ step[n] = "ratify"
        /\ UNCHANGED <<candidates, validations>>
        /\ \/ CountRatification(n, result[n].vote, n, result[n])
           \/ /\ step' = [step EXCEPT ![n] = "ratification"]
              /\ UNCHANGED <<iter, tasks, saved>>
    BY DEF CastRatification
  <2> QED
    BY <1>1, <2>1, CountEffect DEF Wait, Advance
<1>2. CASE ratifications' # ratifications
  <2>1. /\ step[n] = "ratify"
        /\ UNCHANGED <<candidates, validations>>
        /\ ratifications' = ratifications \cup
             {[iter |-> iter[n], vote |-> result[n].vote, signer |-> n, vr |-> result[n]]}
        /\ \/ CountRatification(n, result[n].vote, n, result[n])
           \/ /\ step' = [step EXCEPT ![n] = "ratification"]
              /\ UNCHANGED <<iter, tasks, saved>>
    BY <1>2 DEF CastRatification
  <2> QED
    BY <2>1, CountEffect DEF Ratify
<1> QED
  BY <1>1, <1>2

\* The other actions of the Ratification step sign nothing.
LEMMA RatificationEffect ==
  ASSUME NEW n \in Honest, NEW v \in Votes, NEW p \in Provisioners,
         ReceiveRatification(n, v, p) \/ RatificationTimeout(n)
  PROVE  Wait(n)
<1>1. CASE ReceiveRatification(n, v, p)
  <2>1. /\ step[n] = "ratification"
        /\ UNCHANGED <<candidates, validations, ratifications>>
        /\ \/ \E local : CountRatification(n, v, p, local)
           \/ UNCHANGED <<iter, step, tasks, saved>>
    BY <1>1 DEF ReceiveRatification
  <2> QED
    BY <2>1, CountEffect DEF Wait, Advance
<1>2. CASE RatificationTimeout(n)
  BY <1>2 DEF RatificationTimeout, Wait, Advance, msgs
<1> QED
  BY <1>1, <1>2

\* A Quorum from the network ends the iteration or leaves the phase alone.
LEMMA QuorumEffect ==
  ASSUME NEW n \in Honest, NEW q, ReceiveQuorum(n, q)
  PROVE  Wait(n) \/ UNCHANGED core
  BY DEF ReceiveQuorum, Wait, core, msgs

\* Past messages are handled in emergency iterations only.
LEMMA PastEffect ==
  ASSUME NEW n \in Honest, NEW i \in Iters, NEW h \in Hashes, NEW p \in Provisioners,
         PastCandidate(n, i, h) \/ PastValidation(n, i, h, p) \/ PastRatification(n, i, h, p)
  PROVE  Late(n)
<1>1. Valid(h) \in Votes
  BY DEF Votes
<1>2. CASE PastCandidate(n, i, h)
  BY <1>1, <1>2 DEF PastCandidate, Late, phase
<1>3. CASE PastValidation(n, i, h, p)
  BY <1>3 DEF PastValidation, RatifiedLate, Late, phase
<1>4. CASE PastRatification(n, i, h, p)
  BY <1>4 DEF PastRatification, Late, phase
<1> QED
  BY <1>2, <1>3, <1>4

\* So are the validation results that peers send on request.
LEMMA PastQuorumEffect ==
  ASSUME NEW n \in Honest, NEW r \in results, ResultsShape, PastValidationQuorum(n, r)
  PROVE  Late(n)
  BY DEF PastValidationQuorum, RatifiedLate, ResultsShape, Late, phase

\* A new task resumes after the iteration it has saved.
LEMMA RestartEffect ==
  ASSUME NEW n \in Honest, Restart(n) \/ LeaveTip(n)
  PROVE  Reset(n) \/ Leave(n)
  BY DEF Restart, LeaveTip, Reset, Leave, msgs

\* Every step of the round has one of the effects.
LEMMA NextEffect ==
  ASSUME Shape, ResultsShape, Next
  PROVE  \E n \in Honest : Effect(n)
<1>1. PICK n \in Honest :
        \/ \E h \in Hashes : Propose(n, h) \/ ReceiveCandidate(n, h)
        \/ ProposalTimeout(n)
        \/ \E t \in tasks[n] : CastValidation(n, t)
        \/ \E v \in Votes, p \in Provisioners :
             ReceiveValidation(n, v, p) \/ ReceiveRatification(n, v, p)
        \/ ValidationTimeout(n)
        \/ CastRatification(n)
        \/ RatificationTimeout(n)
        \/ \E q : ReceiveQuorum(n, q)
        \/ \E i \in Iters, h \in Hashes : PastCandidate(n, i, h)
        \/ \E i \in Iters, h \in Hashes, p \in Provisioners :
             PastValidation(n, i, h, p) \/ PastRatification(n, i, h, p)
        \/ \E r \in results : PastValidationQuorum(n, r)
        \/ Restart(n) \/ LeaveTip(n)
  BY DEF Next
<1>2. CASE \E h \in Hashes : Propose(n, h) \/ ReceiveCandidate(n, h)
  BY <1>2, ProposalEffect DEF Effect
<1>3. CASE ProposalTimeout(n)
  BY <1>3 DEF ProposalTimeout, Begin, Effect, msgs
<1>4. CASE \E t \in tasks[n] : CastValidation(n, t)
  BY <1>4, CastValidationEffect DEF Effect
<1>5. CASE \E v \in Votes, p \in Provisioners :
             ReceiveValidation(n, v, p) \/ ReceiveRatification(n, v, p)
  BY <1>5, ValidationEffect, RatificationEffect DEF Effect
<1>6. CASE ValidationTimeout(n)
  BY <1>6 DEF ValidationTimeout, StartRatification, Wait, Advance, Effect, msgs
<1>7. CASE CastRatification(n)
  BY <1>7, CastRatificationEffect DEF Effect
<1>8. CASE RatificationTimeout(n)
  BY <1>8 DEF RatificationTimeout, Wait, Advance, Effect, msgs
<1>9. CASE \E q : ReceiveQuorum(n, q)
  BY <1>9, QuorumEffect DEF Effect
<1>10. CASE \E i \in Iters, h \in Hashes : PastCandidate(n, i, h)
  <2>1. \A h \in Hashes : Valid(h) \in Votes
    BY DEF Votes
  <2> QED
    BY <1>10, <2>1 DEF PastCandidate, Late, phase, Effect
<1>11. CASE \E i \in Iters, h \in Hashes, p \in Provisioners :
             PastValidation(n, i, h, p) \/ PastRatification(n, i, h, p)
  BY <1>11, PastEffect DEF Effect
<1>12. CASE \E r \in results : PastValidationQuorum(n, r)
  BY <1>12, PastQuorumEffect DEF Effect
<1>13. CASE Restart(n) \/ LeaveTip(n)
  BY <1>13, RestartEffect DEF Effect
<1> QED
  BY <1>1, <1>2, <1>3, <1>4, <1>5, <1>6, <1>7, <1>8, <1>9, <1>10, <1>11, <1>12, <1>13

\* Stored validation results belong to iterations of the round.
LEMMA ResultsStep ==
  ASSUME Shape, ResultsShape, [Next]_vars
  PROVE  ResultsShape'
<1>1. CASE UNCHANGED vars
  BY <1>1 DEF ResultsShape, vars, msgs
<1>2. CASE Next
  <2>1. \/ results' = results
        \/ \E i \in Iters : \E sv : results' = results \cup {[iter |-> i, sv |-> sv]}
        \/ \E r \in results : results' = results \cup {r}
    <3>1. PICK n \in Honest :
            \/ \E v \in Votes, p \in Provisioners : ReceiveValidation(n, v, p)
            \/ \E i \in Iters, h \in Hashes, p \in Provisioners : PastValidation(n, i, h, p)
            \/ \E r \in results : PastValidationQuorum(n, r)
            \/ results' = results
      <4>1. ASSUME NEW n, NEW h,
                   Propose(n, h) \/ ReceiveCandidate(n, h) \/ ProposalTimeout(n)
            PROVE  results' = results
        BY <4>1 DEF Propose, ReceiveCandidate, ProposalTimeout, msgs
      <4>2. ASSUME NEW n, NEW t, CastValidation(n, t) \/ ValidationTimeout(n)
            PROVE  results' = results
        BY <4>2 DEF CastValidation, ValidationTimeout, msgs
      <4>3. ASSUME NEW n, NEW v, NEW p,
                   \/ CastRatification(n) \/ ReceiveRatification(n, v, p)
                   \/ RatificationTimeout(n)
            PROVE  results' = results
        BY <4>3 DEF CastRatification, ReceiveRatification, RatificationTimeout, msgs
      <4>4. ASSUME NEW n, NEW q, ReceiveQuorum(n, q) \/ Restart(n) \/ LeaveTip(n)
            PROVE  results' = results
        BY <4>4 DEF ReceiveQuorum, Restart, LeaveTip, msgs
      <4>5. ASSUME NEW n, NEW i, NEW h, NEW p,
                   PastCandidate(n, i, h) \/ PastRatification(n, i, h, p)
            PROVE  results' = results
        BY <4>5 DEF PastCandidate, PastRatification
      <4> QED
        BY <1>2, <4>1, <4>2, <4>3, <4>4, <4>5 DEF Next
    <3>2. iter[n] \in Iters
      BY DEF Shape
    <3>3. CASE \E v \in Votes, p \in Provisioners : ReceiveValidation(n, v, p)
      BY <3>2, <3>3 DEF ReceiveValidation
    <3>4. CASE \E i \in Iters, h \in Hashes, p \in Provisioners : PastValidation(n, i, h, p)
      <4>1. PICK i \in Iters, h \in Hashes, p \in Provisioners : PastValidation(n, i, h, p)
        BY <3>4
      <4>2. results' = results \/ \E sv : results' = results \cup {[iter |-> i, sv |-> sv]}
        BY <4>1, Zenon DEF PastValidation
      <4> QED
        BY <4>2
    <3>5. CASE \E r \in results : PastValidationQuorum(n, r)
      BY <3>5 DEF PastValidationQuorum
    <3> QED
      BY <3>1, <3>3, <3>4, <3>5
  <2> QED
    BY <2>1 DEF ResultsShape
<1> QED
  BY <1>1, <1>2

-----------------------------------------------------------------------------
(* The effects preserve the invariant *)

\* Iterations are naturals, and the last one is an emergency iteration.
LEMMA IterFacts ==
  /\ Iters \subseteq Nat
  /\ EmergencyIter \in Nat /\ MaxIter \in Nat
  /\ EmergencyIter + 1 \in Iters
  /\ 0 \in Iters
  /\ \A i \in Iters : i < MaxIter
  /\ \A i \in Iters : i < MaxIter - 1 => i + 1 \in Iters
  BY CommitteeAssumption DEF Iters

\* The iteration a task restarts from exists, and is past every normal iteration
\* up to the saved one.
LEMMA RestoredIterFacts ==
  ASSUME NEW n \in Honest, Shape
  PROVE  /\ RestoredIter(n) \in Iters
         /\ saved[n] # -1 =>
              \A i \in Iters : (~Emergency(i) /\ i <= saved[n]) => i < RestoredIter(n)
<1>1. saved[n] \in Iters \cup {-1}
  BY DEF Shape
<1> QED
  BY <1>1, CommitteeAssumption DEF RestoredIter, Emergency, Iters

\* The end of an iteration keeps the types, and nothing it leaves behind belongs
\* to a normal iteration that is not past.
LEMMA NextIterationFacts ==
  ASSUME NEW n \in Honest, Shape, NextIteration(n)
  PROVE  /\ iter' \in [Honest -> Iters]
         /\ step' = [step EXCEPT ![n] = "proposal"]
         /\ saved' = [saved EXCEPT ![n] = iter'[n]]
         /\ \A m \in Honest : m # n => iter'[m] = iter[m] /\ tasks'[m] = tasks[m]
         /\ \A i \in Iters : (~Emergency(i) /\ i <= iter[n]) => i < iter'[n]
         /\ tasks' \in [Honest -> SUBSET [iter : Iters, hash : Hashes \cup {NoHash}]]
         /\ tasks'[n] \subseteq tasks[n]
<1>1. /\ iter \in [Honest -> Iters] /\ iter[n] \in Iters
      /\ tasks \in [Honest -> SUBSET [iter : Iters, hash : Hashes \cup {NoHash}]]
  BY DEF Shape
<1>a. /\ iter[n] \in Nat /\ MaxIter \in Nat
      /\ \A i \in Iters : i \in Nat
  <2>1. iter[n] \in Iters
    BY <1>1
  <2> QED
    BY <2>1, IterFacts
<1>2. CASE iter[n] < MaxIter - 1
  <2>0. ~(iter[n] >= MaxIter - 1)
    BY <1>a, <1>2
  <2>1. iter' = [iter EXCEPT ![n] = @ + 1]
    BY <2>0 DEF NextIteration
  <2>2. PICK late \in SUBSET tasks[n] : tasks' = [tasks EXCEPT ![n] = late]
    BY <2>0 DEF NextIteration
  <2>3. /\ step' = [step EXCEPT ![n] = "proposal"]
        /\ saved' = [saved EXCEPT ![n] = iter'[n]]
    BY DEF NextIteration
  <2>4. iter[n] + 1 \in Iters
    BY <1>1, <1>2, IterFacts
  <2>5. late \in SUBSET [iter : Iters, hash : Hashes \cup {NoHash}]
    BY <1>1
  <2>6. /\ iter' \in [Honest -> Iters]
        /\ iter'[n] = iter[n] + 1
        /\ \A m \in Honest : m # n => iter'[m] = iter[m]
    BY <1>1, <2>1, <2>4
  <2>7. /\ tasks' \in [Honest -> SUBSET [iter : Iters, hash : Hashes \cup {NoHash}]]
        /\ tasks'[n] = late
        /\ \A m \in Honest : m # n => tasks'[m] = tasks[m]
    BY <1>1, <2>2, <2>5
  <2>8. \A i \in Iters : i <= iter[n] => i < iter[n] + 1
    BY <1>a
  <2> QED
    BY <2>2, <2>3, <2>6, <2>7, <2>8
<1>3. CASE ~(iter[n] < MaxIter - 1)
  <2>1. iter' = iter /\ tasks' = tasks
    BY <1>1, <1>3, IterFacts DEF NextIteration
  <2>2. /\ step' = [step EXCEPT ![n] = "proposal"]
        /\ saved' = [saved EXCEPT ![n] = iter'[n]]
    BY DEF NextIteration
  <2>3. \A i \in Iters : ~Emergency(i) => i < iter[n]
    BY <1>1, <1>3, CommitteeAssumption DEF Emergency, Iters
  <2> QED
    BY <1>1, <2>1, <2>2, <2>3
<1> QED
  BY <1>2, <1>3

\* Every effect keeps the types.
LEMMA ShapeStep ==
  ASSUME Shape, NEW n \in Honest, Effect(n)
  PROVE  Shape'
<1> USE DEF Shape
<1>0. {"proposal", "validation", "ratify", "ratification", "stopped"} = StepNames
  BY DEF StepNames
<1>1. CASE Begin(n)
  BY <1>0, <1>1 DEF Begin, StartValidation
<1>2. CASE Cast(n)
  BY <1>2 DEF Cast
<1>3. CASE Wait(n)
  <2>1. CASE Advance(n)
    BY <1>0, <1>3, <2>1 DEF Wait, Advance
  <2>2. CASE NextIteration(n)
    BY <1>0, <1>3, <2>2, NextIterationFacts DEF Wait
  <2> QED
    BY <1>3, <2>1, <2>2 DEF Wait
<1>4. CASE Ratify(n)
  <2>1. \A m \in ratifications' : m.iter \in Iters
    BY <1>4 DEF Ratify
  <2>2. CASE NextIteration(n)
    BY <1>0, <1>4, <2>1, <2>2, NextIterationFacts DEF Ratify
  <2>3. CASE ~NextIteration(n)
    BY <1>0, <1>4, <2>1, <2>3 DEF Ratify
  <2> QED
    BY <2>2, <2>3
<1>5. CASE Late(n)
  BY <1>5 DEF Late
<1>6. CASE Reset(n)
  BY <1>0, <1>6, RestoredIterFacts DEF Reset
<1>7. CASE Leave(n)
  BY <1>0, <1>7 DEF Leave
<1>8. CASE UNCHANGED core
  BY <1>8 DEF core
<1> QED
  BY <1>1, <1>2, <1>3, <1>4, <1>5, <1>6, <1>7, <1>8 DEF Effect

\* The state and the messages of node k are not those of another node.
Untouched(k) ==
  /\ iter'[k] = iter[k] /\ step'[k] = step[k]
  /\ tasks'[k] = tasks[k] /\ saved'[k] = saved[k]
  /\ \A m \in candidates' : Generator[m.iter] = k => m \in candidates
  /\ \A m \in validations' : m.signer = k => m \in validations
  /\ \A m \in ratifications' : m.signer = k => m \in ratifications

\* An effect of node n leaves every other node alone.
LEMMA OthersUntouched ==
  ASSUME Shape, NEW n \in Honest, Effect(n), NEW k \in Honest, k # n
  PROVE  Untouched(k)
<1> USE DEF Untouched
<1>0. /\ iter \in [Honest -> Iters] /\ step \in [Honest -> StepNames]
      /\ tasks \in [Honest -> SUBSET [iter : Iters, hash : Hashes \cup {NoHash}]]
      /\ saved \in [Honest -> Iters \cup {-1}]
  BY DEF Shape
<1>1. CASE Begin(n)
  BY <1>0, <1>1 DEF Begin, StartValidation
<1>2. CASE Cast(n)
  BY <1>0, <1>2 DEF Cast
<1>3. CASE Wait(n)
  <2>1. CASE Advance(n)
    BY <1>0, <1>3, <2>1 DEF Wait, Advance
  <2>2. CASE NextIteration(n)
    BY <1>0, <1>3, <2>2, NextIterationFacts DEF Wait
  <2> QED
    BY <1>3, <2>1, <2>2 DEF Wait
<1>4. CASE Ratify(n)
  <2>1. \A m \in ratifications' : m.signer = k => m \in ratifications
    BY <1>4 DEF Ratify
  <2>2. CASE NextIteration(n)
    BY <1>0, <1>4, <2>1, <2>2, NextIterationFacts DEF Ratify
  <2>3. CASE ~NextIteration(n)
    BY <1>0, <1>4, <2>1, <2>3 DEF Ratify
  <2> QED
    BY <2>2, <2>3
<1>5. CASE Late(n)
  BY <1>5 DEF Late
<1>6. CASE Reset(n)
  BY <1>0, <1>6 DEF Reset
<1>7. CASE Leave(n)
  BY <1>0, <1>7 DEF Leave
<1>8. CASE UNCHANGED core
  BY <1>8 DEF core
<1> QED
  BY <1>1, <1>2, <1>3, <1>4, <1>5, <1>6, <1>7, <1>8 DEF Effect

\* The invariant of a node that is left alone is kept.
LEMMA UntouchedStep ==
  ASSUME NEW k \in Honest, NodeInv(k), Untouched(k)
  PROVE  NodeInv(k)'
<1>1. \A i : Started(k, i)' <=> Started(k, i)
  BY DEF Untouched, Started
<1>2. \A i : Ratified(k, i)' <=> Ratified(k, i)
  BY DEF Untouched, Ratified
<1>3. SavedInv(k)'
  BY DEF Untouched, NodeInv, SavedInv
<1>4. CandidateInv(k)'
  BY <1>1 DEF Untouched, NodeInv, CandidateInv
<1>5. TaskInv(k)'
  BY <1>1 DEF Untouched, NodeInv, TaskInv
<1>6. ValidationInv(k)'
  BY <1>1 DEF Untouched, NodeInv, ValidationInv
<1>7. RatificationInv(k)'
  BY <1>2 DEF Untouched, NodeInv, RatificationInv
<1> QED
  BY <1>3, <1>4, <1>5, <1>6, <1>7 DEF NodeInv

\* A steady node that starts the Validation step keeps its invariant.
LEMMA BeginStep ==
  ASSUME Shape, NEW n \in Steady, NodeInv(n), Begin(n)
  PROVE  NodeInv(n)'
<1>0. /\ n \in Honest
      /\ iter \in [Honest -> Iters] /\ step \in [Honest -> StepNames]
      /\ tasks \in [Honest -> SUBSET [iter : Iters, hash : Hashes \cup {NoHash}]]
  BY DEF Shape, Steady
<1>1. PICK h \in Hashes \cup {NoHash} :
        /\ StartValidation(n, h)
        /\ \/ candidates' = candidates
           \/ candidates' = candidates \cup {[iter |-> iter[n], hash |-> h]}
  BY DEF Begin
<1>2. /\ step[n] = "proposal" /\ step'[n] = "validation"
      /\ UNCHANGED <<validations, ratifications, iter, saved>>
      /\ tasks'[n] \subseteq tasks[n] \cup {[iter |-> iter[n], hash |-> h]}
  BY <1>0, <1>1 DEF Begin, StartValidation
<1>3. /\ \A i : Started(n, i) => Started(n, i)'
      /\ \A i : Ratified(n, i) => Ratified(n, i)'
      /\ \A i : i = iter[n] => Started(n, i)'
  BY <1>2 DEF Started, Ratified
<1>4. ~Started(n, iter[n])
  <2>1. iter[n] \in Iters
    BY <1>0
  <2>2. iter[n] \in Nat
    BY <2>1, IterFacts
  <2> QED
    BY <1>2, <2>2 DEF Started
<1>5. SavedInv(n)'
  BY <1>2 DEF NodeInv, SavedInv
<1>6. CandidateInv(n)'
  <2>1. \A m \in candidates' : m \in candidates \/ m.iter = iter[n]
    BY <1>1
  <2> QED
    BY <1>3, <2>1 DEF NodeInv, CandidateInv
<1>7. TaskInv(n)'
  <2>1. \A t \in tasks[n] : ~Emergency(t.iter) => t.iter # iter[n]
    BY <1>4 DEF NodeInv, TaskInv
  <2>2. \A m \in validations : m.signer = n /\ ~Emergency(m.iter) => m.iter # iter[n]
    BY <1>4 DEF NodeInv, ValidationInv
  <2> QED
    BY <1>2, <1>3, <2>1, <2>2 DEF NodeInv, TaskInv
<1>8. ValidationInv(n)'
  BY <1>2, <1>3 DEF NodeInv, ValidationInv
<1>9. RatificationInv(n)'
  BY <1>2, <1>3 DEF NodeInv, RatificationInv
<1> QED
  BY <1>5, <1>6, <1>7, <1>8, <1>9 DEF NodeInv

\* A node whose voting task ends keeps its invariant.
LEMMA CastStep ==
  ASSUME Shape, NEW n \in Steady, NodeInv(n), Cast(n)
  PROVE  NodeInv(n)'
<1>0. /\ n \in Honest
      /\ tasks \in [Honest -> SUBSET [iter : Iters, hash : Hashes \cup {NoHash}]]
  BY DEF Shape, Steady
<1>1. PICK t \in tasks[n] :
    /\ tasks' = [tasks EXCEPT ![n] = @ \ {t}]
    /\ \/ \E v \in Votes :
            validations' = validations \cup {[iter |-> t.iter, vote |-> v, signer |-> n]}
       \/ UNCHANGED validations
    /\ UNCHANGED <<candidates, ratifications, iter, step, saved>>
  BY DEF Cast
<1>2. tasks'[n] = tasks[n] \ {t}
  BY <1>0, <1>1
<1>3. /\ \A i : Started(n, i)' <=> Started(n, i)
      /\ \A i : Ratified(n, i)' <=> Ratified(n, i)
  BY <1>1 DEF Started, Ratified
<1>4. \A m \in validations' : m \in validations \/ (m.iter = t.iter /\ m.signer = n)
  BY <1>1
<1>5. SavedInv(n)' /\ CandidateInv(n)' /\ RatificationInv(n)'
  BY <1>1, <1>3 DEF NodeInv, SavedInv, CandidateInv, RatificationInv
<1>6. TaskInv(n)'
  BY <1>2, <1>3, <1>4 DEF NodeInv, TaskInv
<1>7. ValidationInv(n)'
  BY <1>3, <1>4 DEF NodeInv, TaskInv, ValidationInv
<1> QED
  BY <1>5, <1>6, <1>7 DEF NodeInv

\* The end of an iteration, or a restart after the saved one, leaves every normal
\* iteration that the node has touched behind.
LEMMA LeaveBehindStep ==
  ASSUME Shape, NEW n \in Steady, NodeInv(n),
         saved'[n] = iter'[n], step'[n] = "proposal", tasks'[n] \subseteq tasks[n],
         \A i \in Iters : (~Emergency(i) /\ i <= iter[n]) => i < iter'[n],
         UNCHANGED <<candidates, validations>>,
         \A m \in ratifications' : (m.signer = n /\ m \notin ratifications) => m.iter = iter[n],
         \A m \in ratifications' : m.iter \in Iters
  PROVE  NodeInv(n)'
<1>0. n \in Honest /\ iter[n] \in Iters
  BY DEF Shape, Steady
<1>1. iter[n] \in Nat /\ \A i \in Iters : i \in Nat
  BY <1>0, IterFacts
<1>2. \A i \in Iters : (~Emergency(i) /\ (Started(n, i) \/ Ratified(n, i))) => i < iter'[n]
  BY <1>1 DEF Started, Ratified
<1>3. \A i \in Iters : ~Emergency(i) /\ i = iter[n] => i < iter'[n]
  BY <1>1
<1>4. \A i : i < iter'[n] => Started(n, i)' /\ Ratified(n, i)'
  BY DEF Started, Ratified
<1>5. SavedInv(n)'
  BY DEF SavedInv
<1>6. CandidateInv(n)'
  <2>1. \A m \in candidates : m.iter \in Iters
    BY DEF Shape
  <2> QED
    BY <1>2, <1>4, <2>1 DEF NodeInv, CandidateInv
<1>7. TaskInv(n)'
  <2>1. \A t \in tasks[n] : t.iter \in Iters
    BY <1>0 DEF Shape
  <2> QED
    BY <1>2, <1>4, <2>1 DEF NodeInv, TaskInv
<1>8. ValidationInv(n)'
  <2>1. \A m \in validations : m.iter \in Iters
    BY DEF Shape
  <2> QED
    BY <1>2, <1>4, <2>1 DEF NodeInv, ValidationInv
<1>9. RatificationInv(n)'
  BY <1>2, <1>3, <1>4 DEF NodeInv, RatificationInv
<1> QED
  BY <1>5, <1>6, <1>7, <1>8, <1>9 DEF NodeInv

\* A step within an iteration keeps the node's invariant.
LEMMA AdvanceStep ==
  ASSUME Shape, NEW n \in Steady, NodeInv(n),
         UNCHANGED <<candidates, validations, iter, tasks, saved>>,
         step[n] \in {"validation", "ratify", "ratification"},
         step'[n] \in {"validation", "ratify", "ratification"},
         step[n] = "ratification" => step'[n] = "ratification",
         \A m \in ratifications' : (m.signer = n /\ m \notin ratifications) =>
                                    m.iter = iter[n] /\ step'[n] = "ratification"
  PROVE  NodeInv(n)'
<1>1. /\ \A i : Started(n, i) => Started(n, i)'
      /\ \A i : Ratified(n, i) => Ratified(n, i)'
      /\ step'[n] = "ratification" => Ratified(n, iter[n])'
  BY DEF Started, Ratified
<1>2. SavedInv(n)' /\ CandidateInv(n)' /\ TaskInv(n)' /\ ValidationInv(n)'
  BY <1>1 DEF NodeInv, SavedInv, CandidateInv, TaskInv, ValidationInv
<1>3. RatificationInv(n)'
  BY <1>1 DEF NodeInv, RatificationInv
<1> QED
  BY <1>2, <1>3 DEF NodeInv

\* Votes in emergency iterations are not the invariant's concern.
LEMMA LateStep ==
  ASSUME Shape, NEW n \in Steady, NodeInv(n), Late(n)
  PROVE  NodeInv(n)'
<1>1. /\ \A i : Started(n, i)' <=> Started(n, i)
      /\ \A i : Ratified(n, i)' <=> Ratified(n, i)
  BY DEF Late, Started, Ratified
<1>2. /\ \A m \in validations' : m \in validations \/ Emergency(m.iter)
      /\ \A m \in ratifications' : m \in ratifications \/ Emergency(m.iter)
      /\ UNCHANGED <<candidates, iter, step, tasks, saved>>
  BY DEF Late
<1>3. SavedInv(n)' /\ CandidateInv(n)'
  BY <1>1, <1>2 DEF NodeInv, SavedInv, CandidateInv
<1>4. TaskInv(n)'
  BY <1>1, <1>2 DEF NodeInv, TaskInv
<1>5. ValidationInv(n)' /\ RatificationInv(n)'
  BY <1>1, <1>2 DEF NodeInv, ValidationInv, RatificationInv
<1> QED
  BY <1>3, <1>4, <1>5 DEF NodeInv

\* Every effect of a steady node keeps its invariant.
LEMMA NodeStep ==
  ASSUME Shape, NEW n \in Steady, NodeInv(n), Effect(n)
  PROVE  NodeInv(n)'
<1>0. /\ n \in Honest /\ n \notin MayRevert
      /\ iter \in [Honest -> Iters] /\ step \in [Honest -> StepNames]
      /\ tasks \in [Honest -> SUBSET [iter : Iters, hash : Hashes \cup {NoHash}]]
      /\ saved \in [Honest -> Iters \cup {-1}]
      /\ \A m \in ratifications : m.iter \in Iters
  BY DEF Shape, Steady
<1>1. CASE Begin(n)
  BY <1>1, BeginStep
<1>2. CASE Cast(n)
  BY <1>2, CastStep
<1>3. ASSUME NextIteration(n), UNCHANGED <<candidates, validations>>,
             \/ ratifications' = ratifications
             \/ \E v, vr : ratifications' = ratifications \cup
                   {[iter |-> iter[n], vote |-> v, signer |-> n, vr |-> vr]}
      PROVE  NodeInv(n)'
  <2>1. /\ saved'[n] = iter'[n] /\ step'[n] = "proposal" /\ tasks'[n] \subseteq tasks[n]
        /\ \A i \in Iters : (~Emergency(i) /\ i <= iter[n]) => i < iter'[n]
    BY <1>0, <1>3, NextIterationFacts
  <2>2. \A m \in ratifications' : (m \notin ratifications => m.iter = iter[n]) /\ m.iter \in Iters
    BY <1>0, <1>3
  <2> QED
    BY <1>3, <2>1, <2>2, LeaveBehindStep
<1>4. CASE Wait(n)
  <2>1. CASE NextIteration(n)
    BY <1>3, <1>4, <2>1 DEF Wait
  <2>2. CASE Advance(n)
    BY <1>0, <1>4, <2>2, AdvanceStep DEF Wait, Advance
  <2> QED
    BY <1>4, <2>1, <2>2 DEF Wait
<1>5. CASE Ratify(n)
  <2>1. CASE NextIteration(n)
    BY <1>3, <1>5, <2>1 DEF Ratify
  <2>2. CASE ~NextIteration(n)
    <3>1. /\ step[n] = "ratify" /\ step'[n] = "ratification"
          /\ UNCHANGED <<candidates, validations, iter, tasks, saved>>
      BY <1>0, <1>5, <2>2 DEF Ratify
    <3>2. \A m \in ratifications' : m \notin ratifications => m.iter = iter[n]
      BY <1>5 DEF Ratify
    <3> QED
      BY <3>1, <3>2, AdvanceStep
  <2> QED
    BY <2>1, <2>2
<1>6. CASE Late(n)
  BY <1>6, LateStep
<1>7. CASE Reset(n)
  <2>1. saved[n] = iter[n] /\ iter[n] \in Iters
    BY <1>0 DEF NodeInv, SavedInv
  <2>2. saved[n] # -1
    BY <2>1, IterFacts
  <2>3. /\ iter'[n] = RestoredIter(n) /\ saved'[n] = RestoredIter(n)
        /\ step'[n] = "proposal" /\ tasks'[n] \subseteq tasks[n]
        /\ UNCHANGED <<candidates, validations, ratifications>>
    BY <1>0, <1>7 DEF Reset
  <2>4. \A i \in Iters : (~Emergency(i) /\ i <= iter[n]) => i < iter'[n]
    BY <1>0, <2>1, <2>2, <2>3, RestoredIterFacts
  <2> QED
    BY <1>0, <2>3, <2>4, LeaveBehindStep
<1>8. CASE Leave(n)
  BY <1>0, <1>8 DEF Leave
<1>9. CASE UNCHANGED core
  BY <1>0, <1>9, UntouchedStep DEF core, Untouched
<1> QED
  BY <1>1, <1>2, <1>4, <1>5, <1>6, <1>7, <1>8, <1>9 DEF Effect

-----------------------------------------------------------------------------
(* No slashable messages *)

\* A message that an effect adds for a steady node in a normal iteration is not
\* the second of its kind.
LEMMA NotSlashableStep ==
  ASSUME RoundInv, NEW n \in Honest, Effect(n)
  PROVE  HonestNotSlashable'
<1>0. Shape /\ HonestNotSlashable /\ (n \in Steady => NodeInv(n)) /\ iter[n] \in Nat
  BY IterFacts DEF RoundInv, Shape
<1>1. ASSUME NEW m1 \in candidates', NEW m2 \in candidates', m1.iter = m2.iter,
             Generator[m1.iter] \in Steady, ~Emergency(m1.iter)
      PROVE  m1.hash = m2.hash
  <2>1. CASE candidates' = candidates
    BY <1>0, <1>1, <2>1 DEF HonestNotSlashable
  <2>2. CASE candidates' # candidates
    <3>1. Begin(n)
      BY <2>2 DEF Effect, Cast, Wait, Ratify, Late, Reset, Leave, core
    <3>2. PICK h \in Hashes :
            /\ n = Generator[iter[n]]
            /\ candidates' = candidates \cup {[iter |-> iter[n], hash |-> h]}
      BY <2>2, <3>1 DEF Begin
    <3>3. CASE m1.iter = iter[n]
      <4>1. n \in Steady /\ step[n] = "proposal"
        BY <1>1, <3>1, <3>2, <3>3 DEF Begin
      <4>2. ~Started(n, iter[n])
        BY <1>0, <4>1 DEF Started
      <4>3. \A m \in candidates : m.iter # iter[n]
        BY <1>0, <1>1, <3>2, <3>3, <4>1, <4>2 DEF NodeInv, CandidateInv
      <4> QED
        BY <1>1, <3>2, <3>3, <4>3
    <3>4. CASE m1.iter # iter[n]
      BY <1>0, <1>1, <3>2, <3>4 DEF HonestNotSlashable
    <3> QED
      BY <3>3, <3>4
  <2> QED
    BY <2>1, <2>2
<1>2. ASSUME NEW m1 \in validations', NEW m2 \in validations', m1.iter = m2.iter,
             m1.signer = m2.signer, m1.signer \in Steady, ~Emergency(m1.iter)
      PROVE  m1.vote = m2.vote
  <2>1. CASE m1 \in validations /\ m2 \in validations
    BY <1>0, <1>2, <2>1 DEF HonestNotSlashable
  <2>2. CASE ~(m1 \in validations /\ m2 \in validations)
    <3>1. Cast(n)
      BY <1>2, <2>2 DEF Effect, Begin, Wait, Ratify, Late, Reset, Leave, core
    <3>2. PICK t \in tasks[n], v \in Votes :
            validations' = validations \cup {[iter |-> t.iter, vote |-> v, signer |-> n]}
      BY <1>2, <2>2, <3>1 DEF Cast
    <3>3. n \in Steady /\ ~Emergency(t.iter) /\ m1.iter = t.iter /\ m1.signer = n
      BY <1>2, <2>2, <3>2
    <3>4. \A m \in validations : ~(m.signer = n /\ m.iter = t.iter)
      BY <1>0, <3>3 DEF NodeInv, TaskInv
    <3> QED
      BY <1>2, <3>2, <3>3, <3>4
  <2> QED
    BY <2>1, <2>2
<1>3. ASSUME NEW m1 \in ratifications', NEW m2 \in ratifications', m1.iter = m2.iter,
             m1.signer = m2.signer, m1.signer \in Steady, ~Emergency(m1.iter)
      PROVE  m1.vote = m2.vote
  <2>1. CASE m1 \in ratifications /\ m2 \in ratifications
    BY <1>0, <1>3, <2>1 DEF HonestNotSlashable
  <2>2. CASE ~(m1 \in ratifications /\ m2 \in ratifications)
    <3>1. Ratify(n)
      BY <1>3, <2>2 DEF Effect, Begin, Wait, Cast, Late, Reset, Leave, core
    <3>2. PICK v, vr : ratifications' = ratifications \cup
                         {[iter |-> iter[n], vote |-> v, signer |-> n, vr |-> vr]}
      BY <3>1 DEF Ratify
    <3>3. n \in Steady /\ ~Emergency(iter[n]) /\ m1.iter = iter[n] /\ m1.signer = n
      BY <1>3, <2>2, <3>2
    <3>4. ~Ratified(n, iter[n])
      BY <1>0, <3>1 DEF Ratify, Ratified
    <3>5. \A m \in ratifications : ~(m.signer = n /\ m.iter = iter[n])
      BY <1>0, <3>3, <3>4 DEF NodeInv, RatificationInv
    <3> QED
      BY <1>3, <3>2, <3>3, <3>5
  <2> QED
    BY <2>1, <2>2
<1> QED
  BY <1>1, <1>2, <1>3 DEF HonestNotSlashable

\* RoundInv holds when the round starts.
LEMMA RoundInvInit ==
  ASSUME Init
  PROVE  RoundInv
<1>1. Shape
  BY IterFacts DEF Init, Shape, StepNames
<1>2. \A n \in Steady : NodeInv(n)
  BY DEF Init, Steady, NodeInv, SavedInv, CandidateInv, TaskInv, ValidationInv, RatificationInv
<1>3. HonestNotSlashable /\ ResultsShape
  BY DEF Init, HonestNotSlashable, ResultsShape
<1> QED
  BY <1>1, <1>2, <1>3 DEF RoundInv

\* RoundInv is inductive.
LEMMA RoundInvStep ==
  ASSUME RoundInv, [Next]_vars
  PROVE  RoundInv'
<1>1. ResultsShape'
  BY ResultsStep DEF RoundInv
<1>2. CASE UNCHANGED vars
  <2>1. UNCHANGED core
    BY <1>2 DEF vars, msgs, phase, core
  <2>2. Shape' /\ HonestNotSlashable'
    BY <2>1 DEF RoundInv, Shape, HonestNotSlashable, core
  <2>3. \A k \in Steady : NodeInv(k)'
    <3>1. \A k \in Steady : k \in Honest /\ NodeInv(k) /\ Untouched(k)
      BY <2>1 DEF RoundInv, core, Untouched, Steady
    <3> QED
      BY <3>1, UntouchedStep
  <2> QED
    BY <1>1, <2>2, <2>3 DEF RoundInv
<1>3. CASE Next
  <2>1. PICK n \in Honest : Effect(n)
    BY <1>3, NextEffect DEF RoundInv
  <2>2. Shape'
    BY <2>1, ShapeStep DEF RoundInv
  <2>3. ASSUME NEW k \in Steady
        PROVE  NodeInv(k)'
    <3>1. k \in Honest /\ NodeInv(k) /\ Shape
      BY DEF RoundInv, Steady
    <3>2. CASE k = n
      BY <2>1, <3>1, <3>2, NodeStep
    <3>3. CASE k # n
      BY <2>1, <3>1, <3>3, OthersUntouched, UntouchedStep
    <3> QED
      BY <3>2, <3>3
  <2>4. HonestNotSlashable'
    BY <2>1, NotSlashableStep
  <2> QED
    BY <1>1, <2>2, <2>3, <2>4 DEF RoundInv
<1> QED
  BY <1>2, <1>3

\* RoundInv holds throughout the round.
THEOREM RoundInvariant == Spec => []RoundInv
<1>1. Init => RoundInv
  BY RoundInvInit
<1>2. RoundInv /\ [Next]_vars => RoundInv'
  BY RoundInvStep
<1> QED
  BY <1>1, <1>2, PTL DEF Spec

\* An honest provisioner whose tip is not reverted never signs two messages that
\* a Fault could be made of, for every committee, number of nodes and restarts.
THEOREM NeverSlashable == Spec => []HonestNotSlashable
<1>1. RoundInv => HonestNotSlashable
  BY DEF RoundInv
<1> QED
  BY <1>1, RoundInvariant, PTL

-----------------------------------------------------------------------------
(* No two opposite attestations *)

\* Two sets of credits overlap in at least what they hold beyond the committee.
LEMMA Overlap ==
  ASSUME NEW A \in SUBSET Slots, NEW B \in SUBSET Slots, NEW F \in SUBSET Slots,
         A \cap B \subseteq F
  PROVE  /\ Cardinality(A) \in Nat /\ Cardinality(B) \in Nat
         /\ Cardinality(F) \in Nat /\ Cardinality(Slots) \in Nat
         /\ Cardinality(A) + Cardinality(B) <= Cardinality(Slots) + Cardinality(F)
<1>1. IsFiniteSet(Slots)
  BY CommitteeAssumption
<1>2. /\ IsFiniteSet(A) /\ IsFiniteSet(B) /\ IsFiniteSet(F)
      /\ Cardinality(A \cup B) <= Cardinality(Slots)
  <2>1. A \cup B \in SUBSET Slots
    OBVIOUS
  <2> QED
    BY <1>1, <2>1, FS_Subset
<1>3. Cardinality(A \cap B) <= Cardinality(F)
  BY <1>2, FS_Subset
<1>4. /\ Cardinality(A \cup B) = Cardinality(A) + Cardinality(B) - Cardinality(A \cap B)
  BY <1>2, FS_Union
<1>5. IsFiniteSet(A \cap B)
  BY <1>2, FS_Subset
<1>6. /\ Cardinality(A) \in Nat /\ Cardinality(B) \in Nat /\ Cardinality(F) \in Nat
      /\ Cardinality(Slots) \in Nat /\ Cardinality(A \cap B) \in Nat
  BY <1>1, <1>2, <1>5, FS_CardinalityType
<1> QED
  BY <1>2, <1>3, <1>4, <1>6

\* With few faulty credits, an iteration in which steady nodes ratify once has
\* no quorums of both kinds.
LEMMA NotBoth ==
  ASSUME HonestNotSlashable, FewFaulty,
         NEW i \in Iters, NEW v \in Votes, NEW w \in Votes,
         ~Emergency(i), IsValid(v), ~IsValid(w),
         QuorumReached(i, "ratification", v, RatificationVoters(i, v)),
         QuorumReached(i, "ratification", w, RatificationVoters(i, w))
  PROVE  FALSE
<1> DEFINE Held(voters) == {s \in Slots : Committee[i]["ratification"][s] \in voters}
           A == Held(RatificationVoters(i, v))
           B == Held(RatificationVoters(i, w))
           F == Held(Provisioners \ Steady)
<1>1. v # w
  OBVIOUS
<1>2. \A p \in Steady : ~(p \in RatificationVoters(i, v) /\ p \in RatificationVoters(i, w))
  <2>1. SUFFICES ASSUME NEW p \in Steady,
                        p \in RatificationVoters(i, v), p \in RatificationVoters(i, w)
                 PROVE  FALSE
    OBVIOUS
  <2>2. p \in Honest
    BY DEF Steady
  <2>3. PICK m1 \in ratifications : m1.iter = i /\ m1.vote = v /\ m1.signer = p
    BY <2>1, <2>2 DEF RatificationVoters
  <2>4. PICK m2 \in ratifications : m2.iter = i /\ m2.vote = w /\ m2.signer = p
    BY <2>1, <2>2 DEF RatificationVoters
  <2> QED
    BY <1>1, <2>1, <2>3, <2>4 DEF HonestNotSlashable
<1>3. A \cap B \subseteq F
  <2>1. SUFFICES ASSUME NEW s \in A \cap B
                 PROVE  s \in F
    OBVIOUS
  <2>2. /\ s \in Slots
        /\ Committee[i]["ratification"][s] \in RatificationVoters(i, v)
        /\ Committee[i]["ratification"][s] \in RatificationVoters(i, w)
    OBVIOUS
  <2>3. Committee[i]["ratification"][s] \in Provisioners
    BY <2>2 DEF RatificationVoters
  <2> QED
    BY <1>2, <2>2, <2>3
<1>4. A \in SUBSET Slots /\ B \in SUBSET Slots /\ F \in SUBSET Slots
  OBVIOUS
<1>5. /\ Cardinality(A) \in Nat /\ Cardinality(B) \in Nat
      /\ Cardinality(F) \in Nat /\ Cardinality(Slots) \in Nat
      /\ Cardinality(A) + Cardinality(B) <= Cardinality(Slots) + Cardinality(F)
  <2> HIDE DEF A, B, F
  <2> QED
    BY <1>3, <1>4, Overlap
<1>6. Cardinality(A) >= supermajority /\ Cardinality(B) >= majority
  BY DEF QuorumReached, Credits, TargetQuorum
<1>7. Cardinality(F) + Cardinality(Slots) < majority + supermajority
  BY DEF FewFaulty, Credits
<1>8. majority \in Int /\ supermajority \in Int
  BY <1>5 DEF majority, supermajority
<1> HIDE DEF A, B, F
<1> QED
  BY <1>5, <1>6, <1>7, <1>8

\* While the faulty hold few credits, no normal iteration ever has a Success and
\* a Fail attestation, for every committee and every behaviour of the faulty.
THEOREM NeverBothAttestations == Spec => []AttestationsExclusive
<1>1. HonestNotSlashable => AttestationsExclusive
  BY NotBoth DEF AttestationsExclusive
<1> QED
  BY <1>1, NeverSlashable, PTL
=============================================================================
