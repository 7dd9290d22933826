--------------------------- MODULE RoundMessages ---------------------------
(***************************************************************************)
(* The consensus messages of one node on their way to the step they are    *)
(* for: Acceptor::reroute_msg, the inbound queue of the consensus task, the *)
(* registry of future messages (consensus/src/queue.rs) that outlives the  *)
(* tasks, and the places that drain it or clean it: every step, every      *)
(* accepted block, every start of a task.  A message is a round, a step    *)
(* number (StepName::to_step) and a signer; what it says is the matter of  *)
(* the module Consensus.                                                   *)
(***************************************************************************)
EXTENDS Naturals, SequencesExt

CONSTANTS
  Signers,
  MaxRoundDistance,  \* MAX_ROUND_DISTANCE
  OffsetFutureMsgs,  \* OFFSET_FUTURE_MSGS
  QueueCapacity,     \* MAX_MESSAGES_PER_QUEUE
  InboundCapacity,   \* max_inbound_size of the inbound queue
  StepsPerIter,      \* 3 in the code
  RoundIters,        \* CONSENSUS_MAX_ITER
  SavedIterCap,      \* EMERGENCY_MODE_ITERATION_THRESHOLD
  TopHeight,         \* bound: height of the last block accepted
  MaxReceived,       \* bound: messages that come from the network
  MaxBreaks          \* bound: reverts and restarts

\* What the constants must satisfy.
RoundMessagesAssumption ==
  /\ {MaxRoundDistance, OffsetFutureMsgs, TopHeight, MaxReceived, MaxBreaks} \subseteq Nat
  /\ {QueueCapacity, InboundCapacity, StepsPerIter, RoundIters} \subseteq Nat \ {0}
  /\ SavedIterCap \in 0..(RoundIters - 2)

RmRounds == 1..(TopHeight + MaxRoundDistance)
RmSteps  == 0..(RoundIters * StepsPerIter - 1)
RmMsgs   == [round : RmRounds, step : RmSteps, signer : Signers]
NoTask   == [round |-> 0, step |-> 0]

VARIABLES
  height,   \* of the tip
  task,     \* the running consensus task: its round and its step, or NoTask
  inbound,  \* main_inbound, which outlives the task
  queue,    \* the registry: for each round and step, a sequence of signers
  lastIter, \* MD_LAST_ITER: the height of the tip it names, and the iteration
  received, breaks

rmVars == <<height, task, inbound, queue, lastIter, received, breaks>>

EmptyQueue == [r \in RmRounds |-> [s \in RmSteps |-> <<>>]]
Queued(q) == {m \in RmMsgs : m.signer \in ToSet(q[m.round][m.step])}

-----------------------------------------------------------------------------
(* MsgRegistry *)

\* put_msg: one message per signer, and the oldest one makes room.
PutMsg(q, m) ==
  LET signers == q[m.round][m.step]
      room    == IF Len(signers) = QueueCapacity THEN Tail(signers) ELSE signers
  IN IF m.signer \in ToSet(signers) THEN q
     ELSE [q EXCEPT ![m.round][m.step] = Append(room, m.signer)]

\* drain_msg_by_round_step
DrainMsgs(q, r, s) == [q EXCEPT ![r][s] = <<>>]

\* remove_msgs_by_round
RemoveMsgsByRound(q, r) ==
  [k \in RmRounds |-> IF k = r THEN EmptyQueue[k] ELSE q[k]]

\* Mutated form of RemoveMsgsOutOfRange: split_off after the first round.
RemoveFromNextRound(q, start) ==
  [k \in RmRounds |-> IF k \in (start + 1)..(start + OffsetFutureMsgs) THEN q[k] ELSE EmptyQueue[k]]

\* remove_msgs_out_of_range
RemoveMsgsOutOfRange(q, start) ==
  [k \in RmRounds |-> IF k \in start..(start + OffsetFutureMsgs) THEN q[k] ELSE EmptyQueue[k]]

-----------------------------------------------------------------------------
(* The task *)

IterationOf(s) == s \div StepsPerIter

\* A step begins: handle_future_msgs drains what was kept for it.  The first
\* step of an iteration comes after store_last_iter.
EnterStep(q, r, s) ==
  /\ task' = [round |-> r, step |-> s]
  /\ queue' = DrainMsgs(q, r, s)
  /\ lastIter' = IF s % StepsPerIter = 0 THEN [height |-> r - 1, iter |-> IterationOf(s)]
                 ELSE lastIter

\* The iteration saved for this tip, capped, is not run again.
RestoredStep(h) ==
  IF lastIter.height # h THEN 0
  ELSE ((IF lastIter.iter > SavedIterCap THEN SavedIterCap ELSE lastIter.iter) + 1) * StepsPerIter

\* spawn_consensus for the tip of height h.
SpawnTask(q, h) == EnterStep(RemoveMsgsByRound(q, h), h + 1, RestoredStep(h))

\* The first step of the next iteration; the last iteration is run again.
RmNextIteration(s) ==
  IF IterationOf(s) = RoundIters - 1 THEN IterationOf(s) * StepsPerIter
  ELSE (IterationOf(s) + 1) * StepsPerIter

RmInit ==
  /\ height = 0
  /\ task = NoTask
  /\ inbound = <<>>
  /\ queue = EmptyQueue
  /\ lastIter = [height |-> TopHeight + 1, iter |-> 0]
  /\ received = 0
  /\ breaks = 0

\* The node starts, or OutOfSync ends: spawn_task, restart_consensus.
StartTask ==
  /\ task = NoTask
  /\ SpawnTask(queue, height)
  /\ UNCHANGED <<height, inbound, received, breaks>>

\* restart_consensus, or a crash: the registry survives only the former.
RestartTask(crash) ==
  /\ task # NoTask
  /\ breaks < MaxBreaks
  /\ breaks' = breaks + 1
  /\ SpawnTask(IF crash THEN EmptyQueue ELSE queue, height)
  /\ inbound' = IF crash THEN <<>> ELSE inbound
  /\ UNCHANGED <<height, received>>

\* reroute_msg: to the inbound queue, if the round is near and there is room.
RerouteMsg(m) ==
  /\ received < MaxReceived
  /\ received' = received + 1
  /\ task # NoTask
  /\ m.round \in (height + 1)..(height + MaxRoundDistance)
  /\ Len(inbound) < InboundCapacity
  /\ inbound' = Append(inbound, m)
  /\ UNCHANGED <<height, task, queue, lastIter, breaks>>

\* process_inbound_msg of a message that is not for the current step: one for
\* a later step or round is kept.
SetAside ==
  LET m == Head(inbound) IN
  /\ task # NoTask /\ inbound # <<>>
  /\ <<m.round, m.step>> # <<task.round, task.step>>
  /\ inbound' = Tail(inbound)
  /\ queue' = IF \/ m.round > task.round /\ m.round <= task.round + MaxRoundDistance
                 \/ m.round = task.round /\ m.step > task.step
              THEN PutMsg(queue, m) ELSE queue
  /\ UNCHANGED <<height, task, lastIter, received, breaks>>

\* A message of the current step is collected, without ending the step.
Collect ==
  LET m == Head(inbound) IN
  /\ task # NoTask /\ inbound # <<>>
  /\ <<m.round, m.step>> = <<task.round, task.step>>
  /\ inbound' = Tail(inbound)
  /\ UNCHANGED <<height, task, queue, lastIter, received, breaks>>

\* The step ends, with a result or with its timeout.  The last one of the last
\* iteration stays open.
EndStep ==
  /\ task # NoTask
  /\ task.step # Max(RmSteps)
  /\ EnterStep(queue, task.round, task.step + 1)
  /\ UNCHANGED <<height, inbound, received, breaks>>

\* A Quorum of the current iteration ends it.
EndIteration ==
  /\ task # NoTask
  /\ EnterStep(queue, task.round, RmNextIteration(task.step))
  /\ UNCHANGED <<height, inbound, received, breaks>>

\* accept_block: the task is aborted, the registry cleaned and, unless the node
\* is syncing, a task spawned.
AcceptNext(enable) ==
  LET q == RemoveMsgsOutOfRange(queue, height + 2) IN
  /\ height < TopHeight
  /\ height' = height + 1
  /\ IF enable THEN SpawnTask(q, height + 1)
     ELSE task' = NoTask /\ queue' = q /\ UNCHANGED lastIter
  /\ UNCHANGED <<inbound, received, breaks>>

\* try_revert: update_tip aborts the task.  The block that will come at a
\* height left this way is not the one MD_LAST_ITER may name.
RevertTip(h) ==
  /\ breaks < MaxBreaks
  /\ breaks' = breaks + 1
  /\ h < height
  /\ height' = h
  /\ task' = NoTask
  /\ lastIter' = IF lastIter.height > h THEN [lastIter EXCEPT !.height = TopHeight + 1] ELSE lastIter
  /\ UNCHANGED <<inbound, queue, received>>

RmNext ==
  \/ StartTask
  \/ \E crash \in BOOLEAN : RestartTask(crash)
  \/ \E m \in RmMsgs : RerouteMsg(m)
  \/ SetAside
  \/ Collect
  \/ EndStep
  \/ EndIteration
  \/ \E enable \in BOOLEAN : AcceptNext(enable)
  \/ \E h \in 0..TopHeight : RevertTip(h)

RmSpec == RmInit /\ [][RmNext]_rmVars

-----------------------------------------------------------------------------
\* Why a step of the system may take message m out of the registry: its step
\* begins, its round is over, the accepted block leaves it too far ahead, a
\* later message takes its place in a full queue, or the node crashed.
Released(m) ==
  \/ task' = [round |-> m.round, step |-> m.step]
  \/ m.round <= height'
  \/ height' = height + 1 /\ m.round > height' + 1 + OffsetFutureMsgs
  \/ m.signer = Head(queue[m.round][m.step])
     /\ Len(queue[m.round][m.step]) = QueueCapacity
     /\ Len(queue'[m.round][m.step]) = QueueCapacity
  \/ breaks' = breaks + 1 /\ height' = height /\ queue' = EmptyQueue

\* What leaves the registry in a step may leave it.
KeepsQueued == queue' # queue => \A m \in Queued(queue) \ Queued(queue') : Released(m)

\* A message set aside for a later step is still there when its step begins,
\* through every block accepted, task restarted or branch left on the way
\* (execution_ctx.rs: "Save it in future_msgs to be processed when we reach
\* same round/step").
QueuedMessagesKept ==
  [][KeepsQueued]_rmVars

=============================================================================
